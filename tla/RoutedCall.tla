----------------------------- MODULE RoutedCall -----------------------------
(***************************************************************************)
(* What a routed call promises its caller, whatever goes on underneath:    *)
(* candidates are taken in their order, the next one only because the one  *)
(* before it raised; the first that answers is the answer; the error of    *)
(* the call means that all of them raised; and a call that has ended,      *)
(* cancelled or not, stays as it ended.  MarketCalls implements it.        *)
(***************************************************************************)
EXTENDS Naturals

CONSTANT Calls

VARIABLES
  width,    (* number of candidates                                        *)
  raised,   (* raised[c]: the candidates of c that raised                  *)
  verdict   (* verdict[c]: how c ended, and by which candidate's answer    *)

vars == <<width, raised, verdict>>

Verdict(kind, by) == [kind |-> kind, by |-> by]

Init ==
  /\ width \in Nat
  /\ raised = [c \in Calls |-> {}]
  /\ verdict = [c \in Calls |-> Verdict("pending", 0)]

\* The candidates up to n have raised, those before them included.
RaisedUpTo(c, n) ==
  /\ raised[c] \subseteq 1..n
  /\ raised' = [raised EXCEPT ![c] = 1..n]

Open(c) == verdict[c].kind = "pending"

FallBack(c) ==
  /\ Open(c)
  /\ \E n \in 0..width : n < width /\ RaisedUpTo(c, n)
  /\ UNCHANGED <<width, verdict>>

AnswerFrom(c) ==
  /\ Open(c)
  /\ \E n \in 0..width :
       /\ n < width /\ RaisedUpTo(c, n)
       /\ verdict' = [verdict EXCEPT ![c] = Verdict("answer", n + 1)]
  /\ UNCHANGED width

GiveUp(c) ==
  /\ Open(c)
  /\ RaisedUpTo(c, width)
  /\ verdict' = [verdict EXCEPT ![c] = Verdict("error", 0)]
  /\ UNCHANGED width

Cancel(c) ==
  /\ Open(c)
  /\ verdict' = [verdict EXCEPT ![c] = Verdict("cancelled", 0)]
  /\ UNCHANGED <<width, raised>>

Next == \E c \in Calls : FallBack(c) \/ AnswerFrom(c) \/ GiveUp(c) \/ Cancel(c)

Spec == Init /\ [][Next]_vars

=============================================================================
