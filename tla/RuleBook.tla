------------------------------ MODULE RuleBook ------------------------------
(***************************************************************************)
(* What the registry of rules promises, without lists: it is a book with   *)
(* at most one rule for each object.  A rule is entered, replaced or       *)
(* struck out only while its own object is being handled, by a webhook     *)
(* call or by a reconciler, and such a step touches no other rule.  Only   *)
(* the end of the process, which also forgets what the informers had       *)
(* listed, empties the book.                                               *)
(***************************************************************************)
CONSTANTS Keys, Specs, NoRule, Kinds

VARIABLES
  book,       \* the rule of each object, or NoRule
  handling,   \* objects a handler or a worker is busy with
  listed      \* kinds of objects that have been listed

vars == <<book, handling, listed>>

Empty == [k \in Keys |-> NoRule]

Init ==
  /\ book = Empty
  /\ handling = {}
  /\ listed = {}

(* What is handled changes all the time. *)
Proceed == handling' \subseteq Keys /\ listed \subseteq listed' /\ listed' \subseteq Kinds

Change(k, rule) == book' = [book EXCEPT ![k] = rule] /\ Proceed

Leave == book' = book /\ Proceed

Lose == book' = Empty /\ handling' = {} /\ listed' = {}

Next ==
  \/ \E k \in handling, rule \in Specs \cup {NoRule} : Change(k, rule)
  \/ Leave
  \/ Lose

Spec == Init /\ [][Next]_vars
=============================================================================
