---------------------------- MODULE NodeShimProofs ----------------------------
(* Theorems about NodeShim, for any number of requests and signals.        *)
EXTENDS NodeShim, TLAPS

(* The variables keep their types, and an open span belongs to a request in  *)
(* progress, whenever the process is told to end.                            *)
THEOREM ShimTypeCorrect == Spec => []ShimTypeOK
<1>1. Init => ShimTypeOK
  BY ShimAssumption DEF Init, ShimTypeOK
<1>2. ShimTypeOK /\ [Next]_shimVars => ShimTypeOK'
  <2> SUFFICES ASSUME ShimTypeOK, [Next]_shimVars
               PROVE  ShimTypeOK'
    OBVIOUS
  <2> USE ShimAssumption DEF ShimTypeOK
  <2>1. CASE Load
    BY <2>1 DEF Load
  <2>2. CASE StartSettles
    BY <2>2 DEF StartSettles
  <2>3. CASE Signal
    BY <2>3 DEF Signal
  <2>4. CASE DefaultHandler
    BY <2>4 DEF DefaultHandler, Exit
  <2>5. CASE OnSigterm
    BY <2>5 DEF OnSigterm
  <2>6. CASE ShutdownSettles
    BY <2>6 DEF ShutdownSettles, Flushed, Exit
  <2>7. CASE Export
    BY <2>7 DEF Export, Flushed
  <2>8. ASSUME NEW r \in Requests, Get(r)
        PROVE  ShimTypeOK'
    BY <2>8 DEF Get
  <2>9. ASSUME NEW r \in Requests, GetRoot(r)
        PROVE  ShimTypeOK'
    BY <2>9 DEF GetRoot
  <2>10. ASSUME NEW r \in Requests, Timer(r)
         PROVE  ShimTypeOK'
    BY <2>10 DEF Timer, Ended
  <2>11. CASE UNCHANGED shimVars
    BY <2>11 DEF shimVars
  <2>12. QED
    BY <2>1, <2>2, <2>3, <2>4, <2>5, <2>6, <2>7, <2>8, <2>9, <2>10, <2>11 DEF Next
<1>3. QED
  BY <1>1, <1>2, PTL DEF Spec

-----------------------------------------------------------------------------
(* A step ends the process for a signal that has arrived and, if the handler *)
(* does so, leaves nothing in the buffer; a process that has ended stays as  *)
(* it is.                                                                    *)
Ending == EndsOnlyWhenTold /\ FinishedSpansAreFlushed

LEMMA EndingHolds == Init => Ending
BY DEF Init, Ending, EndsOnlyWhenTold, FinishedSpansAreFlushed

LEMMA EndingIsKept == ShimTypeOK /\ Ending /\ [Next]_shimVars => Ending'
<1> SUFFICES ASSUME ShimTypeOK, Ending, [Next]_shimVars
             PROVE  Ending'
  OBVIOUS
<1> USE DEF ShimTypeOK, Ending, EndsOnlyWhenTold, FinishedSpansAreFlushed
<1>1. CASE UNCHANGED <<process, code, delivered, span>>
  BY <1>1 DEF Buffered
<1>2. CASE DefaultHandler
  BY <1>2 DEF DefaultHandler, Exit
<1>3. CASE ShutdownSettles
  <2>1. delivered' > 0 /\ code' = "handler"
    BY <1>3 DEF ShutdownSettles, Exit
  <2>2. PICK result \in {"exported", "failed"} : span' = Flushed(result)
    BY <1>3 DEF ShutdownSettles
  <2>3. Buffered' = {}
    BY <2>2 DEF Flushed, Buffered
  <2>4. QED
    BY <2>1, <2>3
<1>4. CASE process' # "exited" /\ code' = "none"
  BY <1>4
<1>5. QED
  <2>1. Load \/ StartSettles \/ OnSigterm \/ Export => process' # "exited" /\ code' = "none"
    BY DEF Load, StartSettles, OnSigterm, Export
  <2>2. Signal \/ UNCHANGED shimVars => UNCHANGED <<process, code, delivered, span>>
    BY DEF Signal, shimVars
  <2>3. ASSUME NEW r \in Requests
        PROVE  Get(r) \/ GetRoot(r) \/ Timer(r) => process' # "exited" /\ code' = "none"
    BY DEF Get, GetRoot, Timer
  <2>4. QED
    BY <1>1, <1>2, <1>3, <1>4, <2>1, <2>2, <2>3 DEF Next

(* A process ends only when it was told to, whatever fails in the SDK.       *)
THEOREM NeverEndsByItself == Spec => []EndsOnlyWhenTold
<1>1. ShimTypeOK /\ Ending => EndsOnlyWhenTold
  BY DEF Ending
<1>2. QED
  BY <1>1, ShimTypeCorrect, EndingHolds, EndingIsKept, PTL DEF Spec

(* A process that ends by its handler has flushed the spans that were        *)
(* finished.                                                                 *)
THEOREM FlushesBeforeExit == Spec => []FinishedSpansAreFlushed
<1>1. ShimTypeOK /\ Ending => FinishedSpansAreFlushed
  BY DEF Ending
<1>2. QED
  BY <1>1, ShimTypeCorrect, EndingHolds, EndingIsKept, PTL DEF Spec
=============================================================================
