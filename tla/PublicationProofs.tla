-------------------------- MODULE PublicationProofs --------------------------
(***************************************************************************)
(* Theorems about Publication for any number of sessions, revisions,       *)
(* records and faults.                                                     *)
(***************************************************************************)
EXTENDS MCPublication, FiniteSetTheorems, TLAPS

CoreRecord == [rev : Nat, sup : Nat, reg : Nat]

\* The part of TypeOK the arguments below rest on.
Typed ==
  /\ producer \in Nat
  /\ pubs \in Seq(CoreRecord)
  /\ reg \in [revision : Nat, cancelled : BOOLEAN]
  /\ pc \in [Session -> Step]
  /\ req \in [Session -> [op : Op, rev : Nat, exp : Nat]]
  /\ seen \in [Session -> Nat] /\ target \in [Session -> Nat]
  /\ bind \in [Session -> Nat] /\ got \in [Session -> Nat]
  /\ wrote \in [Session -> BOOLEAN]
  /\ result \in [Session -> Result]

\* SeriesIsChain with revisions compared across the whole series, so that no
\* revision is published twice.
Ordered ==
  \A i \in 1 .. Len(pubs) :
    /\ pubs[i].sup = i - 1
    /\ pubs[i].rev <= producer
    /\ \A j \in 1 .. Len(pubs) : i < j => pubs[i].rev < pubs[j].rev

\* The chosen revision is published already, or newer than the predecessor.
Fits(s) ==
  \/ \E i \in 1 .. Len(pubs) : pubs[i].rev = target[s]
  \/ req[s].exp = 0
  \/ pubs[req[s].exp].rev < target[s]

\* What an operation has established on its way to Core.
Chosen(s) ==
  /\ req[s].exp <= Len(pubs)
  /\ (req[s].exp = 0) = (req[s].op = "publish")
  /\ target[s] <= producer /\ req[s].rev <= producer
  /\ req[s].op \in {"publish", "supersede"} => target[s] = req[s].rev
  /\ pc[s] = "producer" => req[s].op \in {"publish", "supersede"}
  /\ pc[s] = "series" => req[s].op # "withdraw"
  /\ pc[s] = "withdrawal" => req[s].op \in {"supersede", "republish"}
  /\ pc[s] \in {"history", "generate"} => req[s].op = "republish"
  /\ pc[s] \in {"withdrawal", "history"} => seen[s] \in 1 .. Len(pubs)
  /\ pc[s] \in {"registration", "core"} /\ req[s].op # "withdraw" => Fits(s)

\* Core has what the request of the session asked for.
Placed(s) ==
  IF req[s].op = "withdraw" THEN req[s].exp \in withdrawn
  ELSE /\ got[s] \in 1 .. Len(pubs)
       /\ pubs[got[s]].sup = req[s].exp
       /\ pubs[got[s]].rev = target[s]

Answered(s) ==
  /\ wrote[s] => pc[s] \in {"verify", "rebuild", "check", "idle"}
  /\ pc[s] \in {"verify", "rebuild", "check"} => Placed(s)
  /\ pc[s] = "idle" /\ result[s] = "ok" => Placed(s)
  /\ pc[s] = "idle" /\ result[s] \in {"refused", "failed"} => ~wrote[s]

IInv == Typed /\ Ordered /\ \A s \in Session : Chosen(s) /\ Answered(s)

(* The fields of a record are numbers.                                      *)
LEMMA RecordFields ==
  ASSUME Typed, NEW i \in 1 .. Len(pubs)
  PROVE  pubs[i].rev \in Nat /\ pubs[i].sup \in Nat /\ pubs[i].reg \in Nat
<1>1. pubs[i] \in CoreRecord
  BY DEF Typed
<1> QED
  BY <1>1 DEF CoreRecord

-----------------------------------------------------------------------------
(* The initial states.                                                     *)

LEMMA InitIInv == Init => IInv
<1> SUFFICES ASSUME Init PROVE IInv
  OBVIOUS
<1>1. Typed
  BY PublicationAssumption DEF Init, Typed, Step, Op, Result, Retryable
<1>2. Ordered
  BY DEF Init, Ordered
<1>3. ASSUME NEW s \in Session PROVE Chosen(s) /\ Answered(s)
  BY DEF Init, Chosen, Answered, Placed, Fits
<1> QED
  BY <1>1, <1>2, <1>3 DEF IInv

-----------------------------------------------------------------------------
(* What another session's step leaves alone.                               *)

\* Core and the producer only grow.
Grows ==
  /\ producer <= producer'
  /\ Len(pubs) <= Len(pubs')
  /\ \A i \in 1 .. Len(pubs) : pubs'[i] = pubs[i]
  /\ withdrawn \subseteq withdrawn'

Kept(s) ==
  /\ pc'[s] = pc[s] /\ req'[s] = req[s] /\ seen'[s] = seen[s] /\ target'[s] = target[s]
  /\ got'[s] = got[s] /\ wrote'[s] = wrote[s] /\ result'[s] = result[s]

LEMMA KeptStays ==
  ASSUME Typed, Typed', Grows, NEW s \in Session, Kept(s), Chosen(s), Answered(s)
  PROVE  Chosen(s)' /\ Answered(s)'
<1>1. Len(pubs) \in Nat /\ Len(pubs') \in Nat /\ req[s].exp \in Nat /\ producer \in Nat
      /\ producer' \in Nat /\ target[s] \in Nat /\ req[s].rev \in Nat /\ got[s] \in Nat
      /\ seen[s] \in Nat
  BY DEF Typed
<1>2. ASSUME Fits(s) PROVE Fits(s)'
  <2>1. req'[s] = req[s] /\ target'[s] = target[s] /\ Len(pubs) <= Len(pubs')
        /\ \A i \in 1 .. Len(pubs) : pubs'[i] = pubs[i]
    BY DEF Kept, Grows
  <2>2. CASE \E i \in 1 .. Len(pubs) : pubs[i].rev = target[s]
    <3>1. PICK i \in 1 .. Len(pubs) : pubs[i].rev = target[s]
      BY <2>2
    <3>2. i \in 1 .. Len(pubs') /\ pubs'[i].rev = target'[s]
      BY <1>1, <2>1, <3>1
    <3> QED
      BY <3>2 DEF Fits
  <2>3. CASE req[s].exp = 0
    BY <2>1, <2>3 DEF Fits
  <2>4. CASE req[s].exp # 0 /\ pubs[req[s].exp].rev < target[s]
    <3>1. req[s].exp \in 1 .. Len(pubs)
      BY <1>1, <2>4 DEF Chosen
    <3> QED
      BY <2>1, <2>4, <3>1 DEF Fits
  <2> QED
    BY <1>2, <2>2, <2>3, <2>4 DEF Fits
<1>3. Chosen(s)'
  BY <1>1, <1>2 DEF Chosen, Kept, Grows
<1>4. ASSUME Placed(s) PROVE Placed(s)'
  BY <1>1, <1>4 DEF Placed, Kept, Grows
<1>5. Answered(s)'
  BY <1>4 DEF Answered, Kept
<1> QED
  BY <1>3, <1>5

LEMMA OrderedStays ==
  ASSUME Typed, Typed', Ordered, pubs' = pubs, producer <= producer'
  PROVE  Ordered'
<1>1. ASSUME NEW i \in 1 .. Len(pubs) PROVE pubs[i].rev <= producer'
  <2>1. pubs[i].rev \in Nat /\ pubs[i].rev <= producer
    BY RecordFields DEF Ordered
  <2> QED
    BY <2>1 DEF Typed
<1>2. \A i \in 1 .. Len(pubs) : pubs'[i] = pubs[i]
  OBVIOUS
<1> QED
  BY <1>1, <1>2 DEF Ordered

(* A step of s that leaves the series as it is preserves the invariant when *)
(* s itself does.                                                           *)
LEMMA LocalStep ==
  ASSUME IInv, Typed', Grows, pubs' = pubs, NEW s \in Session,
         \A t \in Session \ {s} : Kept(t),
         Chosen(s)', Answered(s)'
  PROVE  IInv'
<1>1. Ordered'
  BY OrderedStays DEF IInv, Grows
<1>2. ASSUME NEW t \in Session PROVE Chosen(t)' /\ Answered(t)'
  BY KeptStays DEF IInv
<1> QED
  BY <1>1, <1>2 DEF IInv

-----------------------------------------------------------------------------
(* Steps that only move on or end the attempt.                             *)

Still == UNCHANGED <<producer, pubs, withdrawn, reg, req, opVars>>

Moves(s, step) ==
  /\ pc' = [pc EXCEPT ![s] = step]
  /\ result' = result \/ \E how \in Result : result' = [result EXCEPT ![s] = how]

LEMMA MovesTyped ==
  ASSUME Typed, NEW s \in Session, NEW step \in Step, Moves(s, step)
  PROVE  pc' \in [Session -> Step] /\ result' \in [Session -> Result]
<1>1. pc' \in [Session -> Step]
  BY DEF Typed, Moves
<1>2. result' \in [Session -> Result]
  BY DEF Typed, Moves
<1> QED
  BY <1>1, <1>2

LEMMA StillStep ==
  ASSUME IInv, Still, NEW s \in Session, NEW step \in Step, Moves(s, step),
         Chosen(s)', Answered(s)'
  PROVE  IInv'
<1>1. Typed /\ Typed'
  BY DEF IInv, Typed, Still, opVars, Moves
<1>2. Grows
  BY <1>1 DEF Grows, Still, Typed
<1>3. \A t \in Session \ {s} : Kept(t)
  BY <1>1 DEF Kept, Still, opVars, Moves, Typed
<1> QED
  BY <1>1, <1>2, <1>3, LocalStep DEF Still

\* Chosen(s) does not depend on how an attempt ends.
LEMMA ChosenAtRest ==
  ASSUME Typed, Still, NEW s \in Session, Chosen(s), pc'[s] \in {"idle", "verify", "rebuild", "check"}
  PROVE  Chosen(s)'
BY DEF Chosen, Still, opVars

LEMMA EndStep ==
  ASSUME IInv, Still, NEW s \in Session, NEW how \in Result, End(s, how),
         how = "ok" => Placed(s),
         how \in {"refused", "failed"} => ~wrote[s]
  PROVE  IInv'
<1>1. Moves(s, "idle") /\ "idle" \in Step
  BY DEF End, Goto, Moves, Step
<1>2. pc'[s] = "idle" /\ result'[s] = how
  BY DEF End, Goto, IInv, Typed
<1>3. Chosen(s)'
  BY <1>2, ChosenAtRest DEF IInv
<1>4. Placed(s) => Placed(s)'
  BY DEF Placed, Still, opVars
<1>5. wrote'[s] = wrote[s]
  BY DEF Still, opVars
<1>6. Answered(s)'
  BY <1>2, <1>4, <1>5 DEF Answered
<1> QED
  BY <1>1, <1>3, <1>6, StillStep

LEMMA ReadProducerStep ==
  ASSUME IInv, NEW s \in Session, ReadProducer(s)
  PROVE  IInv'
<1>1. Still /\ pc[s] = "producer"
  BY DEF ReadProducer, Still, producerVars, coreVars, opVars
<1>2. Chosen(s) /\ Answered(s) /\ Typed
  BY DEF IInv
<1>3. ~wrote[s]
  BY <1>1, <1>2 DEF Answered
<1>4. CASE End(s, "refused")
  BY <1>1, <1>3, <1>4, EndStep DEF Result
<1>5. CASE Continue(s, "series")
  <2>1. Moves(s, "series") /\ "series" \in Step /\ pc'[s] = "series"
    BY <1>2, <1>5 DEF Continue, Goto, Moves, Step, Typed
  <2>2. Chosen(s)' /\ Answered(s)'
    BY <1>1, <1>2, <1>3, <2>1 DEF Chosen, Answered, Still, opVars
  <2> QED
    BY <1>1, <2>1, <2>2, StillStep
<1> QED
  BY <1>4, <1>5 DEF ReadProducer

LEMMA ReadWithdrawalStep ==
  ASSUME IInv, NEW s \in Session, ReadWithdrawal(s)
  PROVE  IInv'
<1>1. Still /\ pc[s] = "withdrawal"
  BY DEF ReadWithdrawal, Still, producerVars, coreVars, opVars
<1>2. Chosen(s) /\ Answered(s) /\ Typed
  BY DEF IInv
<1>3. ~wrote[s] /\ req[s].op \in {"supersede", "republish"} /\ seen[s] \in 1 .. Len(pubs)
  BY <1>1, <1>2 DEF Answered, Chosen
<1>4. CASE End(s, "refused")
  BY <1>1, <1>3, <1>4, EndStep DEF Result
<1>5. CASE req[s].op = "republish" /\ Continue(s, "history")
  <2>1. Moves(s, "history") /\ "history" \in Step /\ pc'[s] = "history"
    BY <1>2, <1>5 DEF Continue, Goto, Moves, Step, Typed
  <2>2. Chosen(s)' /\ Answered(s)'
    BY <1>1, <1>2, <1>3, <1>5, <2>1 DEF Chosen, Answered, Still, opVars
  <2> QED
    BY <1>1, <2>1, <2>2, StillStep
<1>6. CASE /\ req[s].op = "supersede" /\ ~(req[s].rev <= pubs[req[s].exp].rev)
           /\ Continue(s, "registration")
  <2>1. Moves(s, "registration") /\ "registration" \in Step /\ pc'[s] = "registration"
    BY <1>2, <1>6 DEF Continue, Goto, Moves, Step, Typed
  <2>2. Fits(s)
    <3>1. req[s].exp \in 1 .. Len(pubs) /\ target[s] = req[s].rev /\ req[s].rev \in Nat
      BY <1>2, <1>6 DEF Chosen, Typed
    <3>2. pubs[req[s].exp].rev \in Nat
      BY <1>2, <3>1, RecordFields
    <3>3. pubs[req[s].exp].rev < target[s]
      BY <1>6, <3>1, <3>2
    <3> QED
      BY <3>3 DEF Fits
  <2>3. Fits(s)'
    BY <1>1, <2>2 DEF Fits, Still, opVars
  <2>4. Chosen(s)' /\ Answered(s)'
    BY <1>1, <1>2, <1>3, <1>6, <2>1, <2>3 DEF Chosen, Answered, Still, opVars
  <2> QED
    BY <1>1, <2>1, <2>4, StillStep
<1> QED
  BY <1>3, <1>4, <1>5, <1>6 DEF ReadWithdrawal

LEMMA VerifyStep ==
  ASSUME IInv, NEW s \in Session, Verify(s)
  PROVE  IInv'
<1>1. Still /\ pc[s] = "verify"
  BY DEF Verify, Still, producerVars, coreVars, opVars
<1>2. Chosen(s) /\ Answered(s) /\ Typed
  BY DEF IInv
<1>3. CASE End(s, "partial")
  BY <1>1, <1>3, EndStep DEF Result, Retryable
<1>4. CASE Continue(s, "rebuild")
  <2>1. Moves(s, "rebuild") /\ "rebuild" \in Step /\ pc'[s] = "rebuild"
    BY <1>2, <1>4 DEF Continue, Goto, Moves, Step, Typed
  <2>2. Placed(s)'
    BY <1>1, <1>2 DEF Answered, Placed, Still, opVars
  <2>3. Answered(s)'
    BY <2>1, <2>2 DEF Answered
  <2> QED
    BY <1>1, <1>2, <2>1, <2>3, ChosenAtRest, StillStep
<1> QED
  BY <1>3, <1>4 DEF Verify

LEMMA RebuildStep ==
  ASSUME IInv, NEW s \in Session, Rebuild(s)
  PROVE  IInv'
<1>1. Still /\ pc[s] = "rebuild"
  BY DEF Rebuild, Still, producerVars, coreVars, opVars
<1>2. Chosen(s) /\ Answered(s) /\ Typed
  BY DEF IInv
<1>3. Moves(s, "check") /\ "check" \in Step /\ pc'[s] = "check"
  BY <1>2 DEF Rebuild, Goto, Moves, Step, Typed
<1>4. Placed(s)'
  BY <1>1, <1>2 DEF Answered, Placed, Still, opVars
<1>5. Answered(s)'
  BY <1>3, <1>4 DEF Answered
<1> QED
  BY <1>1, <1>2, <1>3, <1>5, ChosenAtRest, StillStep

\* The remaining steps that only end an attempt.
LEMMA EndingStep ==
  ASSUME IInv, NEW s \in Session,
         CallRefused(s) \/ Check(s) \/ ReadFault(s) \/ ReadBackFault(s) \/ Crash(s)
  PROVE  IInv'
<1>1. Still
  BY DEF CallRefused, Check, ReadFault, ReadBackFault, Crash, Still, producerVars, coreVars, opVars
<1>2. Answered(s)
  BY DEF IInv
<1>3. CASE CallRefused(s)
  <2>1. ~wrote[s]
    BY <1>2, <1>3 DEF CallRefused, Answered
  <2> QED
    BY <1>1, <1>3, <2>1, EndStep DEF CallRefused, Result, Retryable
<1>4. CASE Check(s)
  <2>1. Placed(s)
    BY <1>2, <1>4 DEF Check, Answered
  <2> QED
    BY <1>1, <1>4, <2>1, EndStep DEF Check, Result, Retryable
<1>5. CASE ReadFault(s)
  <2>1. ~wrote[s]
    BY <1>2, <1>5 DEF ReadFault, Answered
  <2> QED
    BY <1>1, <1>5, <2>1, EndStep DEF ReadFault, Result, Retryable
<1>6. CASE ReadBackFault(s) \/ Crash(s)
  BY <1>1, <1>6, EndStep DEF ReadBackFault, Crash, Result, Retryable
<1> QED
  BY <1>3, <1>4, <1>5, <1>6

-----------------------------------------------------------------------------
(* Steps that choose the revision or the registration.                     *)

LEMMA ReadSeriesStep ==
  ASSUME IInv, NEW s \in Session, ReadSeries(s)
  PROVE  IInv'
<1> DEFINE r == req[s]
           logical == Logical(Len(pubs), r.rev)
<1>1. Chosen(s) /\ Answered(s) /\ Typed
  BY DEF IInv
<1>2. pc[s] = "series" /\ ~wrote[s] /\ r.op \in {"publish", "supersede", "republish"}
  BY <1>1 DEF ReadSeries, Chosen, Answered, Typed, Op
<1>3. /\ UNCHANGED <<producer, pubs, withdrawn, reg, req, target, got, wrote>>
      /\ seen' = [seen EXCEPT ![s] = Len(pubs)]
  BY DEF ReadSeries, producerVars, coreVars, CoreHead
<1>4. Len(pubs) \in Nat /\ seen'[s] = Len(pubs) /\ r.exp \in Nat
  BY <1>1, <1>3 DEF Typed
<1>5. logical # 0 => logical \in 1 .. Len(pubs) /\ pubs[logical].rev = r.rev
  BY DEF Logical
<1>6. \/ End(s, "refused") /\ bind' = bind
      \/ /\ r.op # "republish" /\ logical # 0 /\ Continue(s, "core")
         /\ bind' = [bind EXCEPT ![s] = pubs[logical].reg]
      \/ r.op = "publish" /\ Continue(s, "registration") /\ bind' = bind
      \/ r.op # "publish" /\ Continue(s, "withdrawal") /\ bind' = bind
  BY DEF ReadSeries, CoreHead
<1>7. \E step \in {"idle", "core", "registration", "withdrawal"} : Moves(s, step)
  BY <1>6 DEF End, Continue, Goto, Moves, Result
<1>8. bind' \in [Session -> Nat]
  <2>1. logical # 0 => pubs[logical].reg \in Nat
    BY <1>1, <1>5, RecordFields
  <2> QED
    BY <1>1, <1>6, <2>1 DEF Typed
<1>9. Typed'
  <2>1. pc' \in [Session -> Step] /\ result' \in [Session -> Result]
    BY <1>1, <1>7, MovesTyped DEF Step
  <2> QED
    BY <1>1, <1>3, <1>4, <1>8, <2>1 DEF Typed
<1>10. Grows /\ \A t \in Session \ {s} : Kept(t)
  BY <1>1, <1>3, <1>4, <1>7 DEF Grows, Kept, Moves, Typed
<1>11. Chosen(s)' /\ Answered(s)'
  <2>1. CASE End(s, "refused")
    <3>1. pc'[s] = "idle" /\ result'[s] = "refused"
      BY <1>1, <2>1 DEF End, Goto, Typed
    <3> QED
      BY <1>1, <1>2, <1>3, <3>1 DEF Chosen, Answered
  <2>2. CASE r.op # "republish" /\ logical # 0 /\ Continue(s, "core")
    <3>1. pc'[s] = "core"
      BY <1>1, <2>2 DEF Continue, Goto, Typed
    <3>2. target[s] = r.rev
      BY <1>1, <1>2, <2>2 DEF Chosen
    <3>3. Fits(s)'
      BY <1>3, <1>5, <2>2, <3>2 DEF Fits
    <3> QED
      BY <1>1, <1>2, <1>3, <3>1, <3>3 DEF Chosen, Answered
  <2>3. CASE r.op = "publish" /\ Continue(s, "registration")
    <3>1. pc'[s] = "registration" /\ r.exp = 0
      BY <1>1, <2>3 DEF Continue, Goto, Typed, Chosen
    <3>2. Fits(s)'
      BY <1>3, <3>1 DEF Fits
    <3> QED
      BY <1>1, <1>2, <1>3, <3>1, <3>2 DEF Chosen, Answered
  <2>4. CASE r.op # "publish" /\ Continue(s, "withdrawal")
    <3>1. pc'[s] = "withdrawal" /\ r.op \in {"supersede", "republish"}
      BY <1>1, <1>2, <2>4 DEF Continue, Goto, Typed
    <3>2. seen'[s] \in 1 .. Len(pubs')
      BY <1>1, <1>3, <1>4, <2>4 DEF Chosen
    <3> QED
      BY <1>1, <1>2, <1>3, <3>1, <3>2 DEF Chosen, Answered
  <2> QED
    BY <1>6, <2>1, <2>2, <2>3, <2>4
<1> QED
  BY <1>3, <1>9, <1>10, <1>11, LocalStep

LEMMA ReadHistoryStep ==
  ASSUME IInv, NEW s \in Session, ReadHistory(s)
  PROVE  IInv'
<1> DEFINE e == req[s].exp
<1>1. Chosen(s) /\ Answered(s) /\ Typed /\ Ordered
  BY DEF IInv
<1>2. /\ pc[s] = "history" /\ ~wrote[s] /\ req[s].op = "republish"
      /\ seen[s] \in 1 .. Len(pubs) /\ e \in 1 .. Len(pubs)
  BY <1>1 DEF ReadHistory, Chosen, Answered, Typed
<1>3. /\ UNCHANGED <<producer, pubs, withdrawn, reg, req, seen, got, wrote>>
      /\ target' = [target EXCEPT ![s] = producer]
  BY DEF ReadHistory, producerVars, coreVars
<1>4. target'[s] = producer /\ producer \in Nat
  BY <1>1, <1>3 DEF Typed
<1>5. \/ End(s, "refused") /\ bind' = bind
      \/ /\ producer = pubs[seen[s]].rev /\ Continue(s, "core")
         /\ bind' = [bind EXCEPT ![s] = pubs[seen[s]].reg]
      \/ producer > pubs[e].rev /\ Continue(s, "registration") /\ bind' = bind
      \/ Continue(s, "generate") /\ bind' = bind
  BY DEF ReadHistory
<1>6. \E step \in {"idle", "core", "registration", "generate"} : Moves(s, step)
  BY <1>5 DEF End, Continue, Goto, Moves, Result
<1>7. bind' \in [Session -> Nat]
  <2>1. pubs[seen[s]].reg \in Nat
    BY <1>1, <1>2, RecordFields
  <2> QED
    BY <1>1, <1>5, <2>1 DEF Typed
<1>8. Typed'
  <2>1. pc' \in [Session -> Step] /\ result' \in [Session -> Result]
    BY <1>1, <1>6, MovesTyped DEF Step
  <2> QED
    BY <1>1, <1>3, <1>7, <2>1 DEF Typed
<1>9. Grows /\ \A t \in Session \ {s} : Kept(t)
  BY <1>1, <1>3, <1>6 DEF Grows, Kept, Moves, Typed
<1>10. Chosen(s)' /\ Answered(s)'
  <2>1. CASE End(s, "refused")
    <3>1. pc'[s] = "idle" /\ result'[s] = "refused"
      BY <1>1, <2>1 DEF End, Goto, Typed
    <3> QED
      BY <1>1, <1>2, <1>3, <1>4, <3>1 DEF Chosen, Answered
  <2>2. CASE producer = pubs[seen[s]].rev /\ Continue(s, "core")
    <3>1. pc'[s] = "core"
      BY <1>1, <2>2 DEF Continue, Goto, Typed
    <3>2. Fits(s)'
      BY <1>2, <1>3, <1>4, <2>2 DEF Fits
    <3> QED
      BY <1>1, <1>2, <1>3, <1>4, <3>1, <3>2 DEF Chosen, Answered
  <2>3. CASE producer > pubs[e].rev /\ Continue(s, "registration")
    <3>1. pc'[s] = "registration"
      BY <1>1, <2>3 DEF Continue, Goto, Typed
    <3>2. pubs[e].rev \in Nat
      BY <1>1, <1>2, RecordFields
    <3>3. pubs[e].rev < producer
      BY <1>4, <2>3, <3>2
    <3>4. Fits(s)'
      BY <1>3, <1>4, <3>3 DEF Fits
    <3> QED
      BY <1>1, <1>2, <1>3, <1>4, <3>1, <3>4 DEF Chosen, Answered
  <2>4. CASE Continue(s, "generate")
    <3>1. pc'[s] = "generate"
      BY <1>1, <2>4 DEF Continue, Goto, Typed
    <3> QED
      BY <1>1, <1>2, <1>3, <1>4, <3>1 DEF Chosen, Answered
  <2> QED
    BY <1>5, <2>1, <2>2, <2>3, <2>4
<1> QED
  BY <1>3, <1>8, <1>9, <1>10, LocalStep

LEMMA ReadRegistrationStep ==
  ASSUME IInv, NEW s \in Session, ReadRegistration(s)
  PROVE  IInv'
<1>1. Chosen(s) /\ Answered(s) /\ Typed
  BY DEF IInv
<1>2. pc[s] = "registration" /\ ~wrote[s] /\ (req[s].op # "withdraw" => Fits(s))
  BY <1>1 DEF ReadRegistration, Chosen, Answered
<1>3. UNCHANGED <<producer, pubs, withdrawn, reg, req, seen, target, got, wrote>>
  BY DEF ReadRegistration, producerVars, coreVars
<1>4. \/ End(s, "refused") /\ bind' = bind
      \/ Continue(s, "core") /\ bind' = [bind EXCEPT ![s] = reg.revision]
  BY DEF ReadRegistration
<1>5. \E step \in {"idle", "core"} : Moves(s, step)
  BY <1>4 DEF End, Continue, Goto, Moves, Result
<1>6. Typed'
  <2>1. pc' \in [Session -> Step] /\ result' \in [Session -> Result]
    BY <1>1, <1>5, MovesTyped DEF Step
  <2>2. bind' \in [Session -> Nat]
    BY <1>1, <1>4 DEF Typed
  <2> QED
    BY <1>1, <1>3, <2>1, <2>2 DEF Typed
<1>7. Grows /\ \A t \in Session \ {s} : Kept(t)
  BY <1>1, <1>3, <1>5 DEF Grows, Kept, Moves, Typed
<1>8. Fits(s) => Fits(s)'
  BY <1>3 DEF Fits
<1>9. Chosen(s)' /\ Answered(s)'
  <2>1. CASE End(s, "refused")
    <3>1. pc'[s] = "idle" /\ result'[s] = "refused"
      BY <1>1, <2>1 DEF End, Goto, Typed
    <3> QED
      BY <1>1, <1>2, <1>3, <3>1 DEF Chosen, Answered
  <2>2. CASE Continue(s, "core")
    <3>1. pc'[s] = "core"
      BY <1>1, <2>2 DEF Continue, Goto, Typed
    <3> QED
      BY <1>1, <1>2, <1>3, <1>8, <3>1 DEF Chosen, Answered
  <2> QED
    BY <1>4, <2>1, <2>2
<1> QED
  BY <1>3, <1>6, <1>7, <1>9, LocalStep

LEMMA StartStep ==
  ASSUME IInv, NEW s \in Session, NEW r \in [op : Op, rev : Nat, exp : Nat], Start(s, r),
         r.exp <= Len(pubs), (r.exp = 0) = (r.op = "publish"), r.rev <= producer,
         result' \in [Session -> Result], \A t \in Session \ {s} : result'[t] = result[t]
  PROVE  IInv'
<1>1. Typed
  BY DEF IInv
<1>2. /\ UNCHANGED <<producer, pubs, withdrawn, reg>>
      /\ pc' = [pc EXCEPT ![s] = FirstStep(r.op)]
      /\ req' = [req EXCEPT ![s] = r]
      /\ seen' = [seen EXCEPT ![s] = 0] /\ target' = [target EXCEPT ![s] = r.rev]
      /\ bind' = [bind EXCEPT ![s] = 0] /\ got' = [got EXCEPT ![s] = 0]
      /\ wrote' = [wrote EXCEPT ![s] = FALSE]
  BY DEF Start, Goto, producerVars, coreVars
<1>3. FirstStep(r.op) \in Step
  BY DEF FirstStep, Step
<1>4. Typed'
  <2>1. req' \in [Session -> [op : Op, rev : Nat, exp : Nat]] /\ pc' \in [Session -> Step]
    BY <1>1, <1>2, <1>3 DEF Typed
  <2>2. seen' \in [Session -> Nat] /\ target' \in [Session -> Nat]
        /\ bind' \in [Session -> Nat] /\ got' \in [Session -> Nat]
        /\ wrote' \in [Session -> BOOLEAN]
    BY <1>1, <1>2 DEF Typed
  <2> QED
    BY <1>1, <1>2, <2>1, <2>2 DEF Typed
<1>5. Grows /\ \A t \in Session \ {s} : Kept(t)
  BY <1>1, <1>2 DEF Grows, Kept, Typed
<1>6. /\ pc'[s] = FirstStep(r.op) /\ req'[s] = r /\ target'[s] = r.rev /\ wrote'[s] = FALSE
      /\ pubs' = pubs /\ producer' = producer
  BY <1>1, <1>2 DEF Typed
<1>7. r.op \in Op
  OBVIOUS
<1>8. Chosen(s)' /\ Answered(s)'
  <2>1. CASE r.op = "withdraw"
    BY <1>6, <2>1 DEF Chosen, Answered, FirstStep
  <2>2. CASE r.op = "republish"
    BY <1>6, <2>2 DEF Chosen, Answered, FirstStep
  <2>3. CASE r.op \in {"publish", "supersede"}
    BY <1>6, <2>3 DEF Chosen, Answered, FirstStep
  <2> QED
    BY <1>7, <2>1, <2>2, <2>3 DEF Op
<1> QED
  BY <1>2, <1>4, <1>5, <1>8, LocalStep

LEMMA AskStep ==
  ASSUME IInv, NEW s \in Session, NEW r \in Request, Ask(s, r)
  PROVE  IInv'
<1>1. Typed /\ Len(pubs) \in Nat
  BY DEF IInv, Typed
<1>2. r \in [op : Op, rev : Nat, exp : Nat]
  BY PublicationAssumption DEF Request
<1>3. r.exp <= Len(pubs) /\ (r.exp = 0) = (r.op = "publish")
  BY <1>1, <1>2 DEF Ask, CoreHead
<1>4. r.rev <= producer
  BY <1>1, <1>2 DEF Ask, Op, Typed
<1>5. result' \in [Session -> Result] /\ \A t \in Session \ {s} : result'[t] = result[t]
  BY <1>1 DEF Ask, Typed, Result
<1> QED
  BY <1>2, <1>3, <1>4, <1>5, StartStep DEF Ask

LEMMA RetryStep ==
  ASSUME IInv, NEW s \in Session, Retry(s)
  PROVE  IInv'
<1>1. Typed /\ Chosen(s)
  BY DEF IInv
<1>2. req[s] \in [op : Op, rev : Nat, exp : Nat]
  BY <1>1 DEF Typed
<1>3. result' \in [Session -> Result] /\ \A t \in Session \ {s} : result'[t] = result[t]
  BY <1>1 DEF Retry, Typed
<1> QED
  BY <1>1, <1>2, <1>3, StartStep DEF Retry, Chosen

-----------------------------------------------------------------------------
(* A generation, by the operation or by a teacher.                         *)

LEMMA GenerateStep ==
  ASSUME IInv, NEW s \in Session, Generate(s) \/ GenerateFault(s)
  PROVE  IInv'
<1>1. Chosen(s) /\ Answered(s) /\ Typed /\ Ordered
  BY DEF IInv
<1>2. pc[s] = "generate" /\ ~wrote[s] /\ req[s].op = "republish" /\ req[s].exp \in 1 .. Len(pubs)
  <2>1. pc[s] = "generate"
    BY DEF Generate, GenerateFault
  <2>2. ~wrote[s] /\ req[s].op = "republish" /\ req[s].exp # 0 /\ req[s].exp <= Len(pubs)
    BY <1>1, <2>1 DEF Chosen, Answered
  <2>3. req[s].exp \in Nat /\ Len(pubs) \in Nat
    BY <1>1 DEF Typed
  <2> QED
    BY <2>1, <2>2, <2>3
<1>3. UNCHANGED <<pubs, withdrawn, reg, req, seen, bind, got, wrote>>
  BY DEF Generate, GenerateFault, coreVars
<1>4. \/ /\ \E how \in {"failed", "partial"} : End(s, how)
         /\ producer' \in {producer, producer + 1} /\ target' = target
      \/ /\ Continue(s, "registration") /\ producer' = producer + 1
         /\ target' = [target EXCEPT ![s] = producer']
  BY DEF Generate, GenerateFault, producerVars
<1>5. \E step \in {"idle", "registration"} : Moves(s, step)
  BY <1>4 DEF End, Continue, Goto, Moves, Result, Retryable
<1>6. producer' \in Nat /\ producer <= producer' /\ target' \in [Session -> Nat]
  BY <1>1, <1>4 DEF Typed
<1>7. Typed'
  <2>1. pc' \in [Session -> Step] /\ result' \in [Session -> Result]
    BY <1>1, <1>5, MovesTyped DEF Step
  <2> QED
    BY <1>1, <1>3, <1>6, <2>1 DEF Typed
<1>8. Grows /\ \A t \in Session \ {s} : Kept(t)
  <2>1. \A t \in Session \ {s} : target'[t] = target[t]
    BY <1>1, <1>4 DEF Typed
  <2>2. \A t \in Session \ {s} : pc'[t] = pc[t] /\ result'[t] = result[t]
    BY <1>1, <1>5 DEF Moves, Typed
  <2> QED
    BY <1>1, <1>3, <1>6, <2>1, <2>2 DEF Grows, Kept, Typed
<1>9. Chosen(s)' /\ Answered(s)'
  <2>1. CASE \E how \in {"failed", "partial"} : End(s, how) /\ target' = target
    <3>1. pc'[s] = "idle" /\ result'[s] \in {"failed", "partial"}
      BY <1>1, <2>1 DEF End, Goto, Typed
    <3>2. target[s] \in Nat /\ req[s].rev \in Nat /\ producer \in Nat
      BY <1>1 DEF Typed
    <3>3. Chosen(s)'
      BY <1>1, <1>2, <1>3, <1>6, <2>1, <3>1, <3>2 DEF Chosen
    <3> QED
      BY <1>2, <1>3, <3>1, <3>3 DEF Answered
  <2>2. CASE Continue(s, "registration") /\ producer' = producer + 1
             /\ target' = [target EXCEPT ![s] = producer']
    <3>1. pc'[s] = "registration" /\ target'[s] = producer + 1
      BY <1>1, <2>2 DEF Continue, Goto, Typed
    <3>2. pubs[req[s].exp].rev \in Nat /\ pubs[req[s].exp].rev <= producer
      BY <1>1, <1>2, RecordFields DEF Ordered
    <3>3. producer \in Nat /\ req[s].rev \in Nat
      BY <1>1 DEF Typed
    <3>4. pubs[req[s].exp].rev < producer + 1
      BY <3>2, <3>3
    <3>5. Fits(s)'
      BY <1>3, <3>1, <3>4 DEF Fits
    <3>6. Chosen(s)'
      BY <1>1, <1>2, <1>3, <2>2, <3>1, <3>3, <3>5 DEF Chosen
    <3> QED
      BY <1>2, <1>3, <3>1, <3>6 DEF Answered
  <2> QED
    BY <1>4, <2>1, <2>2
<1> QED
  BY <1>3, <1>7, <1>8, <1>9, LocalStep

LEMMA SurroundingStep ==
  ASSUME IInv, TeacherGenerates \/ UpdateRegistration \/ RebuildByHand
  PROVE  IInv'
<1>1. Typed /\ Ordered
  BY DEF IInv
<1>2. /\ UNCHANGED <<pubs, withdrawn, pc, req, seen, target, bind, got, wrote, result>>
      /\ producer' \in {producer, producer + 1}
  BY DEF TeacherGenerates, UpdateRegistration, RebuildByHand, producerVars, coreVars, opVars
<1>3. producer' \in Nat /\ producer <= producer'
  BY <1>1, <1>2 DEF Typed
<1>4. reg' \in [revision : Nat, cancelled : BOOLEAN]
  BY <1>1 DEF TeacherGenerates, UpdateRegistration, RebuildByHand, Typed
<1>5. Typed'
  BY <1>1, <1>2, <1>3, <1>4 DEF Typed
<1>6. Ordered'
  BY <1>1, <1>2, <1>3, <1>5, OrderedStays
<1>7. Grows /\ \A t \in Session : Kept(t)
  BY <1>1, <1>2, <1>3 DEF Grows, Kept, Typed
<1> QED
  BY <1>5, <1>6, <1>7, <1>1, KeptStays DEF IInv

-----------------------------------------------------------------------------
(* Core's services.                                                        *)

\* What a Core service leaves: the series as it was, or one record longer.
LEMMA CoreStep ==
  ASSUME IInv, NEW s \in Session, pc[s] = "core", DoCore(s), UNCHANGED <<producer, req, target>>
  PROVE  /\ pubs' \in Seq(CoreRecord)
         /\ Ordered' /\ Grows /\ Placed(s)'
         /\ got' \in [Session -> Nat] /\ wrote' \in [Session -> BOOLEAN]
         /\ \A t \in Session \ {s} : got'[t] = got[t] /\ wrote'[t] = wrote[t]
<1> DEFINE r == req[s]
           rev == target[s]
<1>1. Chosen(s) /\ Typed /\ Ordered
  BY DEF IInv
<1>2. /\ r.exp \in Nat /\ r.exp <= Len(pubs) /\ rev \in Nat /\ rev <= producer /\ bind[s] \in Nat
      /\ producer \in Nat /\ Len(pubs) \in Nat
  BY <1>1 DEF Chosen, Typed
<1>3. producer' = producer /\ req'[s] = r /\ target'[s] = rev
  OBVIOUS
<1>4. CASE r.op = "withdraw"
  <2>1. /\ withdrawn' = withdrawn \cup {r.exp} /\ pubs' = pubs
        /\ got' = [got EXCEPT ![s] = r.exp]
        /\ wrote' = [wrote EXCEPT ![s] = @ \/ r.exp \notin withdrawn]
    BY <1>4 DEF DoCore, CoreWithdraw
  <2>2. Ordered'
    BY <1>1, <1>3, <2>1 DEF Ordered
  <2>3. Grows /\ Placed(s)'
    BY <1>2, <1>3, <1>4, <2>1 DEF Grows, Placed
  <2>4. got' \in [Session -> Nat] /\ wrote' \in [Session -> BOOLEAN]
    BY <1>1, <1>2, <2>1 DEF Typed
  <2> QED
    BY <1>1, <2>1, <2>2, <2>3, <2>4 DEF Typed
<1>5. CASE r.op # "withdraw" /\ Existing(rev) # {}
  <2> DEFINE here == CHOOSE i \in Existing(rev) : TRUE
  <2>1. here \in 1 .. Len(pubs) /\ pubs[here].rev = rev
    BY <1>5 DEF Existing, CoreHead
  <2>2. /\ pubs' = pubs /\ withdrawn' = withdrawn /\ wrote' = wrote
        /\ got' = [got EXCEPT ![s] = here]
    BY <1>5 DEF DoCore, CoreWrite, coreVars
  <2>3. \E i \in 1 .. Len(pubs) : pubs[i].rev = rev /\ pubs[i].sup = r.exp
    BY <1>5 DEF DoCore, CoreAccepts, Existing, CoreHead
  <2>4. pubs[here].sup = r.exp
    <3>1. PICK i \in 1 .. Len(pubs) : pubs[i].rev = rev /\ pubs[i].sup = r.exp
      BY <2>3
    <3>2. ~(i < here) /\ ~(here < i)
      BY <1>1, <1>2, <2>1, <3>1 DEF Ordered
    <3>3. i = here
      BY <1>2, <2>1, <3>2
    <3> QED
      BY <3>1, <3>3
  <2>5. Ordered'
    BY <1>1, <1>3, <2>2 DEF Ordered
  <2>6. Grows
    BY <1>2, <1>3, <2>2 DEF Grows
  <2>7. got'[s] = here
    BY <1>1, <2>2 DEF Typed
  <2>8. Placed(s)'
    BY <1>3, <1>5, <2>1, <2>2, <2>4, <2>7 DEF Placed
  <2>9. got' \in [Session -> Nat] /\ \A t \in Session \ {s} : got'[t] = got[t]
    BY <1>1, <1>2, <2>1, <2>2 DEF Typed
  <2> QED
    BY <1>1, <2>2, <2>5, <2>6, <2>8, <2>9 DEF Typed
<1>6. CASE r.op # "withdraw" /\ Existing(rev) = {}
  <2> DEFINE new == [rev |-> rev, sup |-> r.exp, reg |-> bind[s]]
             n == Len(pubs)
  <2>1. n = r.exp
    BY <1>6 DEF DoCore, CoreAccepts, CoreHead
  <2>2. /\ pubs' = Append(pubs, new) /\ withdrawn' = withdrawn
        /\ got' = [got EXCEPT ![s] = n + 1] /\ wrote' = [wrote EXCEPT ![s] = TRUE]
    BY <1>6 DEF DoCore, CoreWrite, CoreHead
  <2>3. new \in CoreRecord
    BY <1>2 DEF CoreRecord
  <2>4. pubs' \in Seq(CoreRecord) /\ Len(pubs') = n + 1 /\ pubs'[n + 1] = new
        /\ \A i \in 1 .. n : pubs'[i] = pubs[i]
    BY <1>1, <2>2, <2>3 DEF Typed
  <2>5. \A i \in 1 .. n : pubs[i].rev < rev
    <3>1. Fits(s) /\ ~\E i \in 1 .. n : pubs[i].rev = rev
      BY <1>1, <1>6 DEF Chosen, Existing, CoreHead
    <3>2. n = 0 \/ pubs[n].rev < rev
      BY <2>1, <3>1 DEF Fits
    <3> SUFFICES ASSUME NEW i \in 1 .. n PROVE pubs[i].rev < rev
      OBVIOUS
    <3>3. n \in 1 .. n /\ pubs[n].rev < rev
      BY <1>2, <3>2
    <3>4. pubs[i].rev \in Nat /\ pubs[n].rev \in Nat
      BY <1>1, <3>3, RecordFields
    <3>5. i = n \/ pubs[i].rev < pubs[n].rev
      BY <1>1, <1>2, <3>3 DEF Ordered
    <3> QED
      BY <1>2, <3>3, <3>4, <3>5
  <2>6. Ordered'
    <3> SUFFICES ASSUME NEW i \in 1 .. n + 1
                 PROVE  /\ pubs'[i].sup = i - 1
                        /\ pubs'[i].rev <= producer
                        /\ \A j \in 1 .. n + 1 : i < j => pubs'[i].rev < pubs'[j].rev
      BY <1>3, <2>4 DEF Ordered
    <3>1. CASE i \in 1 .. n
      <4>1. pubs'[i] = pubs[i]
        BY <2>4, <3>1
      <4>2. ASSUME NEW j \in 1 .. n + 1, i < j PROVE pubs[i].rev < pubs'[j].rev
        <5>1. CASE j \in 1 .. n
          BY <1>1, <2>4, <3>1, <4>2, <5>1 DEF Ordered
        <5>2. CASE j = n + 1
          BY <2>4, <2>5, <3>1, <5>2
        <5> QED
          BY <1>2, <5>1, <5>2
      <4> QED
        BY <1>1, <3>1, <4>1, <4>2 DEF Ordered
    <3>2. CASE i = n + 1
      <4>1. \A j \in 1 .. n + 1 : ~(i < j)
        BY <1>2, <3>2
      <4> QED
        BY <1>2, <2>1, <2>4, <3>2, <4>1
    <3> QED
      BY <1>2, <3>1, <3>2
  <2>7. Grows
    BY <1>2, <1>3, <2>2, <2>4 DEF Grows
  <2>8. got'[s] = n + 1
    BY <1>1, <2>2 DEF Typed
  <2>9. n + 1 \in 1 .. Len(pubs')
    BY <1>2, <2>4
  <2>10. Placed(s)'
    BY <1>3, <1>6, <2>4, <2>8, <2>9 DEF Placed
  <2>11. got' \in [Session -> Nat] /\ wrote' \in [Session -> BOOLEAN]
         /\ \A t \in Session \ {s} : got'[t] = got[t] /\ wrote'[t] = wrote[t]
    BY <1>1, <1>2, <2>2 DEF Typed
  <2> QED
    BY <2>4, <2>6, <2>7, <2>10, <2>11
<1> QED
  BY <1>4, <1>5, <1>6

LEMMA CallStep ==
  ASSUME IInv, NEW s \in Session, Call(s) \/ CallFault(s)
  PROVE  IInv'
<1>1. Chosen(s) /\ Answered(s) /\ Typed
  BY DEF IInv
<1>2. pc[s] = "core" /\ ~wrote[s]
  BY <1>1 DEF Call, CallFault, Answered
<1>3. UNCHANGED <<producer, reg, req, seen, target, bind>>
  BY DEF Call, CallFault, producerVars
<1>4. CASE \/ Call(s)
           \/ /\ DoCore(s)
              /\ Goto(s, "idle") /\ result' = [result EXCEPT ![s] = "partial"]
  <2>1. DoCore(s)
    BY <1>4 DEF Call
  <2>2. /\ pubs' \in Seq(CoreRecord)
        /\ Ordered' /\ Grows /\ Placed(s)'
        /\ got' \in [Session -> Nat] /\ wrote' \in [Session -> BOOLEAN]
        /\ \A t \in Session \ {s} : got'[t] = got[t] /\ wrote'[t] = wrote[t]
    BY <1>2, <1>3, <2>1, CoreStep
  <2>3. \/ pc' = [pc EXCEPT ![s] = "verify"] /\ result' = result
        \/ pc' = [pc EXCEPT ![s] = "idle"] /\ result' = [result EXCEPT ![s] = "partial"]
    BY <1>4 DEF Call, Continue, Goto
  <2>4. pc' \in [Session -> Step] /\ result' \in [Session -> Result]
    <3>1. "verify" \in Step /\ "idle" \in Step /\ "partial" \in Result
      BY DEF Step, Result, Retryable
    <3>2. pc \in [Session -> Step] /\ result \in [Session -> Result]
      BY <1>1 DEF Typed
    <3>3. pc' \in [Session -> Step]
      BY <2>3, <3>1, <3>2
    <3>4. result' \in [Session -> Result]
      BY <2>3, <3>1, <3>2
    <3> QED
      BY <3>3, <3>4
  <2>5. Typed'
    BY <1>1, <1>3, <2>2, <2>4 DEF Typed
  <2>6. \A t \in Session \ {s} : Kept(t)
    BY <1>1, <1>3, <2>2, <2>3 DEF Kept, Typed
  <2>7. pc'[s] = "verify" \/ (pc'[s] = "idle" /\ result'[s] = "partial")
    BY <1>1, <2>3 DEF Typed
  <2>8. Chosen(s)'
    <3>1. Len(pubs) \in Nat /\ req[s].exp \in Nat
      BY <1>1 DEF Typed
    <3>2. Len(pubs') \in Nat
      BY <2>2
    <3>3. Len(pubs) <= Len(pubs')
      BY <2>2 DEF Grows
    <3> QED
      BY <1>1, <1>3, <2>7, <3>1, <3>2, <3>3 DEF Chosen
  <2>9. Answered(s)'
    BY <2>2, <2>7 DEF Answered
  <2>10. ASSUME NEW t \in Session PROVE Chosen(t)' /\ Answered(t)'
    BY <1>1, <2>2, <2>5, <2>6, <2>8, <2>9, KeptStays DEF IInv
  <2> QED
    BY <2>2, <2>5, <2>10 DEF IInv
<1>5. CASE UNCHANGED <<coreVars, got, wrote>> /\ gotWd' = gotWd /\ made' = made
           /\ \E how \in {"partial", "failed"} : End(s, how)
  <2>1. Still
    BY <1>3, <1>5 DEF Still, coreVars, opVars
  <2> QED
    BY <1>2, <1>5, <2>1, EndStep DEF Result, Retryable
<1> QED
  BY <1>4, <1>5 DEF CallFault

-----------------------------------------------------------------------------
(* The theorems.                                                           *)

LEMMA NextIInv == IInv /\ [Next]_vars => IInv'
<1> SUFFICES ASSUME IInv, [Next]_vars PROVE IInv'
  OBVIOUS
<1>1. CASE UNCHANGED vars
  BY <1>1 DEF vars, producerVars, coreVars, opVars, IInv, Typed, Ordered, Chosen, Fits, Answered, Placed
<1>2. CASE \E s \in Session, r \in Request : Ask(s, r)
  BY <1>2, AskStep
<1>3. CASE \E s \in Session : Retry(s)
  BY <1>3, RetryStep
<1>4. CASE \E s \in Session : Advance(s)
  BY <1>4, ReadProducerStep, ReadSeriesStep, ReadWithdrawalStep, ReadHistoryStep, GenerateStep,
     ReadRegistrationStep, CallStep, EndingStep, VerifyStep, RebuildStep DEF Advance
<1>5. CASE \E s \in Session : ReadFault(s) \/ GenerateFault(s) \/ CallFault(s) \/ ReadBackFault(s) \/ Crash(s)
  BY <1>5, EndingStep, GenerateStep, CallStep
<1>6. CASE TeacherGenerates \/ UpdateRegistration \/ RebuildByHand
  BY <1>6, SurroundingStep
<1> QED
  BY <1>1, <1>2, <1>3, <1>4, <1>5, <1>6 DEF Next

LEMMA Invariance == Spec => []IInv
BY InitIInv, NextIInv, PTL DEF Spec

\* Whatever sessions and teachers do in between, and wherever operations fail
\* or die, Core's series is one chain along which manifest revisions grow.
THEOREM OneChain == Spec => []SeriesIsChain
<1>1. IInv => SeriesIsChain
  <2> SUFFICES ASSUME IInv, NEW i \in 1 .. Len(pubs)
               PROVE  /\ pubs[i].sup = i - 1
                      /\ pubs[i].rev <= producer
                      /\ i > 1 => pubs[i - 1].rev < pubs[i].rev
    BY DEF SeriesIsChain, CoreHead
  <2>1. Ordered /\ Len(pubs) \in Nat
    BY DEF IInv, Typed
  <2>2. i > 1 => i - 1 \in 1 .. Len(pubs) /\ i - 1 < i
    BY <2>1
  <2> QED
    BY <2>1, <2>2 DEF Ordered
<1> QED
  BY <1>1, Invariance, PTL

\* No operation answers "ok" without Core having what was asked for, and none
\* that changed Core answers with a plain refusal or failure.
THEOREM TruthfulAnswers == Spec => []AnswersAreTrue
<1>1. IInv => AnswersAreTrue
  <2> SUFFICES ASSUME IInv, NEW s \in Session, pc[s] = "idle"
               PROVE  /\ result[s] = "ok" /\ req[s].op = "withdraw" => req[s].exp \in withdrawn
                      /\ result[s] = "ok" /\ req[s].op # "withdraw" =>
                           got[s] # 0 /\ pubs[got[s]].sup = req[s].exp /\ pubs[got[s]].rev = target[s]
                      /\ result[s] \in {"refused", "failed"} => ~wrote[s]
    BY DEF AnswersAreTrue
  <2>1. Answered(s)
    BY DEF IInv
  <2> QED
    BY <2>1 DEF Answered, Placed
<1> QED
  BY <1>1, Invariance, PTL

-----------------------------------------------------------------------------
(* What is published fits the bounds, the catalog shows it, and a          *)
(* republication allocates once: a second invariant over the first.        *)

\* Whoever asked named a revision there is, and on the way to Core a revision
\* and a registration have been chosen.
Picked(s) ==
  /\ pc[s] # "idle" \/ result[s] # "none" =>
       (req[s].op \in {"publish", "supersede"} => req[s].rev >= 1)
  /\ pc[s] \in {"registration", "core"} /\ req[s].op # "withdraw" => target[s] >= 1
  /\ pc[s] = "core" /\ req[s].op # "withdraw" => bind[s] >= 1

\* What republications generated stands above the predecessors they were for.
ForcedAbove ==
  \A a \in forced :
    /\ a[2] \in 1 .. Len(pubs)
    /\ a[1] <= producer
    /\ pubs[a[2]].rev < a[1]

\* A caller alone who is about to generate has not generated for this request.
Once ==
  Alone =>
    /\ RetryAllocatesOnce
    /\ \A s \in Session : pc[s] = "generate" => \A a \in forced : a[2] # req[s].exp

JInv ==
  /\ TypeOK
  /\ DOMAIN seen = Session /\ DOMAIN got = Session
  /\ \A s \in Session : Picked(s)
  /\ CatalogShowsCore
  /\ ForcedAbove
  /\ Once
  /\ IsFiniteSet(Asked)

Generates(s) == Generate(s) \/ GenerateFault(s)
Calls(s) == Call(s) \/ CallFault(s)

\* Steps that change neither Core nor the manifests.
Reads(s) ==
  \/ \E r \in Request : Ask(s, r)
  \/ Retry(s)
  \/ ReadProducer(s) \/ ReadSeries(s) \/ ReadWithdrawal(s) \/ ReadHistory(s)
  \/ ReadRegistration(s) \/ CallRefused(s) \/ Verify(s) \/ Rebuild(s) \/ Check(s)
  \/ ReadFault(s) \/ ReadBackFault(s) \/ Crash(s)

Surrounding == TeacherGenerates \/ UpdateRegistration \/ RebuildByHand

LEMMA StepSplit ==
  ASSUME [Next]_vars
  PROVE  \/ \E s \in Session : Reads(s) \/ Generates(s) \/ Calls(s)
         \/ Surrounding
         \/ UNCHANGED vars
BY DEF Next, Advance, Reads, Generates, Calls, Surrounding

LEMMA ReadsLeave ==
  ASSUME NEW s \in Session, Reads(s)
  PROVE  UNCHANGED <<producer, blocked, forced, pubs, withdrawn, reg>>
BY DEF Reads, Ask, Retry, Start, ReadProducer, ReadSeries, ReadWithdrawal, ReadHistory,
   ReadRegistration, CallRefused, Verify, Rebuild, Check, ReadFault, ReadBackFault, Crash,
   producerVars, coreVars

\* Another session keeps what it remembers.
LEMMA OthersKeep ==
  ASSUME IInv, NEW s \in Session, Reads(s) \/ Generates(s) \/ Calls(s),
         NEW t \in Session, t # s
  PROVE  /\ pc'[t] = pc[t] /\ result'[t] = result[t] /\ req'[t] = req[t]
         /\ target'[t] = target[t] /\ bind'[t] = bind[t] /\ wrote'[t] = wrote[t]
<1> USE DEF IInv, Typed
<1>1. pc'[t] = pc[t] /\ result'[t] = result[t] /\ req'[t] = req[t]
  BY DEF Reads, Generates, Calls, Ask, Retry, Start, ReadProducer, ReadSeries, ReadWithdrawal,
     ReadHistory, Generate, ReadRegistration, Call, CallRefused, Verify, Rebuild, Check, ReadFault,
     GenerateFault, CallFault, ReadBackFault, Crash, End, Continue, Goto, opVars
<1>2. target'[t] = target[t] /\ bind'[t] = bind[t]
  BY DEF Reads, Generates, Calls, Ask, Retry, Start, ReadProducer, ReadSeries, ReadWithdrawal,
     ReadHistory, Generate, ReadRegistration, Call, CallRefused, Verify, Rebuild, Check, ReadFault,
     GenerateFault, CallFault, ReadBackFault, Crash, opVars
<1>3. wrote'[t] = wrote[t]
  BY DEF Reads, Generates, Calls, Ask, Retry, Start, ReadProducer, ReadSeries, ReadWithdrawal,
     ReadHistory, Generate, ReadRegistration, Call, CallRefused, Verify, Rebuild, Check, ReadFault,
     GenerateFault, CallFault, ReadBackFault, Crash, opVars, DoCore, CoreWrite, CoreWithdraw
<1> QED
  BY <1>1, <1>2, <1>3

\* Core and the manifests only grow.
LEMMA StepGrows ==
  ASSUME IInv, [Next]_vars
  PROVE  Grows
<1>1. producer \in Nat /\ Len(pubs) \in Nat
  BY DEF IInv, Typed
<1>2. ASSUME NEW s \in Session, Reads(s) PROVE Grows
  BY <1>1, <1>2, ReadsLeave DEF Grows
<1>3. ASSUME NEW s \in Session, Generates(s) PROVE Grows
  <2>1. pubs' = pubs /\ withdrawn' = withdrawn /\ producer' \in {producer, producer + 1}
    BY <1>3 DEF Generates, Generate, GenerateFault, producerVars, coreVars
  <2> QED
    BY <1>1, <2>1 DEF Grows
<1>4. ASSUME NEW s \in Session, Calls(s) PROVE Grows
  <2>1. UNCHANGED <<producer, req, target>> /\ pc[s] = "core"
    BY <1>4 DEF Calls, Call, CallFault, producerVars
  <2>2. DoCore(s) \/ UNCHANGED coreVars
    BY <1>4 DEF Calls, Call, CallFault
  <2>3. CASE DoCore(s)
    BY <2>1, <2>3, CoreStep
  <2>4. CASE UNCHANGED coreVars
    BY <1>1, <2>1, <2>4 DEF Grows, coreVars
  <2> QED
    BY <2>2, <2>3, <2>4
<1>5. CASE Surrounding
  <2>1. pubs' = pubs /\ withdrawn' = withdrawn /\ producer' \in {producer, producer + 1}
    BY <1>5 DEF Surrounding, TeacherGenerates, UpdateRegistration, RebuildByHand, producerVars, coreVars
  <2> QED
    BY <1>1, <2>1 DEF Grows
<1>6. CASE UNCHANGED vars
  BY <1>1, <1>6 DEF Grows, vars, producerVars, coreVars
<1> QED
  BY <1>2, <1>3, <1>4, <1>5, <1>6, StepSplit

-----------------------------------------------------------------------------
(* The catalog. *)

LEMMA CatalogStep ==
  ASSUME IInv, TypeOK, CatalogShowsCore, [Next]_vars
  PROVE  CatalogShowsCore'
<1> DEFINE Now == [n |-> Len(pubs), wd |-> withdrawn]
           Waits(t) == wrote[t] /\ pc[t] \in {"verify", "rebuild"}
<1>1. debt \/ (\E t \in Session : Waits(t)) \/ catalog = Now
  BY DEF CatalogShowsCore, CoreHead
<1>2. /\ DOMAIN pc = Session /\ DOMAIN wrote = Session
      /\ \A t \in Session : wrote[t] \in BOOLEAN
  BY DEF IInv, Typed
<1>3. ASSUME NEW s \in Session, Reads(s) \/ Generates(s) PROVE CatalogShowsCore'
  <2>1. Now' = Now
    <3>1. Reads(s) => UNCHANGED <<pubs, withdrawn>>
      BY ReadsLeave
    <3>2. Generates(s) => UNCHANGED <<pubs, withdrawn>>
      BY DEF Generates, Generate, GenerateFault, coreVars
    <3> QED
      BY <1>3, <3>1, <3>2
  <2>2. ASSUME NEW t \in Session, t # s, Waits(t) PROVE CatalogShowsCore'
    BY <1>3, <2>2, OthersKeep DEF CatalogShowsCore
  <2>3. \/ /\ debt' = debt /\ catalog' = catalog
           /\ pc'[s] \in {"verify", "rebuild"} \/ pc[s] \notin {"verify", "rebuild"}
           /\ wrote'[s] = wrote[s] \/ pc[s] = "idle"
        \/ debt' = (debt \/ (wrote[s] /\ catalog # Now)) /\ catalog' = catalog
        \/ debt' = (debt \/ FALSE) /\ catalog' = catalog /\ pc[s] \notin {"verify", "rebuild"}
        \/ catalog' = Now
        \/ Check(s)
    BY <1>2, <1>3 DEF Reads, Generates, Ask, Retry, Start, ReadProducer, ReadSeries, ReadWithdrawal,
       ReadHistory, Generate, ReadRegistration, CallRefused, Verify, Rebuild, Check, ReadFault,
       GenerateFault, ReadBackFault, Crash, End, Continue, Goto, opVars, CoreHead
  <2>4. CASE debt
    <3>1. debt' \/ catalog' = Now
      BY <2>3, <2>4 DEF Check, End
    <3> QED
      BY <2>1, <3>1 DEF CatalogShowsCore, CoreHead
  <2>5. CASE ~debt /\ catalog = Now
    <3>1. catalog' = Now
      BY <2>3, <2>5 DEF Check
    <3> QED
      BY <2>1, <3>1 DEF CatalogShowsCore, CoreHead
  <2>6. CASE Waits(s) /\ ~debt /\ catalog # Now
    <3>1. debt' \/ catalog' = Now \/ (wrote'[s] /\ pc'[s] \in {"verify", "rebuild"})
      BY <2>3, <2>6 DEF Check
    <3> QED
      BY <2>1, <3>1 DEF CatalogShowsCore, CoreHead
  <2> QED
    BY <1>1, <2>2, <2>4, <2>5, <2>6
<1>4. ASSUME NEW s \in Session, Calls(s) PROVE CatalogShowsCore'
  <2>1. catalog' = catalog /\ pc[s] = "core" /\ ~wrote[s]
    <3>1. catalog' = catalog /\ pc[s] = "core"
      BY <1>4 DEF Calls, Call, CallFault
    <3> QED
      BY <3>1 DEF IInv, Answered
  <2>2. ASSUME NEW t \in Session, Waits(t) PROVE CatalogShowsCore'
    BY <1>4, <2>1, <2>2, OthersKeep DEF CatalogShowsCore
  <2>3. debt => debt'
    BY <1>4 DEF Calls, Call, CallFault, Continue, End
  <2>4. CASE DoCore(s) /\ wrote'[s]
    <3>1. debt' \/ pc'[s] = "verify"
      BY <1>2, <1>4, <2>1, <2>4 DEF Calls, Call, CallFault, Continue, Goto
    <3> QED
      BY <2>4, <3>1 DEF CatalogShowsCore
  <2>5. CASE ~ (DoCore(s) /\ wrote'[s])
    <3>1. Now' = Now
      BY <1>2, <1>4, <2>1, <2>5 DEF Calls, Call, CallFault, DoCore, CoreWrite, CoreWithdraw, coreVars
    <3> QED
      BY <1>1, <2>1, <2>2, <2>3, <3>1 DEF CatalogShowsCore, CoreHead
  <2> QED
    BY <2>4, <2>5
<1>5. CASE Surrounding
  BY <1>1, <1>5 DEF Surrounding, TeacherGenerates, UpdateRegistration, RebuildByHand,
     CatalogShowsCore, CoreHead, coreVars, opVars
<1>6. CASE UNCHANGED vars
  BY <1>1, <1>6 DEF vars, CatalogShowsCore, CoreHead
<1> QED
  BY <1>3, <1>4, <1>5, <1>6, StepSplit

-----------------------------------------------------------------------------
(* The types.                                                              *)

\* The counters, flags and histories keep their types.
LEMMA FlagsStep ==
  ASSUME IInv, TypeOK, [Next]_vars
  PROVE  /\ producer' \in 0 .. MaxRevision /\ blocked' \in BOOLEAN /\ faults' \in 0 .. MaxFaults
         /\ reg' \in [revision : 1 .. MaxReg, cancelled : BOOLEAN]
         /\ debt' \in BOOLEAN
         /\ gotWd' \in [Session -> BOOLEAN] /\ made' \in [Session -> BOOLEAN]
         /\ disturbed' \in [Session -> BOOLEAN]
<1>1. /\ producer \in 0 .. MaxRevision /\ blocked \in BOOLEAN /\ faults \in 0 .. MaxFaults
      /\ reg \in [revision : 1 .. MaxReg, cancelled : BOOLEAN]
      /\ debt \in BOOLEAN
      /\ gotWd \in [Session -> BOOLEAN] /\ made \in [Session -> BOOLEAN]
      /\ disturbed \in [Session -> BOOLEAN] /\ wrote \in [Session -> BOOLEAN]
  BY DEF TypeOK
<1>2. MaxRevision \in Nat /\ MaxFaults \in Nat /\ MaxReg \in Nat /\ LockMayStay \in BOOLEAN
  BY PublicationAssumption
<1>3. producer' \in 0 .. MaxRevision /\ blocked' \in BOOLEAN
  <2>1. /\ producer' = producer \/ (producer < MaxRevision /\ producer' = producer + 1)
        /\ blocked' = blocked \/ blocked' \in {FALSE, LockMayStay}
    <3>1. ASSUME NEW s \in Session, Reads(s) PROVE UNCHANGED <<producer, blocked>>
      BY <3>1, ReadsLeave
    <3>2. ASSUME NEW s \in Session, Generates(s)
          PROVE  /\ producer' = producer \/ (producer < MaxRevision /\ producer' = producer + 1)
                 /\ blocked' = blocked \/ blocked' \in {FALSE, LockMayStay}
      BY <3>2 DEF Generates, Generate, GenerateFault, producerVars
    <3>3. ASSUME NEW s \in Session, Calls(s) PROVE UNCHANGED <<producer, blocked>>
      BY <3>3 DEF Calls, Call, CallFault, producerVars
    <3>4. Surrounding => /\ producer' = producer \/ (producer < MaxRevision /\ producer' = producer + 1)
                         /\ blocked' = blocked
      BY DEF Surrounding, TeacherGenerates, UpdateRegistration, RebuildByHand, producerVars
    <3>5. UNCHANGED vars => UNCHANGED <<producer, blocked>>
      BY DEF vars
    <3> QED
      BY <3>1, <3>2, <3>3, <3>4, <3>5, StepSplit
  <2>2. producer' \in 0 .. MaxRevision
    BY <1>1, <1>2, <2>1
  <2>3. blocked' \in BOOLEAN
    BY <1>1, <1>2, <2>1, Zenon
  <2> QED
    BY <2>2, <2>3
<1>4. faults' \in 0 .. MaxFaults
  <2>1. faults' = faults \/ (faults < MaxFaults /\ faults' = faults + 1)
    <3>1. ASSUME NEW s \in Session, Reads(s)
          PROVE  faults' = faults \/ (faults < MaxFaults /\ faults' = faults + 1)
      BY <3>1 DEF Reads, Ask, Retry, Start, ReadProducer, ReadSeries, ReadWithdrawal, ReadHistory,
         ReadRegistration, CallRefused, Verify, Rebuild, Check, ReadFault, ReadBackFault, Crash, Fault
    <3>2. ASSUME NEW s \in Session, Generates(s) \/ Calls(s)
          PROVE  faults' = faults \/ (faults < MaxFaults /\ faults' = faults + 1)
      BY <3>2 DEF Generates, Generate, GenerateFault, Calls, Call, CallFault, Fault
    <3>3. Surrounding \/ UNCHANGED vars => faults' = faults
      BY DEF Surrounding, TeacherGenerates, UpdateRegistration, RebuildByHand, vars
    <3> QED
      BY <3>1, <3>2, <3>3, StepSplit
  <2> QED
    BY <1>1, <1>2, <2>1
<1>5. reg' \in [revision : 1 .. MaxReg, cancelled : BOOLEAN]
  <2>1. ASSUME NEW s \in Session, Reads(s) \/ Generates(s) \/ Calls(s) PROVE reg' = reg
    BY <2>1, ReadsLeave DEF Generates, Generate, GenerateFault, Calls, Call, CallFault
  <2>2. UNCHANGED vars \/ TeacherGenerates \/ RebuildByHand => reg' = reg
    BY DEF vars, TeacherGenerates, RebuildByHand
  <2>3. ASSUME UpdateRegistration PROVE reg' \in [revision : 1 .. MaxReg, cancelled : BOOLEAN]
    <3>1. PICK cancelled \in BOOLEAN : reg' = [revision |-> reg.revision + 1, cancelled |-> cancelled]
      BY <2>3 DEF UpdateRegistration
    <3>2. reg.revision \in 1 .. MaxReg /\ reg.revision < MaxReg
      BY <1>1, <2>3 DEF UpdateRegistration
    <3>3. reg.revision + 1 \in 1 .. MaxReg
      BY <1>2, <3>2
    <3> QED
      BY <3>1, <3>3
  <2> QED
    BY <1>1, <2>1, <2>2, <2>3, StepSplit DEF Surrounding
<1>6. debt' \in BOOLEAN
  <2>1. ASSUME NEW s \in Session, Reads(s) \/ Generates(s) \/ Calls(s) PROVE debt' \in BOOLEAN
    <3>1. \/ debt' = debt \/ debt' = FALSE
          \/ \E how \in Result : End(s, how)
          \/ debt' = (debt \/ wrote'[s])
      <4>1. ASSUME Reads(s)
            PROVE  debt' = debt \/ debt' = FALSE \/ \E how \in Result : End(s, how)
        BY <4>1 DEF Reads, Ask, Retry, Start, ReadProducer, ReadSeries, ReadWithdrawal, ReadHistory,
           ReadRegistration, CallRefused, Verify, Rebuild, Check, ReadFault, ReadBackFault, Crash,
           Continue, Result, Retryable
      <4>2. ASSUME Generates(s) PROVE debt' = debt \/ \E how \in Result : End(s, how)
        BY <4>2 DEF Generates, Generate, GenerateFault, Continue, Result, Retryable
      <4>3. ASSUME Calls(s)
            PROVE  \/ debt' = debt \/ \E how \in Result : End(s, how)
                   \/ debt' = (debt \/ wrote'[s])
        BY <4>3 DEF Calls, Call, CallFault, Continue, Result, Retryable
      <4> QED
        BY <2>1, <4>1, <4>2, <4>3
    <3>2. (\E how \in Result : End(s, how)) => debt' \in BOOLEAN
      BY <1>1 DEF End
    <3> QED
      BY <1>1, <3>1, <3>2
  <2>2. Surrounding \/ UNCHANGED vars => debt' \in BOOLEAN
    BY <1>1 DEF Surrounding, TeacherGenerates, UpdateRegistration, RebuildByHand, vars
  <2> QED
    BY <2>1, <2>2, StepSplit
<1>7. gotWd' \in [Session -> BOOLEAN] /\ made' \in [Session -> BOOLEAN]
  <2>1. ASSUME NEW s \in Session, Reads(s) \/ Generates(s) \/ Calls(s)
        PROVE  gotWd' \in [Session -> BOOLEAN]
    <3>1. \/ gotWd' = gotWd \/ gotWd' = [gotWd EXCEPT ![s] = FALSE]
          \/ gotWd' = [gotWd EXCEPT ![s] = got'[s] \in withdrawn']
      BY <2>1 DEF Reads, Generates, Calls, Ask, Retry, Start, ReadProducer, ReadSeries,
         ReadWithdrawal, ReadHistory, Generate, ReadRegistration, Call, CallRefused, Verify, Rebuild,
         Check, ReadFault, GenerateFault, CallFault, ReadBackFault, Crash, opVars
    <3>2. (got'[s] \in withdrawn') \in BOOLEAN
      OBVIOUS
    <3> QED
      BY <1>1, <3>1, <3>2
  <2>2. ASSUME NEW s \in Session, Reads(s) \/ Generates(s) \/ Calls(s)
        PROVE  made' \in [Session -> BOOLEAN]
    BY <1>1, <2>2 DEF Reads, Generates, Calls, Ask, Retry, Start, ReadProducer, ReadSeries,
       ReadWithdrawal, ReadHistory, Generate, ReadRegistration, Call, CallRefused, Verify, Rebuild,
       Check, ReadFault, GenerateFault, CallFault, ReadBackFault, Crash, opVars
  <2>3. Surrounding \/ UNCHANGED vars => UNCHANGED <<gotWd, made>>
    BY DEF Surrounding, TeacherGenerates, UpdateRegistration, RebuildByHand, vars, opVars
  <2> QED
    BY <1>1, <2>1, <2>2, <2>3, StepSplit
<1>8. disturbed' \in [Session -> BOOLEAN]
  <2>1. ASSUME NEW s \in Session, Reads(s) \/ Generates(s) \/ Calls(s)
        PROVE  disturbed' \in [Session -> BOOLEAN]
    <3>1. ASSUME Reads(s)
          PROVE  disturbed' = disturbed \/ disturbed' = [disturbed EXCEPT ![s] = FALSE]
      BY <3>1 DEF Reads, Ask, Retry, Start, ReadProducer, ReadSeries, ReadWithdrawal, ReadHistory,
         ReadRegistration, CallRefused, Verify, Rebuild, Check, ReadFault, ReadBackFault, Crash
    <3>2. ASSUME Generates(s) \/ Calls(s)
          PROVE  disturbed' = disturbed \/ \E others : Disturb(others)
      BY <3>2 DEF Generates, Generate, GenerateFault, Calls, Call, CallRefused, CallFault
    <3>3. (\E others : Disturb(others)) => disturbed' \in [Session -> BOOLEAN]
      BY <1>1 DEF Disturb
    <3> QED
      BY <1>1, <2>1, <3>1, <3>2, <3>3
  <2>2. Surrounding \/ UNCHANGED vars => disturbed' \in [Session -> BOOLEAN]
    BY <1>1 DEF Surrounding, TeacherGenerates, UpdateRegistration, RebuildByHand, vars, Disturb
  <2> QED
    BY <2>1, <2>2, StepSplit
<1> QED
  BY <1>3, <1>4, <1>5, <1>6, <1>7, <1>8

\* What Core holds fits the bounds, and was published of a manifest revision
\* and bound to a registration.
Records ==
  /\ Len(pubs) <= MaxPubs
  /\ \A i \in 1 .. Len(pubs) : pubs[i].rev >= 1 /\ pubs[i].reg \in 1 .. MaxReg
  /\ withdrawn \subseteq 1 .. Len(pubs)

LEMMA RecordsStep ==
  ASSUME IInv, TypeOK, \A s \in Session : Picked(s), [Next]_vars
  PROVE  Records'
<1>1. Records
  BY DEF TypeOK, Records, Record, CoreHead
<1>2. Typed
  BY DEF IInv
<1>3. ASSUME UNCHANGED <<pubs, withdrawn>> PROVE Records'
  BY <1>1, <1>3 DEF Records
<1>4. ASSUME NEW s \in Session, pc[s] = "core", DoCore(s) PROVE Records'
  <2>1. Picked(s) /\ Chosen(s)
    BY DEF IInv
  <2>2. target[s] \in Nat /\ bind[s] \in 0 .. MaxReg /\ req[s].exp \in Nat /\ Len(pubs) \in Nat
    BY <1>2 DEF Typed, TypeOK
  <2>3. CASE req[s].op = "withdraw"
    <3>1. pubs' = pubs /\ withdrawn' = withdrawn \cup {req[s].exp}
      BY <1>4, <2>3 DEF DoCore, CoreWithdraw
    <3>2. req[s].exp \in 1 .. Len(pubs)
      BY <2>1, <2>2, <2>3 DEF Chosen
    <3> QED
      BY <1>1, <3>1, <3>2 DEF Records
  <2>4. CASE req[s].op # "withdraw"
    <3> DEFINE added == [rev |-> target[s], sup |-> req[s].exp, reg |-> bind[s]]
    <3>1. withdrawn' = withdrawn
          /\ (pubs' = pubs \/ (Len(pubs) < MaxPubs /\ pubs' = Append(pubs, added)))
      BY <1>4, <2>4 DEF DoCore, CoreWrite, coreVars, CoreHead
    <3>2. added.rev >= 1 /\ added.reg \in 1 .. MaxReg /\ added \in CoreRecord
      BY <1>4, <2>1, <2>2, <2>4, PublicationAssumption DEF Picked, CoreRecord
    <3>3. CASE Len(pubs) < MaxPubs /\ pubs' = Append(pubs, added)
      <4> HIDE DEF added
      <4>1. /\ Len(pubs') = Len(pubs) + 1 /\ pubs'[Len(pubs) + 1] = added
            /\ \A i \in 1 .. Len(pubs) : pubs'[i] = pubs[i]
        BY <1>2, <3>2, <3>3 DEF Typed
      <4>2. Len(pubs') <= MaxPubs
        BY <2>2, <3>3, <4>1, PublicationAssumption
      <4>3. ASSUME NEW i \in 1 .. Len(pubs') PROVE pubs'[i].rev >= 1 /\ pubs'[i].reg \in 1 .. MaxReg
        <5>1. i \in 1 .. Len(pubs) \/ i = Len(pubs) + 1
          BY <2>2, <4>1
        <5> QED
          BY <1>1, <3>2, <4>1, <5>1 DEF Records
      <4>4. withdrawn' \subseteq 1 .. Len(pubs')
        BY <1>1, <2>2, <3>1, <4>1 DEF Records
      <4> QED
        BY <4>2, <4>3, <4>4 DEF Records
    <3> QED
      BY <1>3, <3>1, <3>3
  <2> QED
    BY <2>3, <2>4
<1>5. ASSUME NEW s \in Session, Reads(s) \/ Generates(s) PROVE Records'
  BY <1>3, <1>5, ReadsLeave DEF Generates, Generate, GenerateFault, coreVars
<1>6. ASSUME NEW s \in Session, Calls(s) PROVE Records'
  BY <1>3, <1>4, <1>6 DEF Calls, Call, CallFault, coreVars
<1>7. Surrounding \/ UNCHANGED vars => UNCHANGED <<pubs, withdrawn>>
  BY DEF Surrounding, TeacherGenerates, UpdateRegistration, RebuildByHand, vars, coreVars
<1> QED
  BY <1>3, <1>5, <1>6, <1>7, StepSplit

\* What a session remembers of Core exists there.
LEMMA MemoryStep ==
  ASSUME IInv, TypeOK, DOMAIN seen = Session, DOMAIN got = Session, [Next]_vars
  PROVE  \A s \in Session : /\ seen'[s] \in 0 .. Len(pubs') /\ got'[s] \in 0 .. Len(pubs')
                            /\ bind'[s] \in 0 .. MaxReg
<1>1. \A s \in Session : seen[s] \in 0 .. Len(pubs) /\ got[s] \in 0 .. Len(pubs)
                         /\ bind[s] \in 0 .. MaxReg
  BY DEF TypeOK, CoreHead
<1>0. Typed /\ Typed' /\ Grows
  BY StepGrows, NextIInv DEF IInv
<1>2. Len(pubs) \in Nat /\ Len(pubs') \in Nat /\ Len(pubs) <= Len(pubs')
  BY <1>0 DEF Grows, Typed
<1>3. /\ seen \in [Session -> Nat] /\ got \in [Session -> Nat] /\ bind \in [Session -> Nat]
      /\ \A t \in Session : Chosen(t)
  BY DEF IInv, Typed
<1>4. ASSUME NEW s \in Session, Reads(s) \/ Generates(s) \/ Calls(s), NEW t \in Session
      PROVE  seen'[t] \in 0 .. Len(pubs')
  <2>1. \/ seen' = seen \/ seen' = [seen EXCEPT ![s] = 0]
        \/ seen' = [seen EXCEPT ![s] = Len(pubs)]
    BY <1>4 DEF Reads, Generates, Calls, Ask, Retry, Start, ReadProducer, ReadSeries,
       ReadWithdrawal, ReadHistory, Generate, ReadRegistration, Call, CallRefused, Verify, Rebuild,
       Check, ReadFault, GenerateFault, CallFault, ReadBackFault, Crash, opVars, CoreHead
  <2>2. seen[t] \in 0 .. Len(pubs') /\ 0 \in 0 .. Len(pubs') /\ Len(pubs) \in 0 .. Len(pubs')
    BY <1>1, <1>2, <1>3
  <2>3. ASSUME NEW n \in 0 .. Len(pubs'), seen' = [seen EXCEPT ![s] = n]
        PROVE  seen'[t] \in 0 .. Len(pubs')
    BY <1>3, <2>2, <2>3
  <2> QED
    BY <2>1, <2>2, <2>3
<1>5. ASSUME NEW s \in Session, Reads(s) \/ Generates(s) \/ Calls(s), NEW t \in Session
      PROVE  got'[t] \in 0 .. Len(pubs')
  <2>1. CASE got' = got \/ got' = [got EXCEPT ![s] = 0]
    <3>1. got'[t] \in {0, got[t]}
      BY <1>3, <2>1
    <3> QED
      BY <1>1, <1>2, <3>1
  <2>2. CASE pc[s] = "core" /\ DoCore(s) /\ UNCHANGED <<producer, req, target>>
    <3>1. Placed(s)' /\ got' \in [Session -> Nat] /\ \A u \in Session \ {s} : got'[u] = got[u]
      BY <2>2, CoreStep
    <3>2. got'[s] \in 0 .. Len(pubs')
      <4>1. CASE req[s].op = "withdraw"
        <5>1. got'[s] = req[s].exp
          BY <1>3, <2>2, <4>1 DEF DoCore, CoreWithdraw
        <5> QED
          BY <1>2, <1>3, <3>1, <5>1 DEF Chosen
      <4>2. CASE req[s].op # "withdraw"
        BY <1>2, <2>2, <3>1, <4>2 DEF Placed
      <4> QED
        BY <4>1, <4>2
    <3> QED
      BY <1>1, <1>2, <3>1, <3>2
  <2>3. \/ got' = got \/ got' = [got EXCEPT ![s] = 0]
        \/ pc[s] = "core" /\ DoCore(s) /\ UNCHANGED <<producer, req, target>>
    BY <1>5 DEF Reads, Generates, Calls, Ask, Retry, Start, ReadProducer, ReadSeries,
       ReadWithdrawal, ReadHistory, Generate, ReadRegistration, Call, CallRefused, Verify, Rebuild,
       Check, ReadFault, GenerateFault, CallFault, ReadBackFault, Crash, opVars, producerVars
  <2> QED
    BY <2>1, <2>2, <2>3
<1>6. ASSUME NEW s \in Session, Reads(s) \/ Generates(s) \/ Calls(s), NEW t \in Session
      PROVE  bind'[t] \in 0 .. MaxReg
  <2>1. \/ bind' = bind \/ bind' = [bind EXCEPT ![s] = 0]
        \/ bind' = [bind EXCEPT ![s] = reg.revision]
        \/ \E i \in 1 .. Len(pubs) : bind' = [bind EXCEPT ![s] = pubs[i].reg]
    <3>1. ASSUME ReadSeries(s)
          PROVE  bind' = bind \/ \E i \in 1 .. Len(pubs) : bind' = [bind EXCEPT ![s] = pubs[i].reg]
      BY <3>1 DEF ReadSeries, Logical, CoreHead
    <3>2. ASSUME ReadHistory(s)
          PROVE  bind' = bind \/ \E i \in 1 .. Len(pubs) : bind' = [bind EXCEPT ![s] = pubs[i].reg]
      BY <1>3, <3>2 DEF ReadHistory, Chosen
    <3>3. ~ReadSeries(s) /\ ~ReadHistory(s) =>
             \/ bind' = bind \/ bind' = [bind EXCEPT ![s] = 0]
             \/ bind' = [bind EXCEPT ![s] = reg.revision]
      BY <1>6 DEF Reads, Generates, Calls, Ask, Retry, Start, ReadProducer,
         ReadWithdrawal, Generate, ReadRegistration, Call, CallRefused, Verify, Rebuild,
         Check, ReadFault, GenerateFault, CallFault, ReadBackFault, Crash, opVars
    <3> QED
      BY <3>1, <3>2, <3>3
  <2>2. \A i \in 1 .. Len(pubs) : pubs[i].reg \in 0 .. MaxReg
    BY DEF TypeOK, Record, CoreHead
  <2>3. reg.revision \in 0 .. MaxReg /\ 0 \in 0 .. MaxReg
    BY PublicationAssumption DEF TypeOK
  <2>4. CASE bind' = bind
    BY <1>1, <2>4
  <2>5. ASSUME NEW n \in 0 .. MaxReg, bind' = [bind EXCEPT ![s] = n] PROVE bind'[t] \in 0 .. MaxReg
    BY <1>1, <1>3, <2>5
  <2> QED
    BY <2>1, <2>2, <2>3, <2>4, <2>5
<1>7. Surrounding \/ UNCHANGED vars => UNCHANGED <<seen, got, bind>>
  BY DEF Surrounding, TeacherGenerates, UpdateRegistration, RebuildByHand, vars, opVars
<1> QED
  BY <1>1, <1>2, <1>4, <1>5, <1>6, <1>7, StepSplit

\* A catalog is the state of Core at its rebuild.
LEMMA CatalogFits ==
  ASSUME IInv, TypeOK, \A s \in Session : Picked(s), [Next]_vars
  PROVE  catalog'.n \in 0 .. Len(pubs') /\ catalog'.wd \subseteq withdrawn'
<1>1. catalog.n \in 0 .. Len(pubs) /\ catalog.wd \subseteq withdrawn
  BY DEF TypeOK, CoreHead
<1>0. Typed /\ Typed' /\ Grows
  BY StepGrows, NextIInv DEF IInv
<1>2. Len(pubs) \in Nat /\ Len(pubs') \in Nat /\ Len(pubs) <= Len(pubs') /\ withdrawn \subseteq withdrawn'
  BY <1>0 DEF Grows, Typed
<1>3. catalog' = catalog \/ (catalog' = [n |-> Len(pubs), wd |-> withdrawn])
  <2>1. ASSUME NEW s \in Session, Reads(s) \/ Generates(s) \/ Calls(s)
        PROVE  catalog' = catalog \/ (catalog' = [n |-> Len(pubs), wd |-> withdrawn])
    BY <2>1 DEF Reads, Generates, Calls, Ask, Retry, Start, ReadProducer, ReadSeries,
       ReadWithdrawal, ReadHistory, Generate, ReadRegistration, Call, CallRefused, Verify, Rebuild,
       Check, ReadFault, GenerateFault, CallFault, ReadBackFault, Crash, CoreHead
  <2>2. Surrounding \/ UNCHANGED vars
          => catalog' = catalog \/ (catalog' = [n |-> Len(pubs), wd |-> withdrawn])
    BY DEF Surrounding, TeacherGenerates, UpdateRegistration, RebuildByHand, vars, CoreHead
  <2> QED
    BY <2>1, <2>2, StepSplit
<1>4. CASE catalog' = catalog
  BY <1>1, <1>2, <1>4
<1>5. CASE catalog' = [n |-> Len(pubs), wd |-> withdrawn]
  <2>1. catalog'.n = Len(pubs) /\ catalog'.wd = withdrawn
    BY <1>5
  <2> QED
    BY <1>2, <2>1
<1> QED
  BY <1>3, <1>4, <1>5

-----------------------------------------------------------------------------
(* What is picked, and what is generated.                                  *)

LEMMA PickedStep ==
  ASSUME IInv, TypeOK, \A t \in Session : Picked(t), [Next]_vars, NEW t \in Session
  PROVE  Picked(t)'
<1>1. /\ Typed /\ Chosen(t) /\ Picked(t)
      /\ \A i \in 1 .. Len(pubs) : pubs[i].rev >= 1 /\ pubs[i].reg >= 1
  BY DEF IInv, TypeOK, Record, CoreHead
<1>2. ASSUME NEW s \in Session, Reads(s) \/ Generates(s) \/ Calls(s), s # t PROVE Picked(t)'
  BY <1>1, <1>2, OthersKeep DEF Picked
<1>3. CASE Surrounding \/ UNCHANGED vars
  <2>1. UNCHANGED <<pc, result, req, target, bind>>
    BY <1>3 DEF Surrounding, TeacherGenerates, UpdateRegistration, RebuildByHand, vars, opVars
  <2> QED
    BY <1>1, <2>1 DEF Picked
<1>4. CASE Reads(t) \/ Generates(t) \/ Calls(t)
  <2>1. CASE \E r \in Request : Ask(t, r)
    BY <1>1, <2>1 DEF Ask, Start, Goto, FirstStep, Picked, Typed
  <2>2. CASE Retry(t)
    BY <1>1, <2>2 DEF Retry, Start, Goto, FirstStep, Picked, Typed, Retryable
  <2>3. CASE ReadSeries(t)
    <3>1. req' = req /\ target' = target
      BY <2>3 DEF ReadSeries
    <3>2. \/ pc'[t] \notin {"registration", "core"}
          \/ pc'[t] = "registration" /\ req[t].op = "publish"
          \/ pc'[t] = "core" /\ \E i \in 1 .. Len(pubs) : bind'[t] = pubs[i].reg
             /\ req[t].op # "republish"
      BY <1>1, <2>3 DEF ReadSeries, End, Continue, Goto, Logical, CoreHead, Typed
    <3>3. req[t].op \in Op /\ pc[t] = "series"
      BY <1>1, <2>3 DEF ReadSeries, Typed
    <3> QED
      BY <1>1, <3>1, <3>2, <3>3 DEF Picked, Chosen, Op
  <2>4. CASE ReadHistory(t)
    <3>1. req' = req /\ target'[t] = producer /\ producer \in Nat
      BY <1>1, <2>4 DEF ReadHistory, Typed
    <3>2. req[t].op = "republish" /\ seen[t] \in 1 .. Len(pubs) /\ req[t].exp \in 1 .. Len(pubs)
      BY <1>1, <2>4 DEF ReadHistory, Chosen, Typed
    <3>3. \/ pc'[t] \notin {"registration", "core"}
          \/ pc'[t] = "registration"
          \/ pc'[t] = "core" /\ bind'[t] = pubs[seen[t]].reg
      BY <1>1, <2>4 DEF ReadHistory, End, Continue, Goto, Typed
    <3>4. producer >= 1
      BY <1>1, <3>1, <3>2, RecordFields DEF IInv, Ordered
    <3> QED
      BY <1>1, <3>1, <3>2, <3>3, <3>4 DEF Picked
  <2>5. CASE Generates(t)
    <3>1. req' = req /\ bind' = bind /\ pc[t] = "generate" /\ producer \in Nat
      BY <1>1, <2>5 DEF Generates, Generate, GenerateFault, Typed
    <3>2. pc'[t] = "idle" \/ (pc'[t] = "registration" /\ target'[t] = producer + 1)
      BY <1>1, <2>5 DEF Generates, Generate, GenerateFault, End, Continue, Goto, Typed
    <3> QED
      BY <1>1, <3>1, <3>2 DEF Picked, Chosen
  <2>6. CASE ReadRegistration(t)
    <3>1. req' = req /\ target' = target /\ pc[t] = "registration"
      BY <2>6 DEF ReadRegistration
    <3>2. pc'[t] = "idle" \/ (pc'[t] = "core" /\ bind'[t] = reg.revision)
      BY <1>1, <2>6 DEF ReadRegistration, End, Continue, Goto, Typed
    <3>3. reg.revision >= 1
      BY PublicationAssumption DEF TypeOK
    <3> QED
      BY <1>1, <3>1, <3>2, <3>3 DEF Picked
  <2>7. CASE ReadWithdrawal(t)
    <3>1. req' = req /\ target' = target /\ bind' = bind /\ pc[t] = "withdrawal"
      BY <2>7 DEF ReadWithdrawal, opVars
    <3>2. pc'[t] \in {"idle", "history"} \/ (pc'[t] = "registration" /\ req[t].op # "republish")
      BY <1>1, <2>7 DEF ReadWithdrawal, End, Continue, Goto, Typed
    <3> QED
      BY <1>1, <3>1, <3>2 DEF Picked, Chosen, Typed, Op
  <2>8. CASE \/ ReadProducer(t) \/ CallRefused(t) \/ Verify(t) \/ Rebuild(t) \/ Check(t)
             \/ ReadFault(t) \/ ReadBackFault(t) \/ Crash(t) \/ Calls(t)
    <3>1. req' = req /\ target' = target /\ bind' = bind /\ pc[t] # "idle"
      BY <2>8 DEF ReadProducer, CallRefused, Verify, Rebuild, Check, ReadFault, ReadBackFault,
         Crash, Calls, Call, CallFault, opVars
    <3>2. pc'[t] \in {"idle", "series", "verify", "rebuild", "check"}
      BY <1>1, <2>8 DEF ReadProducer, CallRefused, Verify, Rebuild, Check, ReadFault, ReadBackFault,
         Crash, Calls, Call, CallFault, End, Continue, Goto, Typed
    <3> QED
      BY <1>1, <3>1, <3>2 DEF Picked
  <2> QED
    BY <1>4, <2>1, <2>2, <2>3, <2>4, <2>5, <2>6, <2>7, <2>8 DEF Reads
<1> QED
  BY <1>2, <1>3, <1>4, StepSplit

\* Only a generation adds to the revisions made by republications, and then one
\* above everything.
LEMMA ForcedChange ==
  ASSUME IInv, [Next]_vars
  PROVE  \/ forced' = forced
         \/ \E s \in Session : /\ Generates(s) /\ pc[s] = "generate"
                               /\ producer' = producer + 1
                               /\ forced' = forced \cup {<<producer + 1, req[s].exp>>}
<1>1. ASSUME NEW s \in Session, Generates(s)
      PROVE  \/ forced' = forced
             \/ /\ pc[s] = "generate" /\ producer' = producer + 1
                /\ forced' = forced \cup {<<producer + 1, req[s].exp>>}
  BY <1>1 DEF Generates, Generate, GenerateFault, producerVars
<1>2. ASSUME NEW s \in Session, Reads(s) \/ Calls(s) PROVE forced' = forced
  BY <1>2, ReadsLeave DEF Calls, Call, CallFault, producerVars
<1>3. Surrounding \/ UNCHANGED vars => forced' = forced
  BY DEF Surrounding, TeacherGenerates, UpdateRegistration, RebuildByHand, vars, producerVars
<1> QED
  BY <1>1, <1>2, <1>3, StepSplit

LEMMA ForcedStep ==
  ASSUME IInv, TypeOK, ForcedAbove, [Next]_vars
  PROVE  ForcedAbove' /\ forced' \subseteq (1 .. MaxRevision) \X Pub
<1>0. Grows /\ Typed /\ Typed' /\ producer' \in 0 .. MaxRevision
  BY StepGrows, NextIInv, FlagsStep DEF IInv
<1>1. /\ Grows /\ Typed /\ producer \in Nat /\ producer' \in 0 .. MaxRevision
      /\ MaxRevision \in Nat /\ MaxPubs \in Nat /\ Len(pubs) \in Nat /\ Len(pubs') \in Nat
      /\ Len(pubs) <= MaxPubs /\ forced \subseteq (1 .. MaxRevision) \X Pub
  BY <1>0, PublicationAssumption DEF Typed, TypeOK
<1>2. ASSUME NEW a \in forced
      PROVE  a[2] \in 1 .. Len(pubs') /\ a[1] <= producer' /\ pubs'[a[2]].rev < a[1]
  <2>1. a[1] \in Nat /\ a[2] \in 1 .. Len(pubs) /\ a[1] <= producer /\ pubs[a[2]].rev < a[1]
    BY <1>1 DEF ForcedAbove, Pub
  <2> QED
    BY <1>1, <2>1 DEF Grows
<1>3. ASSUME NEW s \in Session, pc[s] = "generate", producer' = producer + 1
      PROVE  LET a == <<producer + 1, req[s].exp>>
             IN  /\ a[2] \in 1 .. Len(pubs') /\ a[1] <= producer' /\ pubs'[a[2]].rev < a[1]
                 /\ a \in (1 .. MaxRevision) \X Pub
  <2>1. req[s].exp \in 1 .. Len(pubs)
    <3>1. Chosen(s) /\ req[s].exp \in Nat
      BY <1>1 DEF IInv, Typed
    <3> QED
      BY <1>1, <1>3, <3>1 DEF Chosen
  <2>2. pubs[req[s].exp].rev <= producer /\ pubs[req[s].exp].rev \in Nat
    BY <1>1, <2>1, RecordFields DEF IInv, Ordered
  <2> QED
    BY <1>1, <1>3, <2>1, <2>2 DEF Grows, Pub
<1>4. CASE forced' = forced
  BY <1>1, <1>2, <1>4 DEF ForcedAbove
<1>5. ASSUME NEW s \in Session, pc[s] = "generate", producer' = producer + 1,
             forced' = forced \cup {<<producer + 1, req[s].exp>>}
      PROVE  ForcedAbove' /\ forced' \subseteq (1 .. MaxRevision) \X Pub
  BY <1>1, <1>2, <1>3, <1>5 DEF ForcedAbove
<1> QED
  BY <1>4, <1>5, ForcedChange

\* Who has asked stays so, and each step adds at most one of them.
LEMMA AskedStep ==
  ASSUME IInv, [Next]_vars, IsFiniteSet(Asked)
  PROVE  Asked \subseteq Asked' /\ IsFiniteSet(Asked')
<1>1. /\ pc \in [Session -> Step] /\ result \in [Session -> Result]
      /\ pc' \in [Session -> Step] /\ result' \in [Session -> Result]
  <2>1. Typed /\ Typed'
    BY NextIInv DEF IInv
  <2> QED
    BY <2>1 DEF Typed
<1>2. ASSUME NEW s \in Session, Reads(s) \/ Generates(s) \/ Calls(s)
      PROVE  Asked \subseteq Asked' /\ IsFiniteSet(Asked')
  <2>1. pc'[s] # "idle" \/ result'[s] # "none"
    BY <1>1, <1>2 DEF Reads, Generates, Calls, Ask, Retry, Start, FirstStep, ReadProducer, ReadSeries,
       ReadWithdrawal, ReadHistory, Generate, ReadRegistration, Call, CallRefused, Verify, Rebuild,
       Check, ReadFault, GenerateFault, CallFault, ReadBackFault, Crash, End, Continue, Goto
  <2>2. Asked' = Asked \cup {s}
    BY <1>2, <2>1, OthersKeep DEF Asked
  <2> QED
    BY <2>2, FS_AddElement
<1>3. CASE Surrounding \/ UNCHANGED vars
  <2>1. UNCHANGED <<pc, result>>
    BY <1>3 DEF Surrounding, TeacherGenerates, UpdateRegistration, RebuildByHand, vars
  <2> QED
    BY <2>1 DEF Asked
<1> QED
  BY <1>2, <1>3, StepSplit

\* A finite set of at most one element has no two.
LEMMA OnlyOne ==
  ASSUME NEW S, IsFiniteSet(S), Cardinality(S) <= 1, NEW s \in S, NEW t \in S
  PROVE  s = t
<1>1. IsFiniteSet(S \ {s}) /\ Cardinality(S \ {s}) = Cardinality(S) - 1
  BY FS_RemoveElement
<1>2. Cardinality(S) \in Nat /\ Cardinality(S \ {s}) \in Nat
  BY <1>1, FS_CardinalityType
<1>3. Cardinality(S \ {s}) = 0
  BY <1>1, <1>2
<1> QED
  BY <1>1, <1>3, FS_EmptySet

LEMMA OnceStep ==
  ASSUME IInv, TypeOK, ForcedAbove, Once, IsFiniteSet(Asked), [Next]_vars
  PROVE  Once'
<1> SUFFICES ASSUME Alone'
             PROVE  /\ RetryAllocatesOnce'
                    /\ \A s \in Session : pc'[s] = "generate"
                                            => \A a \in forced' : a[2] # req'[s].exp
  BY DEF Once
<1>1. Asked \subseteq Asked' /\ IsFiniteSet(Asked')
  BY AskedStep
<1>2. Alone
  BY <1>1, FS_Subset, FS_CardinalityType DEF Alone
<1>3. /\ RetryAllocatesOnce
      /\ \A s \in Session : pc[s] = "generate" => \A a \in forced : a[2] # req[s].exp
  BY <1>2 DEF Once
<1>4. RetryAllocatesOnce'
  <2>1. CASE forced' = forced
    BY <1>3, <2>1 DEF RetryAllocatesOnce
  <2>2. ASSUME NEW s \in Session, pc[s] = "generate",
               forced' = forced \cup {<<producer + 1, req[s].exp>>}
        PROVE  RetryAllocatesOnce'
    <3>1. \A a \in forced : a[2] # req[s].exp
      BY <1>3, <2>2
    <3> QED
      BY <1>3, <2>2, <3>1 DEF RetryAllocatesOnce
  <2> QED
    BY <2>1, <2>2, ForcedChange
<1>5. ASSUME NEW t \in Session, pc'[t] = "generate", NEW a \in forced' PROVE a[2] # req'[t].exp
  <2>1. Typed /\ pc \in [Session -> Step]
    BY DEF IInv, Typed
  <2>2. ASSUME NEW s \in Session, Generates(s), pc[s] = "generate" PROVE FALSE
    <3>1. s \in Asked
      BY <2>2 DEF Asked
    <3>2. t \in Asked'
      BY <1>5 DEF Asked
    <3>3. s = t
      <4>1. s \in Asked'
        BY <1>1, <3>1
      <4> QED
        BY <1>1, <3>2, <4>1, OnlyOne DEF Alone
    <3>4. pc'[s] # "generate"
      BY <2>1, <2>2 DEF Generates, Generate, GenerateFault, End, Continue, Goto
    <3> QED
      BY <1>5, <3>3, <3>4
  <2>3. forced' = forced
    BY <2>2, ForcedChange
  <2>4. CASE pc[t] = "generate" /\ req'[t] = req[t]
    BY <1>3, <2>3, <2>4
  <2>5. CASE ReadHistory(t)
    <3>0. ~(producer > pubs[req[t].exp].rev) /\ req' = req /\ pc[t] = "history" /\ producer \in Nat
      <4>1. req' = req /\ pc[t] = "history" /\ producer \in Nat
        BY <2>1, <2>5 DEF ReadHistory, Typed
      <4>2. ASSUME producer > pubs[req[t].exp].rev PROVE pc'[t] # "generate"
        <5>1. \/ pc' = [pc EXCEPT ![t] = "idle"] \/ pc' = [pc EXCEPT ![t] = "core"]
              \/ pc' = [pc EXCEPT ![t] = "registration"]
          <6>1. \/ \E how \in Result : End(t, how) \/ Continue(t, "core")
                \/ Continue(t, IF producer > pubs[req[t].exp].rev THEN "registration" ELSE "generate")
            BY <2>5 DEF ReadHistory, Result
          <6> QED
            BY <4>2, <6>1 DEF End, Continue, Goto
        <5> QED
          BY <2>1, <5>1
      <4> QED
        BY <1>5, <4>1, <4>2
    <3>1. req[t].exp \in 1 .. Len(pubs)
      <4>1. Chosen(t) /\ req[t].exp \in Nat /\ Len(pubs) \in Nat
        BY <2>1 DEF IInv, Typed
      <4>2. req[t].exp <= Len(pubs) /\ req[t].exp # 0
        BY <3>0, <4>1 DEF Chosen
      <4> QED
        BY <4>1, <4>2
    <3>4. pubs[req[t].exp].rev \in Nat
      BY <2>1, <3>1, RecordFields
    <3>2. a[2] \in 1 .. Len(pubs) /\ a[1] <= producer /\ pubs[a[2]].rev < a[1] /\ a[1] \in Nat
      BY <2>3 DEF ForcedAbove, TypeOK
    <3>3. pubs[a[2]].rev \in Nat
      BY <2>1, <3>2, RecordFields
    <3> QED
      BY <3>0, <3>2, <3>3, <3>4
  <2>6. (pc[t] = "generate" /\ req'[t] = req[t]) \/ ReadHistory(t)
    <3>1. ASSUME NEW s \in Session, Reads(s) \/ Calls(s), s # t PROVE pc[t] = "generate" /\ req'[t] = req[t]
      BY <1>5, <3>1, OthersKeep
    <3>2. CASE Reads(t) \/ Calls(t)
      BY <1>5, <2>1, <3>2 DEF Reads, Calls, Ask, Retry, Start, FirstStep, ReadProducer, ReadSeries,
         ReadWithdrawal, ReadRegistration, Call, CallRefused, Verify, Rebuild,
         Check, ReadFault, CallFault, ReadBackFault, Crash, End, Continue, Goto
    <3>3. CASE Surrounding \/ UNCHANGED vars
      <4>1. UNCHANGED <<pc, req>>
        BY <3>3 DEF Surrounding, TeacherGenerates, UpdateRegistration, RebuildByHand, vars
      <4> QED
        BY <1>5, <4>1
    <3>4. ASSUME NEW s \in Session, Generates(s) PROVE FALSE
      BY <2>2, <3>4 DEF Generates, Generate, GenerateFault
    <3> QED
      BY <3>1, <3>2, <3>3, <3>4, StepSplit
  <2> QED
    BY <2>4, <2>5, <2>6
<1> QED
  BY <1>4, <1>5

-----------------------------------------------------------------------------
(* The second invariant and its theorems.                                  *)

LEMMA InitJInv == Init => JInv
<1> SUFFICES ASSUME Init PROVE JInv
  OBVIOUS
<1>1. TypeOK
  <2>1. MaxRevision \in Nat /\ MaxPubs \in Nat /\ MaxReg \in Nat \ {0} /\ MaxFaults \in Nat
    BY PublicationAssumption
  <2>2. /\ producer \in 0 .. MaxRevision /\ blocked \in BOOLEAN
        /\ forced \subseteq (1 .. MaxRevision) \X Pub
        /\ Len(pubs) <= MaxPubs /\ \A i \in 1 .. CoreHead : pubs[i] \in Record
        /\ withdrawn \subseteq 1 .. CoreHead
        /\ catalog.n \in 0 .. CoreHead /\ catalog.wd \subseteq withdrawn
        /\ debt \in BOOLEAN /\ faults \in 0 .. MaxFaults
    <3>1. /\ producer = 0 /\ blocked = FALSE /\ forced = {} /\ pubs = <<>> /\ withdrawn = {}
          /\ debt = FALSE /\ faults = 0
      BY DEF Init
    <3>2. catalog = [n |-> 0, wd |-> {}]
      BY DEF Init
    <3>3. catalog.n = 0 /\ catalog.wd = {} /\ Len(pubs) = 0
      BY <3>1, <3>2
    <3>4. blocked \in BOOLEAN /\ debt \in BOOLEAN
      BY <3>1
    <3>5. producer \in 0 .. MaxRevision /\ faults \in 0 .. MaxFaults
      BY <2>1, <3>1
    <3>6. \A i \in 1 .. CoreHead : pubs[i] \in Record
      BY <3>3 DEF CoreHead
    <3>7. forced \subseteq (1 .. MaxRevision) \X Pub
      BY <3>1, Zenon
    <3>8. withdrawn \subseteq 1 .. CoreHead /\ catalog.wd \subseteq withdrawn
      BY <3>1, <3>3, Zenon
    <3>9. Len(pubs) <= MaxPubs /\ catalog.n \in 0 .. CoreHead
      BY <2>1, <3>3 DEF CoreHead
    <3> QED
      BY <3>4, <3>5, <3>6, <3>7, <3>8, <3>9
  <2>3. reg \in [revision : 1 .. MaxReg, cancelled : BOOLEAN]
    BY <2>1 DEF Init
  <2>4. pc \in [Session -> Step] /\ req \in [Session -> Request]
    BY <2>1 DEF Init, Step, Request, Op
  <2>5. /\ \A s \in Session : seen[s] \in 0 .. CoreHead /\ got[s] \in 0 .. CoreHead
        /\ target \in [Session -> 0 .. MaxRevision] /\ bind \in [Session -> 0 .. MaxReg]
    BY <2>1 DEF Init, CoreHead
  <2>6. /\ gotWd \in [Session -> BOOLEAN] /\ made \in [Session -> BOOLEAN]
        /\ wrote \in [Session -> BOOLEAN] /\ disturbed \in [Session -> BOOLEAN]
        /\ result \in [Session -> Result]
    BY DEF Init, Result, Retryable
  <2> QED
    BY <2>2, <2>3, <2>4, <2>5, <2>6 DEF TypeOK
<1>2. DOMAIN seen = Session /\ DOMAIN got = Session
  BY DEF Init
<1>3. \A s \in Session : Picked(s)
  BY DEF Init, Picked
<1>4. CatalogShowsCore /\ ForcedAbove /\ Once
  BY DEF Init, CatalogShowsCore, CoreHead, ForcedAbove, Once, RetryAllocatesOnce
<1>5. Asked = {}
  BY DEF Init, Asked
<1>6. IsFiniteSet(Asked)
  BY <1>5, FS_EmptySet
<1> QED
  BY <1>1, <1>2, <1>3, <1>4, <1>6 DEF JInv

LEMMA TypeStep ==
  ASSUME IInv, JInv, [Next]_vars
  PROVE  TypeOK'
<1>1. TypeOK /\ ForcedAbove /\ (\A s \in Session : Picked(s)) /\ DOMAIN seen = Session /\ DOMAIN got = Session
  BY DEF JInv
<1>2. /\ producer' \in 0 .. MaxRevision /\ blocked' \in BOOLEAN /\ faults' \in 0 .. MaxFaults
      /\ reg' \in [revision : 1 .. MaxReg, cancelled : BOOLEAN]
      /\ debt' \in BOOLEAN
      /\ gotWd' \in [Session -> BOOLEAN] /\ made' \in [Session -> BOOLEAN]
      /\ disturbed' \in [Session -> BOOLEAN]
  BY <1>1, FlagsStep
<1>3. forced' \subseteq (1 .. MaxRevision) \X Pub
  BY <1>1, ForcedStep
<1>4. Records' /\ catalog'.n \in 0 .. Len(pubs') /\ catalog'.wd \subseteq withdrawn'
  BY <1>1, RecordsStep, CatalogFits
<1>5. \A s \in Session : /\ seen'[s] \in 0 .. Len(pubs') /\ got'[s] \in 0 .. Len(pubs')
                         /\ bind'[s] \in 0 .. MaxReg
  BY <1>1, MemoryStep
<1>6. Typed' /\ Ordered' /\ \A s \in Session : Chosen(s)'
  BY NextIInv DEF IInv
<1>7. Len(pubs') \in Nat /\ Len(pubs') <= MaxPubs /\ MaxPubs \in Nat /\ MaxRevision \in Nat /\ producer' \in Nat
  BY <1>4, <1>6, PublicationAssumption DEF Typed, Records
<1>8. ASSUME NEW i \in 1 .. Len(pubs') PROVE pubs'[i] \in Record
  <2>1. pubs'[i] \in CoreRecord
    BY <1>6 DEF Typed
  <2>2. pubs'[i].rev \in 1 .. MaxRevision
    BY <1>2, <1>4, <1>6, <1>7, <2>1 DEF Ordered, Records, CoreRecord
  <2>3. pubs'[i].sup \in 0 .. MaxPubs
    BY <1>6, <1>7 DEF Ordered
  <2>4. pubs'[i].reg \in 1 .. MaxReg
    BY <1>4 DEF Records
  <2> QED
    BY <2>1, <2>2, <2>3, <2>4 DEF CoreRecord, Record
<1>9. req' \in [Session -> Request]
  <2>1. req' \in [Session -> [op : Op, rev : Nat, exp : Nat]]
    BY <1>6 DEF Typed
  <2>2. ASSUME NEW s \in Session PROVE req'[s] \in Request
    <3>1. req'[s] \in [op : Op, rev : Nat, exp : Nat]
      BY <2>1
    <3>2. req'[s].rev <= producer' /\ req'[s].exp <= Len(pubs')
      BY <1>6 DEF Chosen
    <3>3. req'[s].rev \in 0 .. MaxRevision /\ req'[s].exp \in 0 .. MaxPubs
      BY <1>2, <1>7, <3>1, <3>2
    <3> QED
      BY <3>1, <3>3 DEF Request
  <2> QED
    BY <2>1, <2>2
<1>10. target' \in [Session -> 0 .. MaxRevision]
  <2>1. target' \in [Session -> Nat]
    BY <1>6 DEF Typed
  <2>2. ASSUME NEW s \in Session PROVE target'[s] \in 0 .. MaxRevision
    BY <1>2, <1>6, <1>7, <2>1 DEF Chosen
  <2> QED
    BY <2>1, <2>2
<1>11. bind' \in [Session -> 0 .. MaxReg]
  BY <1>5, <1>6 DEF Typed
<1>12. pc' \in [Session -> Step] /\ wrote' \in [Session -> BOOLEAN] /\ result' \in [Session -> Result]
  BY <1>6 DEF Typed
<1> QED
  BY <1>2, <1>3, <1>4, <1>5, <1>7, <1>8, <1>9, <1>10, <1>11, <1>12 DEF TypeOK, CoreHead, Records

LEMMA JInvStep == IInv /\ JInv /\ [Next]_vars => JInv'
<1> SUFFICES ASSUME IInv, JInv, [Next]_vars PROVE JInv'
  OBVIOUS
<1>1. /\ TypeOK /\ CatalogShowsCore /\ ForcedAbove /\ Once /\ IsFiniteSet(Asked)
      /\ \A s \in Session : Picked(s)
  BY DEF JInv
<1>2. TypeOK'
  BY TypeStep
<1>3. DOMAIN seen' = Session /\ DOMAIN got' = Session
  <2>1. Typed'
    BY NextIInv DEF IInv
  <2> QED
    BY <2>1 DEF Typed
<1>4. \A s \in Session : Picked(s)'
  BY <1>1, PickedStep
<1>5. CatalogShowsCore'
  BY <1>1, CatalogStep
<1>6. ForcedAbove'
  BY <1>1, ForcedStep
<1>7. Once' /\ IsFiniteSet(Asked')
  BY <1>1, OnceStep, AskedStep
<1> QED
  BY <1>2, <1>3, <1>4, <1>5, <1>6, <1>7 DEF JInv

LEMMA AlsoInductive == Spec => []JInv
<1>1. Spec => []IInv
  BY Invariance
<1> QED
  BY <1>1, InitJInv, JInvStep, PTL DEF Spec

\* Every variable keeps its type, whatever the sessions do and wherever they
\* fail.
THEOREM TypeCorrect == Spec => []TypeOK
<1>1. JInv => TypeOK
  BY DEF JInv
<1> QED
  BY <1>1, AlsoInductive, PTL

\* The derived catalog shows Core's state unless an operation owes a rebuild,
\* and a caller alone with the series who repeats an interrupted republication
\* makes one manifest revision of it.
THEOREM RepublicationAllocatesOnce == Spec => []RepeatedOnceAndShown
<1>1. JInv => RepeatedOnceAndShown
  BY DEF JInv, Once, RepeatedOnceAndShown
<1> QED
  BY <1>1, AlsoInductive, PTL
=============================================================================
