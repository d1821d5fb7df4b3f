----------------------------- MODULE SharingProofs -----------------------------
(***************************************************************************)
(* Theorems about the three components of MCSharing, for any number of     *)
(* teachers, presets, writers and events: what is shared is what was       *)
(* confirmed, what was saved stands, and the newest events are kept.       *)
(***************************************************************************)
EXTENDS MCSharing, FiniteSetTheorems, WellFoundedInduction, TLAPS

-----------------------------------------------------------------------------
(* Sharing: what is there, and what a teacher holds against it.            *)

PubRecord == [rev : Nat, sup : Nat, reg : Nat]

\* The results, manifests and records, each of which names what exists.
Stored ==
  /\ title \in Nat /\ content \in Nat /\ valid \in BOOLEAN /\ events \in 0 .. MaxEvents
  /\ registered \in [rev : Nat, title : Nat, cancelled : BOOLEAN]
  /\ producer \in Seq(Nat) /\ \A r \in 1 .. Len(producer) : producer[r] <= content
  /\ pubs \in Seq(PubRecord)
  /\ \A p \in 1 .. Len(pubs) :
       pubs[p].rev \in 1 .. Len(producer) /\ pubs[p].reg \in 1 .. registered.rev
  /\ withdrawn \subseteq 1 .. Len(pubs)

\* No revision is published twice.
Rising ==
  \A p \in 1 .. Len(pubs), q \in 1 .. Len(pubs) : p < q => pubs[p].rev < pubs[q].rev

Uses == {"menu", "preview", "fresh", "final"}
StatusFields ==
  {"reg", "stale", "cancelled", "producer", "head", "headRev", "withdrawn", "native"}
DeskFields ==
  {"at", "use", "saw", "preview", "intended", "accepted", "existing", "asked", "got", "slipped",
   "told"}
Shape(d) == DOMAIN d = DeskFields /\ DOMAIN d.saw = StatusFields

\* A desk on its way to a publication holds the registration of revision rev,
\* unless that changed; at the call it holds what was previewed.
Right(d, rev) ==
  /\ d.at \in Steps /\ d.use \in Uses
  /\ d.use \in {"preview", "fresh"} => d.intended \in {"publish_initial", "supersede_current"}
  /\ d.at = "confirm publication" => d.use = "preview"
  /\ d.use = "fresh" /\ d.at \in {"series", "native", "publish"} => d.slipped \/ rev = d.saw.reg
  /\ d.at = "publish" =>
       /\ d.use = "fresh" /\ d.saw.producer # 0
       /\ d.preview.reg = d.saw.reg /\ d.preview.producer = d.saw.producer
       /\ d.preview.head = d.saw.head

Desks == DOMAIN desk = Sharer /\ \A t \in Sharer : Shape(desk[t]) /\ Right(desk[t], registered.rev)

Confirmed(s) ==
  /\ s.pub \in 1 .. Len(pubs)
  /\ pubs[s.pub].rev = s.confirmed.producer /\ pubs[s.pub].sup = s.confirmed.head
  /\ s.existing \/ s.slipped \/ pubs[s.pub].reg = s.confirmed.reg

SharingInv == Stored /\ Rising /\ Desks /\ \A s \in shares : Confirmed(s)

-----------------------------------------------------------------------------
(* What a teacher holds after each step.                                   *)

LEMMA AwayIsRight ==
  ASSUME NEW told, NEW rev
  PROVE  Shape(Stopped(told)) /\ Right(Stopped(told), rev) /\ Shape(Away) /\ Right(Away, rev)
BY DEF Stopped, Away, NoStatus, Shape, Right, DeskFields, StatusFields, Steps, Uses

LEMMA MenuIsRight ==
  ASSUME NEW d, Shape(d), NEW rev
  PROVE  Shape(ToMenu(d)) /\ Right(ToMenu(d), rev) /\ ToMenu(d).at = "registration"
         /\ ToMenu(d).use = "menu"
BY DEF ToMenu, NoStatus, Shape, Right, DeskFields, StatusFields, Steps, Uses

(* A desk changes, and the registration does not.                          *)
LEMMA DeskStep ==
  ASSUME Desks, NEW t \in Sharer, NEW d, Put(t, d), registered' = registered,
         Shape(d), Right(d, registered.rev)
  PROVE  Desks'
<1>1. DOMAIN desk' = Sharer /\ desk'[t] = d /\ \A u \in Sharer \ {t} : desk'[u] = desk[u]
  BY DEF Desks, Put
<1> QED
  BY <1>1 DEF Desks

(* A registration that changes slips by the others.                        *)
LEMMA SlipIsRight ==
  ASSUME NEW d, Shape(d), Right(d, registered.rev)
  PROVE  Shape(Slip(d)) /\ Right(Slip(d), registered'.rev)
<1>1. /\ DOMAIN Slip(d) = DeskFields /\ Slip(d).at = d.at /\ Slip(d).use = d.use /\ Slip(d).saw = d.saw
      /\ Slip(d).preview = d.preview /\ Slip(d).intended = d.intended
      /\ Slip(d).slipped = (d.slipped \/ /\ registered' # registered
                                         /\ d.use = "fresh" /\ d.at \in {"series", "native", "publish"})
  BY DEF Slip, Shape, DeskFields
<1> QED
  BY <1>1 DEF Shape, Right

LEMMA SlipStep ==
  ASSUME Desks, NEW t \in Sharer, NEW d, PutAndSlip(t, d), Shape(d), Right(d, registered'.rev)
  PROVE  Desks'
<1>1. DOMAIN desk' = Sharer /\ desk'[t] = d /\ \A u \in Sharer \ {t} : desk'[u] = Slip(desk[u])
  BY DEF PutAndSlip
<1> QED
  BY <1>1, SlipIsRight DEF Desks

\* What only reads: nothing that is stored changes.
Kept == UNCHANGED <<native, producer, core, shares>> /\ (Event \/ Quiet)

LEMMA KeptStep ==
  ASSUME SharingInv, Kept, Desks'
  PROVE  SharingInv'
<1>1. events' \in 0 .. MaxEvents
  BY SharingAssumption DEF Kept, Event, Quiet, SharingInv, Stored
<1> QED
  BY <1>1 DEF Kept, native, core, SharingInv, Stored, Rising, Confirmed

\* The steps that change a desk and nothing else.
Desked(t) ==
  \/ OpenMenu(t) \/ ReadRegistration(t) \/ ReadSeries(t)
  \/ ShowMenu(t) \/ ShowPreview(t) \/ CheckFresh(t) \/ Reconcile(t)
  \/ ContinueStale(t) \/ UpdateStale(t) \/ TakeStep(t)
  \/ PreviewRegistration(t) \/ ConfirmPublication(t)
  \/ Leave(t) \/ Refresh(t) \/ Decline(t) \/ StatusUnavailable(t) \/ ServiceFails(t)

LEMMA DeskedKeeps ==
  ASSUME NEW t \in Sharer, Desked(t)
  PROVE  Kept /\ registered' = registered
BY DEF Desked, OpenMenu, ReadRegistration, ReadSeries, ShowMenu, ShowPreview, CheckFresh, Reconcile,
   ReadNative, ContinueStale, UpdateStale, TakeStep, PreviewRegistration, ConfirmPublication, Leave,
   Refresh, Decline, StatusUnavailable, ServiceFails, Moves, Kept, core

LEMMA DeskedStep ==
  ASSUME SharingInv, NEW t \in Sharer, Desked(t)
  PROVE  SharingInv'
<1> DEFINE d == desk[t]
           rev == registered.rev
<1>1. Desks /\ Shape(d) /\ Right(d, rev)
  BY DEF SharingInv, Desks
<1>2. Kept /\ registered' = registered
  BY DeskedKeeps
<1> SUFFICES Desks'
  BY <1>2, KeptStep
<1>3. ASSUME NEW told, Put(t, ToMenu(d)) \/ Put(t, Stopped(told)) \/ Put(t, Away) \/ Put(t, ToMenu(Away))
      PROVE  Desks'
  <2>1. Shape(ToMenu(Away)) /\ Right(ToMenu(Away), rev)
    BY AwayIsRight, MenuIsRight
  <2> QED
    BY <1>1, <1>2, <1>3, <2>1, AwayIsRight, MenuIsRight, DeskStep
<1>4. CASE OpenMenu(t) \/ Leave(t) \/ Refresh(t) \/ Decline(t) \/ StatusUnavailable(t) \/ ServiceFails(t)
  BY <1>3, <1>4 DEF OpenMenu, Leave, Refresh, Decline, StatusUnavailable, ServiceFails, Moves
<1>5. CASE ReadRegistration(t)
  <2> DEFINE e == [d EXCEPT !.at = "series", !.saw.reg = registered.rev,
                            !.saw.stale = registered.rev # 0 /\ registered.title # title,
                            !.saw.cancelled = registered.rev # 0 /\ registered.cancelled]
  <2>1. Put(t, e)
    BY <1>5 DEF ReadRegistration
  <2>2. /\ DOMAIN e = DeskFields /\ DOMAIN e.saw = StatusFields /\ e.at = "series" /\ e.use = d.use
        /\ e.saw.reg = rev /\ e.intended = d.intended
    BY <1>1 DEF Shape, DeskFields, StatusFields
  <2>3. Shape(e) /\ Right(e, rev)
    BY <1>1, <2>2 DEF Shape, Right, Steps
  <2> QED
    BY <1>1, <1>2, <2>1, <2>3, DeskStep
<1>6. CASE ReadSeries(t)
  <2> DEFINE head == Len(pubs)
             e == [d EXCEPT !.at = "native", !.saw.producer = Len(producer), !.saw.head = head,
                            !.saw.headRev = IF head = 0 THEN 0 ELSE pubs[head].rev,
                            !.saw.withdrawn = head \in withdrawn]
  <2>1. Put(t, e) /\ d.at = "series"
    BY <1>6 DEF ReadSeries
  <2>2. /\ DOMAIN e = DeskFields /\ DOMAIN e.saw = StatusFields /\ e.at = "native" /\ e.use = d.use
        /\ e.saw.reg = d.saw.reg /\ e.intended = d.intended /\ e.slipped = d.slipped
    BY <1>1 DEF Shape, DeskFields, StatusFields
  <2>3. Shape(e) /\ Right(e, rev)
    BY <1>1, <2>1, <2>2 DEF Shape, Right, Steps
  <2> QED
    BY <1>1, <1>2, <2>1, <2>3, DeskStep
<1>7. /\ DOMAIN Read(d) = StatusFields /\ Read(d).reg = d.saw.reg
      /\ Read(d).producer = d.saw.producer /\ Read(d).head = d.saw.head
  BY <1>1 DEF Read, Shape, StatusFields
<1>8. CASE ShowMenu(t)
  <2> DEFINE e == [d EXCEPT !.at = "menu", !.saw = Read(d)]
  <2>1. Put(t, e) /\ d.use = "menu"
    BY <1>8 DEF ShowMenu, ReadNative
  <2>2. DOMAIN e = DeskFields /\ e.saw = Read(d) /\ e.at = "menu" /\ e.use = d.use
    BY <1>1 DEF Shape, DeskFields
  <2>3. Shape(e) /\ Right(e, rev)
    BY <1>7, <2>1, <2>2 DEF Shape, Right, Steps, Uses
  <2> QED
    BY <1>1, <1>2, <2>1, <2>3, DeskStep
<1>9. CASE ShowPreview(t)
  <2> DEFINE e == [d EXCEPT !.at = "confirm publication", !.saw = Read(d), !.preview = Read(d)]
  <2>1. (Put(t, e) \/ Put(t, ToMenu(d))) /\ d.use = "preview"
    BY <1>9 DEF ShowPreview, ReadNative
  <2>2. DOMAIN e = DeskFields /\ e.saw = Read(d) /\ e.at = "confirm publication" /\ e.use = d.use
        /\ e.intended = d.intended
    BY <1>1 DEF Shape, DeskFields
  <2>3. Shape(e) /\ Right(e, rev)
    BY <1>1, <1>7, <2>1, <2>2 DEF Shape, Right, Steps, Uses
  <2> QED
    BY <1>1, <1>2, <1>3, <2>1, <2>3, DeskStep
<1>10. CASE CheckFresh(t)
  <2> DEFINE s == Read(d)
             e == [d EXCEPT !.at = "publish", !.saw = s]
  <2>1. /\ (SamePreview(d.preview, s, d.intended) /\ Put(t, e)) \/ Put(t, ToMenu(d))
        /\ d.use = "fresh" /\ d.at = "native"
    BY <1>10 DEF CheckFresh, ReadNative
  <2>2. DOMAIN e = DeskFields /\ e.saw = s /\ e.at = "publish" /\ e.use = d.use
        /\ e.intended = d.intended /\ e.slipped = d.slipped /\ e.preview = d.preview
    BY <1>1 DEF Shape, DeskFields
  <2>3. ASSUME SamePreview(d.preview, s, d.intended) PROVE s.producer # 0
    BY <1>1, <2>1, <2>3 DEF SamePreview, NextStep, Plan, Right
  <2>4. ASSUME SamePreview(d.preview, s, d.intended) PROVE Shape(e) /\ Right(e, rev)
    BY <1>1, <1>7, <2>1, <2>2, <2>3, <2>4 DEF Shape, Right, Steps, Uses, SamePreview
  <2> QED
    BY <1>1, <1>2, <1>3, <2>1, <2>4, DeskStep
<1>11. CASE Reconcile(t)
  <2> DEFINE e == [ToMenu(d) EXCEPT !.told = "published"]
  <2>1. Put(t, e) \/ Put(t, Stopped("not reconciled"))
    BY <1>11 DEF Reconcile, ReadNative
  <2>2. Shape(ToMenu(d)) /\ Right(ToMenu(d), rev) /\ ToMenu(d).at = "registration" /\ ToMenu(d).use = "menu"
    BY <1>1, MenuIsRight
  <2> HIDE DEF d
  <2>3. DOMAIN e = DeskFields /\ e.saw = ToMenu(d).saw /\ e.at = "registration" /\ e.use = "menu"
    BY <2>2 DEF Shape, DeskFields
  <2>4. Shape(e) /\ Right(e, rev)
    BY <2>2, <2>3 DEF Shape, Right, Steps, Uses
  <2> QED
    BY <1>1, <1>2, <1>3, <2>1, <2>4, DeskStep
<1>12. CASE ContinueStale(t)
  <2> DEFINE e == [ToMenu(d) EXCEPT !.accepted = d.saw.reg]
  <2>1. Put(t, e)
    BY <1>12 DEF ContinueStale, Moves
  <2>2. Shape(ToMenu(d)) /\ Right(ToMenu(d), rev) /\ ToMenu(d).at = "registration" /\ ToMenu(d).use = "menu"
    BY <1>1, MenuIsRight
  <2> HIDE DEF d
  <2>3. DOMAIN e = DeskFields /\ e.saw = ToMenu(d).saw /\ e.at = "registration" /\ e.use = "menu"
    BY <2>2 DEF Shape, DeskFields
  <2>4. Shape(e) /\ Right(e, rev)
    BY <2>2, <2>3 DEF Shape, Right, Steps, Uses
  <2> QED
    BY <1>1, <1>2, <2>1, <2>4, DeskStep
<1>13. CASE UpdateStale(t) \/ TakeStep(t) \/ PreviewRegistration(t) \/ ConfirmPublication(t)
  <2>1. ASSUME NEW existing, NEW e, e = ToRegistration(d, existing)
        PROVE  Shape(e) /\ Right(e, rev)
    <3>1. DOMAIN e = DeskFields /\ e.saw = d.saw /\ e.at = "register" /\ e.use = d.use /\ e.intended = d.intended
      BY <1>1, <2>1 DEF ToRegistration, Shape, DeskFields
    <3> QED
      BY <1>1, <3>1 DEF Shape, Right, Steps
  <2>2. ASSUME NEW e, NEW asked, e = [d EXCEPT !.at = "confirm registration", !.asked = asked]
        PROVE  Shape(e) /\ Right(e, rev)
    <3>1. DOMAIN e = DeskFields /\ e.saw = d.saw /\ e.at = "confirm registration" /\ e.use = d.use
          /\ e.intended = d.intended
      BY <1>1, <2>2 DEF Shape, DeskFields
    <3> QED
      BY <1>1, <3>1 DEF Shape, Right, Steps
  <2>3. ASSUME NEW e, e = [d EXCEPT !.at = "confirm generation"]
        PROVE  Shape(e) /\ Right(e, rev)
    <3>1. DOMAIN e = DeskFields /\ e.saw = d.saw /\ e.at = "confirm generation" /\ e.use = d.use
          /\ e.intended = d.intended
      BY <1>1, <2>3 DEF Shape, DeskFields
    <3> QED
      BY <1>1, <3>1 DEF Shape, Right, Steps
  <2>4. ASSUME NEW e, NEW step \in {"publish_initial", "supersede_current"},
               e = ToRead([d EXCEPT !.intended = step], "preview")
        PROVE  Shape(e) /\ Right(e, rev)
    <3>1. DOMAIN e = DeskFields /\ e.saw = NoStatus /\ e.at = "registration" /\ e.use = "preview"
          /\ e.intended = step
      BY <1>1, <2>4 DEF ToRead, Shape, DeskFields
    <3>2. DOMAIN NoStatus = StatusFields
      BY DEF NoStatus, StatusFields
    <3> QED
      BY <3>1, <3>2 DEF Shape, Right, Steps, Uses
  <2>5. ASSUME NEW e, e = ToRead(d, "fresh"), d.at = "confirm publication"
        PROVE  Shape(e) /\ Right(e, rev)
    <3>1. DOMAIN e = DeskFields /\ e.saw = NoStatus /\ e.at = "registration" /\ e.use = "fresh"
          /\ e.intended = d.intended
      BY <1>1, <2>5 DEF ToRead, Shape, DeskFields
    <3>2. DOMAIN NoStatus = StatusFields
      BY DEF NoStatus, StatusFields
    <3> QED
      BY <1>1, <2>5, <3>1, <3>2 DEF Shape, Right, Steps, Uses
  <2>6. CASE UpdateStale(t)
    <3>1. Put(t, ToRegistration(d, TRUE))
      BY <2>6 DEF UpdateStale, Moves
    <3> QED
      BY <1>1, <1>2, <2>1, <3>1, DeskStep
  <2>7. CASE TakeStep(t)
    <3>1. \/ \E existing : Put(t, ToRegistration(d, existing))
          \/ Put(t, [d EXCEPT !.at = "confirm generation"])
          \/ \E step \in {"publish_initial", "supersede_current"} :
               Put(t, ToRead([d EXCEPT !.intended = step], "preview"))
      BY <2>7 DEF TakeStep, Moves
    <3> QED
      BY <1>1, <1>2, <2>1, <2>3, <2>4, <3>1, DeskStep
  <2>8. CASE PreviewRegistration(t)
    <3>1. \/ Put(t, ToMenu(d))
          \/ \E asked : Put(t, [d EXCEPT !.at = "confirm registration", !.asked = asked])
      BY <2>8 DEF PreviewRegistration, Moves
    <3> QED
      BY <1>1, <1>2, <1>3, <2>2, <3>1, DeskStep
  <2>9. CASE ConfirmPublication(t)
    <3>1. Put(t, ToRead(d, "fresh")) /\ d.at = "confirm publication"
      BY <2>9 DEF ConfirmPublication, Moves
    <3> QED
      BY <1>1, <1>2, <2>5, <3>1, DeskStep
  <2> QED
    BY <1>13, <2>6, <2>7, <2>8, <2>9
<1> QED
  BY <1>4, <1>5, <1>6, <1>8, <1>9, <1>10, <1>11, <1>12, <1>13 DEF Desked

-----------------------------------------------------------------------------
(* What the services and others change.                                    *)

\* The series only grows.
SeriesGrows ==
  /\ Len(pubs') \in Nat /\ Len(pubs) <= Len(pubs')
  /\ \A p \in 1 .. Len(pubs) : pubs'[p] = pubs[p]

LEMMA SharesStand ==
  ASSUME Stored, \A s \in shares : Confirmed(s), SeriesGrows, shares' = shares
  PROVE  \A s \in shares' : Confirmed(s)'
<1>1. Len(pubs) \in Nat
  BY DEF Stored
<1> QED
  BY <1>1 DEF Confirmed, SeriesGrows

(* A registration is as it was, or the next revision.                      *)
LEMMA RegisterTyped ==
  ASSUME Stored, NEW cancelled \in BOOLEAN, Register(cancelled) \/ UNCHANGED registered
  PROVE  /\ registered' \in [rev : Nat, title : Nat, cancelled : BOOLEAN]
         /\ registered.rev <= registered'.rev /\ registered.rev \in Nat
<1>1. registered \in [rev : Nat, title : Nat, cancelled : BOOLEAN] /\ title \in Nat
  BY DEF Stored
<1>2. CASE registered' = registered
  BY <1>1, <1>2
<1>3. CASE registered' = [rev |-> registered.rev + 1, title |-> title, cancelled |-> cancelled]
  BY <1>1, <1>3
<1> QED
  BY <1>2, <1>3 DEF Register

LEMMA RegisterStores ==
  ASSUME SharingInv, NEW cancelled \in BOOLEAN, Register(cancelled) \/ UNCHANGED registered,
         UNCHANGED <<native, producer, pubs, withdrawn, shares>>, events' \in 0 .. MaxEvents
  PROVE  Stored' /\ Rising' /\ \A s \in shares' : Confirmed(s)'
<1>1. Stored /\ Rising /\ \A s \in shares : Confirmed(s)
  BY DEF SharingInv
<1>2. /\ registered' \in [rev : Nat, title : Nat, cancelled : BOOLEAN]
      /\ registered.rev <= registered'.rev /\ registered.rev \in Nat
  BY <1>1, RegisterTyped
<1>3. /\ title' = title /\ content' = content /\ valid' = valid /\ producer' = producer
      /\ pubs' = pubs /\ withdrawn' = withdrawn /\ shares' = shares
  BY DEF native
<1>4. registered'.rev \in Nat
  BY <1>2
<1>5. \A p \in 1 .. Len(pubs) : pubs[p].reg \in 1 .. registered'.rev
  BY <1>1, <1>2, <1>4 DEF Stored
<1>6. Stored'
  BY <1>1, <1>2, <1>3, <1>5 DEF Stored
<1> QED
  BY <1>1, <1>3, <1>6 DEF Rising, Confirmed

(* Manifest revisions show what the results were.                          *)
LEMMA AppendTyped ==
  ASSUME Stored, producer' = producer \/ producer' = Append(producer, content)
  PROVE  /\ producer' \in Seq(Nat) /\ \A r \in 1 .. Len(producer') : producer'[r] <= content
         /\ Len(producer) <= Len(producer') /\ Len(producer) \in Nat /\ Len(producer') \in Nat
<1>1. /\ producer \in Seq(Nat) /\ content \in Nat /\ Len(producer) \in Nat
      /\ \A r \in 1 .. Len(producer) : producer[r] <= content
  BY DEF Stored
<1>2. CASE producer' = producer
  BY <1>1, <1>2
<1>3. CASE producer' = Append(producer, content)
  <2>1. /\ producer' \in Seq(Nat) /\ Len(producer') = Len(producer) + 1
        /\ producer'[Len(producer) + 1] = content
        /\ \A r \in 1 .. Len(producer) : producer'[r] = producer[r]
    BY <1>1, <1>3
  <2>2. ASSUME NEW r \in 1 .. Len(producer') PROVE producer'[r] <= content
    <3>1. r \in 1 .. Len(producer) \/ r = Len(producer) + 1
      BY <1>1, <2>1
    <3> QED
      BY <1>1, <2>1, <3>1
  <2> QED
    BY <1>1, <2>1, <2>2
<1> QED
  BY <1>2, <1>3

LEMMA GenerateStores ==
  ASSUME SharingInv, Generated \/ UNCHANGED producer,
         UNCHANGED <<native, core, shares>>, events' \in 0 .. MaxEvents
  PROVE  Stored' /\ Rising' /\ \A s \in shares' : Confirmed(s)'
<1>1. Stored /\ Rising /\ \A s \in shares : Confirmed(s)
  BY DEF SharingInv
<1>2. producer' = producer \/ producer' = Append(producer, content)
  BY DEF Generated
<1>3. /\ producer' \in Seq(Nat) /\ \A r \in 1 .. Len(producer') : producer'[r] <= content
      /\ Len(producer) <= Len(producer') /\ Len(producer) \in Nat /\ Len(producer') \in Nat
  BY <1>1, <1>2, AppendTyped
<1>4. /\ title' = title /\ content' = content /\ valid' = valid /\ registered' = registered
      /\ pubs' = pubs /\ withdrawn' = withdrawn /\ shares' = shares
  BY DEF native, core
<1>5. \A p \in 1 .. Len(pubs) : pubs[p].rev \in 1 .. Len(producer')
  BY <1>1, <1>3 DEF Stored
<1>6. Stored'
  BY <1>1, <1>3, <1>4, <1>5 DEF Stored
<1> QED
  BY <1>1, <1>4, <1>6 DEF Rising, Confirmed

(* A record of the newest revision, after everything there is.             *)
LEMMA AppendPub ==
  ASSUME Stored, Rising, UNCHANGED <<native, registered, withdrawn>>, events' \in 0 .. MaxEvents,
         producer' = producer \/ producer' = Append(producer, content), Len(producer') >= 1,
         registered.rev # 0, NEW sup, sup = Len(pubs),
         \A p \in 1 .. Len(pubs) : pubs[p].rev # Len(producer'),
         pubs' = Append(pubs, [rev |-> Len(producer'), sup |-> sup, reg |-> registered.rev])
  PROVE  Stored' /\ Rising' /\ SeriesGrows
<1> DEFINE new == [rev |-> Len(producer'), sup |-> sup, reg |-> registered.rev]
           n == Len(pubs)
<1>1. /\ producer' \in Seq(Nat) /\ \A r \in 1 .. Len(producer') : producer'[r] <= content
      /\ Len(producer) <= Len(producer') /\ Len(producer) \in Nat /\ Len(producer') \in Nat
  BY AppendTyped
<1>2. /\ title' = title /\ content' = content /\ valid' = valid /\ registered' = registered
      /\ withdrawn' = withdrawn
  BY DEF native
<1>3. pubs \in Seq(PubRecord) /\ n \in Nat /\ registered.rev \in Nat
  BY DEF Stored
<1>4. new \in PubRecord
  BY <1>1, <1>3 DEF PubRecord
<1>5. /\ pubs' \in Seq(PubRecord) /\ Len(pubs') = n + 1 /\ pubs'[n + 1] = new
      /\ \A p \in 1 .. n : pubs'[p] = pubs[p]
  BY <1>3, <1>4
<1>6. SeriesGrows
  BY <1>3, <1>5 DEF SeriesGrows
<1>7. \A p \in 1 .. n : /\ pubs[p].rev \in 1 .. Len(producer)
                        /\ pubs[p].rev < Len(producer')
                        /\ pubs[p].reg \in 1 .. registered.rev
  BY <1>1 DEF Stored
<1>8. ASSUME NEW p \in 1 .. Len(pubs')
      PROVE  pubs'[p].rev \in 1 .. Len(producer') /\ pubs'[p].reg \in 1 .. registered.rev
  <2>1. p \in 1 .. n \/ p = n + 1
    BY <1>3, <1>5
  <2> QED
    BY <1>1, <1>3, <1>5, <1>7, <2>1
<1>9. withdrawn \subseteq 1 .. Len(pubs')
  BY <1>3, <1>5 DEF Stored
<1>10. Stored'
  BY <1>1, <1>2, <1>5, <1>8, <1>9 DEF Stored
<1>11. Rising'
  <2> SUFFICES ASSUME NEW p \in 1 .. Len(pubs'), NEW q \in 1 .. Len(pubs'), p < q
               PROVE  pubs'[p].rev < pubs'[q].rev
    BY DEF Rising
  <2>1. p \in 1 .. n /\ (q \in 1 .. n \/ q = n + 1)
    BY <1>3, <1>5
  <2> QED
    BY <1>5, <1>7, <2>1 DEF Rising
<1> QED
  BY <1>6, <1>10, <1>11

(* What Accepts lets publish is the newest revision over the named head,   *)
(* made now or found.                                                      *)
LEMMA PublishStores ==
  ASSUME Stored, Rising, NEW rev, NEW sup, rev # 0, Accepts(rev, sup), Publish(rev, sup),
         UNCHANGED <<native, producer, registered, withdrawn>>, events' \in 0 .. MaxEvents
  PROVE  /\ Stored' /\ Rising' /\ SeriesGrows
         /\ Published(rev) \in 1 .. Len(pubs')
         /\ pubs'[Published(rev)].rev = rev /\ pubs'[Published(rev)].sup = sup
         /\ pubs' = pubs \/ pubs'[Published(rev)].reg = registered.rev
<1>1. pubs \in Seq(PubRecord) /\ Len(pubs) \in Nat /\ rev = Len(producer) /\ rev \in Nat
      /\ DOMAIN pubs = 1 .. Len(pubs)
  BY DEF Stored, Accepts
<1>2. CASE Publishes(rev) # {}
  <2>1. pubs' = pubs
    BY <1>2 DEF Publish
  <2>2. PICK p \in 1 .. Len(pubs) : pubs[p].rev = rev /\ pubs[p].sup = sup
    BY <1>1, <1>2 DEF Accepts, Publishes
  <2>3. Published(rev) \in 1 .. Len(pubs) /\ pubs[Published(rev)].rev = rev
    BY <1>1, <2>1, <2>2 DEF Published
  <2>4. Published(rev) = p
    BY <1>1, <2>2, <2>3 DEF Rising
  <2>5. Stored' /\ Rising' /\ SeriesGrows
    BY <1>1, <2>1 DEF Stored, Rising, SeriesGrows, native
  <2> QED
    BY <2>1, <2>2, <2>3, <2>4, <2>5
<1>3. CASE Publishes(rev) = {}
  <2>1. /\ Len(pubs) = sup /\ registered.rev # 0
        /\ pubs' = Append(pubs, [rev |-> rev, sup |-> sup, reg |-> registered.rev])
        /\ \A p \in 1 .. Len(pubs) : pubs[p].rev # rev
    BY <1>1, <1>3 DEF Accepts, Publishes, Publish
  <2>2. Stored' /\ Rising' /\ SeriesGrows
    BY <1>1, <2>1, AppendPub
  <2>3. registered.rev \in Nat
    BY DEF Stored
  <2>4. [rev |-> rev, sup |-> sup, reg |-> registered.rev] \in PubRecord
    BY <1>1, <2>1, <2>3 DEF PubRecord
  <2>5. /\ Len(pubs') = Len(pubs) + 1 /\ DOMAIN pubs' = 1 .. Len(pubs')
        /\ pubs'[Len(pubs) + 1] = [rev |-> rev, sup |-> sup, reg |-> registered.rev]
        /\ \A p \in 1 .. Len(pubs) : pubs'[p] = pubs[p]
    BY <1>1, <2>1, <2>4
  <2>6. Len(pubs) + 1 \in 1 .. Len(pubs')
    BY <1>1, <2>5
  <2>7. Published(rev) \in 1 .. Len(pubs') /\ pubs'[Published(rev)].rev = rev
    BY <2>5, <2>6 DEF Published
  <2>8. Published(rev) = Len(pubs) + 1
    BY <1>1, <2>1, <2>5, <2>7
  <2> QED
    BY <2>2, <2>5, <2>7, <2>8
<1> QED
  BY <1>2, <1>3

LEMMA EventsCount ==
  ASSUME Stored, Event \/ Quiet
  PROVE  events' \in 0 .. MaxEvents
BY SharingAssumption DEF Stored, Event, Quiet

(* The typed confirmations, whatever the services answer.                  *)
LEMMA ConfirmStep ==
  ASSUME SharingInv, NEW t \in Sharer, ConfirmRegistration(t) \/ ConfirmGeneration(t)
  PROVE  SharingInv'
<1>1. Stored /\ Desks /\ Shape(desk[t]) /\ Right(desk[t], registered.rev)
  BY DEF SharingInv, Desks
<1>2. events' \in 0 .. MaxEvents
  BY <1>1, EventsCount DEF ConfirmRegistration, ConfirmGeneration
<1>3. CASE ConfirmRegistration(t)
  <2>1. Stored' /\ Rising' /\ \A s \in shares' : Confirmed(s)'
    BY <1>2, <1>3, RegisterStores DEF ConfirmRegistration
  <2>2. PutAndSlip(t, ToMenu(desk[t]))
    BY <1>3 DEF ConfirmRegistration
  <2>3. Desks'
    BY <1>1, <2>2, MenuIsRight, SlipStep
  <2> QED
    BY <2>1, <2>3 DEF SharingInv
<1>4. CASE ConfirmGeneration(t)
  <2>1. Stored' /\ Rising' /\ \A s \in shares' : Confirmed(s)'
    BY <1>2, <1>4, GenerateStores DEF ConfirmGeneration
  <2>2. Put(t, ToMenu(desk[t])) /\ registered' = registered
    BY <1>4 DEF ConfirmGeneration, core
  <2>3. Desks'
    BY <1>1, <2>2, MenuIsRight, DeskStep
  <2> QED
    BY <2>1, <2>3 DEF SharingInv
<1> QED
  BY <1>3, <1>4

(* The call publishes what was previewed.                                  *)
LEMMA CallStores ==
  ASSUME SharingInv, NEW t \in Sharer, desk[t].at = "publish", Call(desk[t]),
         UNCHANGED <<native, producer, registered, withdrawn>>, events' \in 0 .. MaxEvents
  PROVE  Stored' /\ Rising' /\ \A s \in shares' : Confirmed(s)'
<1> DEFINE d == desk[t]
           rev == d.saw.producer
           new == [pub |-> Published(rev), confirmed |-> d.preview, existing |-> pubs' = pubs,
                   slipped |-> d.slipped]
<1>1. Stored /\ Rising /\ Right(d, registered.rev) /\ \A s \in shares : Confirmed(s)
  BY DEF SharingInv, Desks
<1>2. /\ rev # 0 /\ d.preview.reg = d.saw.reg /\ d.preview.producer = rev /\ d.preview.head = d.saw.head
      /\ d.slipped \/ registered.rev = d.saw.reg
  BY <1>1 DEF Right
<1>3. Accepts(rev, d.saw.head) /\ Publish(rev, d.saw.head) /\ shares' = shares \cup {new}
  BY DEF Call
<1>4. /\ Stored' /\ Rising' /\ SeriesGrows
      /\ Published(rev) \in 1 .. Len(pubs')
      /\ pubs'[Published(rev)].rev = rev /\ pubs'[Published(rev)].sup = d.saw.head
      /\ pubs' = pubs \/ pubs'[Published(rev)].reg = registered.rev
  BY <1>1, <1>2, <1>3, PublishStores
<1>5. ASSUME NEW s, s = new PROVE Confirmed(s)'
  <2>1. /\ s.pub = Published(rev) /\ s.confirmed = d.preview /\ s.existing = (pubs' = pubs)
        /\ s.slipped = d.slipped
    BY <1>5
  <2> QED
    BY <1>2, <1>4, <2>1 DEF Confirmed
<1>6. \A s \in shares : Confirmed(s)'
  <2>1. Len(pubs) \in Nat
    BY <1>1 DEF Stored
  <2> QED
    BY <1>1, <1>4, <2>1 DEF Confirmed, SeriesGrows
<1> QED
  BY <1>3, <1>4, <1>5, <1>6

LEMMA CallPublicationStep ==
  ASSUME SharingInv, NEW t \in Sharer, CallPublication(t)
  PROVE  SharingInv'
<1> DEFINE d == desk[t]
           rev == registered.rev
<1>1. Stored /\ Desks /\ Shape(d) /\ Right(d, rev)
  BY DEF SharingInv, Desks
<1>2. /\ events' \in 0 .. MaxEvents /\ registered' = registered /\ d.at = "publish"
      /\ UNCHANGED <<native, producer, registered, withdrawn>>
  BY <1>1, EventsCount DEF CallPublication
<1>3. CASE Call(d) /\ \E got : Put(t, ToRead([d EXCEPT !.got = got], "final"))
  <2>1. Stored' /\ Rising' /\ \A s \in shares' : Confirmed(s)'
    BY <1>2, <1>3, CallStores
  <2>2. ASSUME NEW got, NEW e, e = ToRead([d EXCEPT !.got = got], "final")
        PROVE  Shape(e) /\ Right(e, rev)
    <3>1. DOMAIN e = DeskFields /\ e.saw = NoStatus /\ e.at = "registration" /\ e.use = "final"
      BY <1>1, <2>2 DEF ToRead, Shape, DeskFields
    <3>2. DOMAIN NoStatus = StatusFields
      BY DEF NoStatus, StatusFields
    <3> QED
      BY <3>1, <3>2 DEF Shape, Right, Steps, Uses
  <2>3. Desks'
    BY <1>1, <1>2, <1>3, <2>2, DeskStep
  <2> QED
    BY <2>1, <2>3 DEF SharingInv
<1>4. CASE UNCHANGED <<pubs, shares>> /\ Put(t, ToMenu(d))
  <2>1. Desks'
    BY <1>1, <1>2, <1>4, MenuIsRight, DeskStep
  <2> QED
    BY <1>2, <1>4, <2>1 DEF SharingInv, Stored, Rising, Confirmed, native
<1> QED
  BY <1>3, <1>4 DEF CallPublication

LEMMA PartialStep ==
  ASSUME SharingInv, NEW t \in Sharer, PartialSuccess(t)
  PROVE  SharingInv'
<1>1. Stored /\ Desks
  BY DEF SharingInv
<1>2. events' \in 0 .. MaxEvents
  BY <1>1, EventsCount DEF PartialSuccess
<1>3. Desks'
  BY <1>1, AwayIsRight, SlipStep DEF PartialSuccess
<1>4. Stored' /\ Rising' /\ \A s \in shares' : Confirmed(s)'
  <2>1. CASE (Register(FALSE) \/ UNCHANGED registered) /\ UNCHANGED <<native, producer, pubs, withdrawn, shares>>
    BY <1>2, <2>1, RegisterStores
  <2>2. CASE (Generated \/ UNCHANGED producer) /\ UNCHANGED <<native, core, shares>>
    BY <1>2, <2>2, GenerateStores
  <2>3. CASE desk[t].at = "publish" /\ Call(desk[t])
             /\ UNCHANGED <<native, producer, registered, withdrawn>>
    BY <1>2, <2>3, CallStores
  <2> QED
    BY <2>1, <2>2, <2>3 DEF PartialSuccess, core
<1> QED
  BY <1>3, <1>4 DEF SharingInv

(* Others change what is there; no desk moves by that.                     *)
LEMMA ElsewhereStep ==
  ASSUME SharingInv, Elsewhere
  PROVE  SharingInv'
<1>1. Stored /\ Rising /\ Desks /\ \A s \in shares : Confirmed(s)
  BY DEF SharingInv
<1>2. events' \in 0 .. MaxEvents
  BY <1>1, EventsCount DEF Elsewhere, RegisterElsewhere, GenerateElsewhere, PublishElsewhere,
     WithdrawElsewhere, RepublishElsewhere, EditTitle, EditResults
<1>3. ASSUME NEW cancelled \in BOOLEAN, RegisterElsewhere(cancelled) PROVE SharingInv'
  <2>1. Stored' /\ Rising' /\ \A s \in shares' : Confirmed(s)'
    BY <1>2, <1>3, RegisterStores DEF RegisterElsewhere
  <2>2. desk' = [t \in Sharer |-> Slip(desk[t])]
    BY <1>3 DEF RegisterElsewhere
  <2>3. Desks'
    BY <1>1, <2>2, SlipIsRight DEF Desks
  <2> QED
    BY <2>1, <2>3 DEF SharingInv
<1>4. CASE GenerateElsewhere
  <2>1. Stored' /\ Rising' /\ \A s \in shares' : Confirmed(s)'
    BY <1>2, <1>4, GenerateStores DEF GenerateElsewhere
  <2> QED
    BY <1>1, <1>4, <2>1 DEF SharingInv, Desks, GenerateElsewhere, core
<1>5. CASE PublishElsewhere
  <2>1. Len(producer) # 0
    BY <1>1, <1>5 DEF PublishElsewhere, Stored
  <2>2. Stored' /\ Rising' /\ SeriesGrows
    BY <1>1, <1>2, <1>5, <2>1, PublishStores DEF PublishElsewhere
  <2>3. \A s \in shares' : Confirmed(s)'
    BY <1>1, <1>5, <2>2, SharesStand DEF PublishElsewhere
  <2> QED
    BY <1>1, <1>5, <2>2, <2>3 DEF SharingInv, Desks, PublishElsewhere
<1>6. CASE WithdrawElsewhere
  <2>1. PICK p \in 1 .. Len(pubs) : withdrawn' = withdrawn \cup {p}
    BY <1>1, <1>6 DEF WithdrawElsewhere, Stored
  <2>2. UNCHANGED <<title, content, valid, producer, registered, pubs, desk, shares>>
    BY <1>6 DEF WithdrawElsewhere, native
  <2>3. Stored'
    BY <1>1, <1>2, <2>1, <2>2 DEF Stored
  <2> QED
    BY <1>1, <2>2, <2>3 DEF SharingInv, Rising, Desks, Confirmed
<1>7. CASE RepublishElsewhere
  <2> DEFINE head == Len(pubs)
  <2>1. /\ head \in withdrawn /\ registered.rev # 0
        /\ pubs' = Append(pubs, [rev |-> Len(producer'), sup |-> head, reg |-> registered.rev])
        /\ UNCHANGED <<native, registered, withdrawn, desk, shares>>
    BY <1>7 DEF RepublishElsewhere
  <2>2. head \in 1 .. Len(pubs) /\ head \in Nat /\ Len(producer) \in Nat /\ producer \in Seq(Nat)
        /\ content \in Nat
    BY <1>1, <2>1 DEF Stored
  <2>3. pubs[head].rev \in 1 .. Len(producer)
    BY <1>1, <2>2 DEF Stored
  <2>4. \/ producer' = producer /\ Len(producer) > pubs[head].rev
        \/ producer' = Append(producer, content)
    BY <1>7 DEF RepublishElsewhere
  <2>5. pubs[head].rev < Len(producer') /\ Len(producer') >= 1
    BY <2>2, <2>3, <2>4
  <2>6. ASSUME NEW p \in 1 .. Len(pubs) PROVE pubs[p].rev # Len(producer')
    <3>1. p = head \/ p < head
      BY <2>2
    <3>2. p < head => pubs[p].rev < pubs[head].rev
      BY <1>1, <2>2 DEF Rising
    <3>3. pubs[p].rev \in Nat /\ pubs[head].rev \in Nat /\ Len(producer') \in Nat
      BY <1>1, <2>2, <2>3, <2>4 DEF Stored
    <3> QED
      BY <2>5, <3>1, <3>2, <3>3
  <2>7. Stored' /\ Rising' /\ SeriesGrows
    BY <1>1, <1>2, <2>1, <2>4, <2>5, <2>6, AppendPub
  <2>8. \A s \in shares' : Confirmed(s)'
    BY <1>1, <2>1, <2>7, SharesStand
  <2> QED
    BY <1>1, <2>1, <2>7, <2>8 DEF SharingInv, Desks
<1>8. CASE EditTitle \/ EditResults
  <2>1. /\ UNCHANGED <<producer, registered, pubs, withdrawn, desk, shares>>
        /\ title' \in Nat /\ content' \in Nat /\ content <= content' /\ valid' \in BOOLEAN
    BY <1>1, <1>8 DEF EditTitle, EditResults, Stored, core
  <2>2. \A r \in 1 .. Len(producer) : producer[r] <= content'
    BY <1>1, <2>1 DEF Stored
  <2>3. Stored'
    BY <1>1, <1>2, <2>1, <2>2 DEF Stored
  <2> QED
    BY <1>1, <2>1, <2>3 DEF SharingInv, Rising, Desks, Confirmed
<1> QED
  BY <1>3, <1>4, <1>5, <1>6, <1>7, <1>8 DEF Elsewhere

LEMMA SharingNext ==
  ASSUME SharingInv, Next
  PROVE  SharingInv'
<1>1. ASSUME NEW t \in Sharer, Follow(t) \/ Otherwise(t) PROVE SharingInv'
  <2>1. Desked(t) \/ ConfirmRegistration(t) \/ ConfirmGeneration(t) \/ CallPublication(t) \/ PartialSuccess(t)
    BY <1>1 DEF Follow, Otherwise, Desked
  <2> QED
    BY <2>1, DeskedStep, ConfirmStep, CallPublicationStep, PartialStep
<1> QED
  BY <1>1, ElsewhereStep DEF Next

LEMMA SharingStart ==
  ASSUME Init
  PROVE  SharingInv
<1>1. Stored
  <2>1. /\ title = 0 /\ content = 0 /\ valid \in BOOLEAN /\ events = 0
        /\ producer = <<>> /\ pubs = <<>> /\ withdrawn = {}
        /\ registered = [rev |-> 0, title |-> 0, cancelled |-> FALSE]
    BY DEF Init
  <2>2. producer \in Seq(Nat) /\ pubs \in Seq(PubRecord) /\ Len(producer) = 0 /\ Len(pubs) = 0
    BY <2>1
  <2> QED
    BY <2>1, <2>2, SharingAssumption DEF Stored
<1>2. Rising /\ \A s \in shares : Confirmed(s)
  BY DEF Init, Rising
<1>3. Desks
  BY AwayIsRight DEF Init, Desks
<1> QED
  BY <1>1, <1>2, <1>3 DEF SharingInv

LEMMA SharingShows ==
  ASSUME SharingInv
  PROVE  TypeOK /\ SharedAsConfirmed
<1>1. Stored /\ Desks /\ \A s \in shares : Confirmed(s)
  BY DEF SharingInv
<1>2. DOMAIN producer = 1 .. Len(producer) /\ DOMAIN pubs = 1 .. Len(pubs)
  BY <1>1 DEF Stored
<1>3. TypeOK
  BY <1>1, <1>2 DEF Stored, Desks, Right, Uses, TypeOK
<1>4. SharedAsConfirmed
  BY <1>1 DEF Confirmed, SharedAsConfirmed
<1> QED
  BY <1>3, <1>4

-----------------------------------------------------------------------------
(* Presets: the plans that teachers hold, the files, and what was told.    *)

Answers == {"none", "open", "cancelled", "saved", "uncertain", "failed"}
PlanRecord ==
  [preset : Preset \cup {"none"}, config : Config \cup {0}, from : BOOLEAN,
   sources : SUBSET Config, answer : Answers]
Job == [plan : 0 .. MaxPlans, created : BOOLEAN, preset : Preset \cup {"none"}]

\* From the plan to its answer, and from the confirmation on.
Committing == {"planned", "source", "checked", "mkdir", "create", "install", "cleanup"}
Looked == {"checked", "mkdir", "create", "install", "cleanup"}

PresetsTyped ==
  /\ directory \in BOOLEAN /\ file \in [Preset -> 0 .. P!Damaged] /\ litter \subseteq Preset
  /\ standards \subseteq Config /\ source \in Config /\ used \subseteq P!Number
  /\ edits \in 0 .. MaxEdits /\ pc \in [Teacher -> P!Steps]
  /\ plans \in [P!Number -> PlanRecord] /\ job \in [Teacher -> Job]

\* A teacher who commits has a plan that is open, for a preset that may be.
OwnPlan(t) ==
  pc[t] \in Committing =>
    job[t].plan \in P!Number /\ P!Of(t).answer = "open" /\ P!Of(t).preset \in Preset

\* No two teachers commit one plan.
OnePlanEach ==
  \A t, u \in Teacher :
    pc[t] \in Committing /\ pc[u] \in Committing /\ job[t].plan = job[u].plan => t = u

\* A plan that was not installed is in no file and behind no assignment.
Uninstalled ==
  \A n \in P!Number :
    plans[n].answer \notin {"saved", "uncertain"} => n \notin used /\ \A p \in Preset : file[p] # n

\* A plan is for a preset that may be.
Named == \A n \in P!Number : plans[n].answer # "none" => plans[n].preset \in Preset

\* The source that a confirmed plan was held against.
SourceSeen(t) ==
  /\ pc[t] = "source" => source \in P!Of(t).sources
  /\ pc[t] \in Looked /\ P!Of(t).from => P!Of(t).config \in P!Of(t).sources

\* What a teacher has accepted is a preset's file.
Picked(t) == pc[t] = "accepted" => job[t].preset \in Preset

PresetInv ==
  /\ PresetsTyped /\ OnePlanEach /\ Named /\ Uninstalled /\ P!SavedStands /\ P!SavedAsSource
  /\ \A t \in Teacher : OwnPlan(t) /\ SourceSeen(t) /\ Picked(t)

-----------------------------------------------------------------------------
(* The first state.                                                        *)

LEMMA PresetStart ==
  ASSUME P!Init
  PROVE  PresetInv
<1>1. P!NoPlan \in PlanRecord /\ P!NoJob \in Job
  BY MCSharingAssumption DEF P!NoPlan, PlanRecord, P!NoJob, Job, Answers
<1>2. PresetsTyped
  <2>1. 0 \in 0 .. P!Damaged /\ 0 \in 0 .. MaxEdits
    BY MCSharingAssumption DEF P!Damaged
  <2> QED
    BY <1>1, <2>1 DEF P!Init, PresetsTyped, P!Steps, P!Nothing
<1>3. \A n \in P!Number : plans[n].answer = "none" /\ plans[n].from = FALSE
  BY DEF P!Init, P!NoPlan
<1>4. Named /\ Uninstalled
  BY <1>3 DEF P!Init, Named, Uninstalled, P!Number, P!Nothing
<1>5. P!SavedStands /\ P!SavedAsSource
  BY <1>3 DEF P!SavedStands, P!SavedAsSource
<1>6. OnePlanEach /\ \A t \in Teacher : OwnPlan(t) /\ SourceSeen(t) /\ Picked(t)
  BY DEF P!Init, OnePlanEach, OwnPlan, SourceSeen, Picked, Committing, Looked
<1> QED
  BY <1>2, <1>4, <1>5, <1>6 DEF PresetInv

-----------------------------------------------------------------------------
(* Planning takes a number of its own.                                     *)

LEMMA PlanKeeps ==
  ASSUME PresetInv, NEW t \in Teacher, NEW p \in Preset, NEW c \in Config,
         NEW from \in BOOLEAN, P!MakePlan(t, p, c, from)
  PROVE  PresetInv'
<1> DEFINE n == CHOOSE m \in P!Number : m \notin P!Planned
<1>1. n \in P!Number /\ plans[n].answer = "none"
  <2>1. \E m \in P!Number : m \notin P!Planned
    BY DEF P!MakePlan, P!Planned
  <2> QED
    BY <2>1 DEF P!Planned
<1>2. /\ plans' = [plans EXCEPT ![n] = P!Plan(p, c, from)]
      /\ job' = [job EXCEPT ![t] = [P!NoJob EXCEPT !.plan = n]]
      /\ pc' = [pc EXCEPT ![t] = "planned"]
      /\ pc[t] = "idle"
      /\ UNCHANGED <<directory, file, litter, standards, source, used, edits>>
  BY DEF P!MakePlan, P!Go
<1> HIDE DEF n
<1>3. /\ P!Plan(p, c, from) \in PlanRecord /\ P!Plan(p, c, from).answer = "open"
      /\ P!Plan(p, c, from).preset = p
  BY DEF P!Plan, PlanRecord, Answers
<1>4. [P!NoJob EXCEPT !.plan = n] \in Job /\ [P!NoJob EXCEPT !.plan = n].plan = n
  <2>1. n \in 0 .. MaxPlans
    BY <1>1, MCSharingAssumption DEF P!Number
  <2> QED
    BY <2>1 DEF P!NoJob, Job
<1>5. PresetsTyped'
  BY <1>1, <1>2, <1>3, <1>4 DEF PresetInv, PresetsTyped, P!Steps
<1>6. \A m \in P!Number : m # n => plans'[m] = plans[m]
  BY <1>1, <1>2 DEF PresetInv, PresetsTyped
<1>7. plans'[n] = P!Plan(p, c, from)
  BY <1>1, <1>2 DEF PresetInv, PresetsTyped
<1>8. /\ pc'[t] = "planned" /\ job'[t].plan = n
      /\ \A u \in Teacher \ {t} : pc'[u] = pc[u] /\ job'[u] = job[u]
  BY <1>2, <1>4 DEF PresetInv, PresetsTyped
<1>9. \A u \in Teacher \ {t} : pc[u] \in Committing => job[u].plan # n
  BY <1>1 DEF PresetInv, OwnPlan, P!Of
<1>10. OnePlanEach'
  BY <1>8, <1>9 DEF PresetInv, OnePlanEach
<1>11. Named' /\ Uninstalled' /\ P!SavedStands' /\ P!SavedAsSource'
  BY <1>1, <1>2, <1>3, <1>6, <1>7 DEF PresetInv, Named, Uninstalled, P!SavedStands, P!SavedAsSource
<1>12. ASSUME NEW u \in Teacher PROVE OwnPlan(u)' /\ SourceSeen(u)' /\ Picked(u)'
  <2>1. CASE u = t
    BY <1>1, <1>3, <1>7, <1>8, <2>1 DEF OwnPlan, SourceSeen, Picked, P!Of, Looked
  <2>2. CASE u # t
    <3>1. pc[u] \in Committing => job[u].plan \in P!Number
          /\ plans'[job[u].plan] = plans[job[u].plan]
      BY <1>6, <1>9, <2>2 DEF PresetInv, OwnPlan
    <3> QED
      BY <1>2, <1>8, <2>2, <3>1 DEF PresetInv, OwnPlan, SourceSeen, Picked, P!Of, Committing, Looked
  <2> QED
    BY <2>1, <2>2
<1> QED
  BY <1>5, <1>10, <1>11, <1>12 DEF PresetInv

-----------------------------------------------------------------------------
(* Steps of one teacher that leave every plan and every file as they are.  *)

LEMMA MoveKeeps ==
  ASSUME PresetInv, NEW t \in Teacher, NEW step \in P!Steps, NEW j \in Job,
         pc' = [pc EXCEPT ![t] = step], job' = [job EXCEPT ![t] = j],
         UNCHANGED <<file, plans, standards, source, edits>>,
         directory' \in BOOLEAN, litter' \subseteq Preset, used' \subseteq P!Number,
         \A n \in used' : n \in used \/ plans[n].answer \in {"saved", "uncertain"},
         step \in Committing => pc[t] \in Committing /\ j.plan = job[t].plan,
         step \notin {"planned", "source"},
         step \in Looked /\ P!Of(t).from => P!Of(t).config \in P!Of(t).sources,
         step = "accepted" => j.preset \in Preset
  PROVE  PresetInv'
<1>1. PresetsTyped'
  BY DEF PresetInv, PresetsTyped
<1>2. /\ pc'[t] = step /\ job'[t] = j
      /\ \A u \in Teacher \ {t} : pc'[u] = pc[u] /\ job'[u] = job[u]
  BY DEF PresetInv, PresetsTyped
<1>3. \A u \in Teacher :
        pc'[u] \in Committing => pc[u] \in Committing /\ job'[u].plan = job[u].plan
  BY <1>2
<1>4. OnePlanEach'
  BY <1>3 DEF PresetInv, OnePlanEach
<1>5. Named' /\ Uninstalled' /\ P!SavedStands' /\ P!SavedAsSource'
  BY DEF PresetInv, Named, Uninstalled, P!SavedStands, P!SavedAsSource
<1>6. ASSUME NEW u \in Teacher PROVE OwnPlan(u)' /\ SourceSeen(u)' /\ Picked(u)'
  <2>1. OwnPlan(u)'
    BY <1>3 DEF PresetInv, OwnPlan, P!Of
  <2>2. CASE u = t
    BY <1>2, <1>3, <2>1, <2>2 DEF SourceSeen, Picked, P!Of, Looked, Committing
  <2>3. CASE u # t
    BY <1>2, <2>1, <2>3 DEF PresetInv, SourceSeen, Picked, P!Of
  <2> QED
    BY <2>1, <2>2, <2>3
<1> QED
  BY <1>1, <1>4, <1>5, <1>6 DEF PresetInv

LEMMA NoJobTyped ==
  P!NoJob \in Job /\ P!NoJob.plan = 0
BY MCSharingAssumption DEF P!NoJob, Job

LEMMA CommitMovesKeep ==
  ASSUME PresetInv, NEW t \in Teacher,
         P!CheckSource(t) \/ P!CheckDestination(t) \/ P!MakeDirectory(t) \/ P!Lock(t)
              \/ P!CreateFails(t)
  PROVE  PresetInv'
<1> USE DEF P!Go, P!Steps, Committing, Looked
<1>1. pc \in [Teacher -> P!Steps] /\ job[t] \in Job /\ job \in [Teacher -> Job]
  BY DEF PresetInv, PresetsTyped
<1>2. directory \in BOOLEAN /\ litter \subseteq Preset /\ used \subseteq P!Number
  BY DEF PresetInv, PresetsTyped
<1>3. job = [job EXCEPT ![t] = job[t]]
  BY <1>1
<1>4. CASE P!CheckSource(t)
  <2>1. P!Of(t).from => P!Of(t).config \in P!Of(t).sources
    BY <1>4 DEF P!CheckSource, P!SourceUnchanged, PresetInv, SourceSeen
  <2> QED
    BY <1>2, <1>1, <1>3, <1>4, <2>1, MoveKeeps DEF P!CheckSource
<1>5. pc[t] \in Looked => (P!Of(t).from => P!Of(t).config \in P!Of(t).sources)
  BY DEF PresetInv, SourceSeen
<1>6. CASE P!CheckDestination(t)
  <2> DEFINE j == [job[t] EXCEPT !.created = ~directory]
  <2>1. j \in Job /\ j.plan = job[t].plan
    BY <1>1, <1>2 DEF Job
  <2>2. job' = [job EXCEPT ![t] = j]
    BY <1>6 DEF P!CheckDestination
  <2> HIDE DEF j
  <2> QED
    BY <1>2, <1>1, <1>5, <1>6, <2>1, <2>2, MoveKeeps DEF P!CheckDestination
<1>7. CASE P!MakeDirectory(t)
  BY <1>2, <1>1, <1>3, <1>5, <1>7, MoveKeeps DEF P!MakeDirectory
<1>8. CASE P!Lock(t)
  BY <1>2, <1>1, <1>3, <1>5, <1>8, MoveKeeps DEF P!Lock
<1>9. CASE P!CreateFails(t)
  BY <1>2, <1>1, <1>3, <1>5, <1>9, MoveKeeps DEF P!CreateFails
<1> QED
  BY <1>4, <1>6, <1>7, <1>8, <1>9

(* A death, an accepted preset, an assignment that is saved or is not.     *)
LEMMA OtherMovesKeep ==
  ASSUME PresetInv, NEW t \in Teacher,
         P!Die(t) \/ P!SaveAssignment(t) \/ \E p \in Preset : P!Accept(t, p)
  PROVE  PresetInv'
<1> USE DEF P!Go, P!Steps, Committing, Looked
<1>1. /\ P!NoJob \in Job /\ directory \in BOOLEAN /\ litter \subseteq Preset
      /\ used \subseteq P!Number
  BY NoJobTyped DEF PresetInv, PresetsTyped
<1>2. CASE P!Die(t)
  <2>1. pc[t] = "install" => P!Of(t).preset \in Preset
    BY DEF PresetInv, OwnPlan
  <2>2. litter' \subseteq Preset
    BY <1>1, <1>2, <2>1 DEF P!Die
  <2> QED
    BY <1>1, <1>2, <2>2, MoveKeeps DEF P!Die
<1>3. CASE P!SaveAssignment(t)
  <2>1. P!MatchesAccepted(t) =>
          job[t].plan \in P!Number /\ plans[job[t].plan].answer \in {"saved", "uncertain"}
    BY <1>3 DEF P!SaveAssignment, P!MatchesAccepted, P!Current, PresetInv, Picked, Uninstalled
  <2>2. /\ used' \subseteq P!Number
        /\ \A n \in used' : n \in used \/ plans[n].answer \in {"saved", "uncertain"}
    BY <1>1, <1>3, <2>1 DEF P!SaveAssignment
  <2> QED
    BY <1>1, <1>3, <2>2, MoveKeeps DEF P!SaveAssignment
<1>4. ASSUME NEW p \in Preset, P!Accept(t, p) PROVE PresetInv'
  <2> DEFINE j == [P!NoJob EXCEPT !.plan = file[p], !.preset = p]
  <2>1. file[p] \in 0 .. MaxPlans
    <3>1. file[p] \in P!Number
      BY <1>4 DEF P!Accept, P!Choices, P!Inspection, P!Current
    <3> QED
      BY <3>1, MCSharingAssumption DEF P!Number
  <2>2. j \in Job /\ j.preset = p
    BY <2>1 DEF Job, P!NoJob
  <2>3. job' = [job EXCEPT ![t] = j]
    BY <1>4 DEF P!Accept
  <2> HIDE DEF j
  <2> QED
    BY <1>1, <1>4, <2>2, <2>3, MoveKeeps DEF P!Accept
<1> QED
  BY <1>2, <1>3, <1>4

-----------------------------------------------------------------------------
(* Steps that answer a plan, and the confirmation.                         *)

(* A step that changes only the plan of the teacher who holds it.          *)
LEMMA HeldPlan ==
  ASSUME PresetInv, NEW t \in Teacher, pc[t] \in Committing,
         NEW r \in PlanRecord, plans' = [plans EXCEPT ![job[t].plan] = r]
  PROVE  /\ plans' \in [P!Number -> PlanRecord] /\ plans'[job[t].plan] = r
         /\ \A m \in P!Number : m # job[t].plan => plans'[m] = plans[m]
         /\ \A u \in Teacher \ {t} : pc[u] \in Committing =>
              job[u].plan \in P!Number /\ plans'[job[u].plan] = plans[job[u].plan]
BY DEF PresetInv, PresetsTyped, OwnPlan, OnePlanEach

LEMMA AnswerKeeps ==
  ASSUME PresetInv, NEW t \in Teacher, pc[t] \in Committing,
         NEW answer \in {"cancelled", "failed", "saved", "uncertain"}, P!Answer(t, answer),
         UNCHANGED <<litter, standards, source, used, edits>>, directory' \in BOOLEAN,
         \/ answer \in {"cancelled", "failed"} /\ UNCHANGED file
         \/ /\ answer \in {"saved", "uncertain"} /\ P!Absent(P!Of(t).preset)
            /\ pc[t] \in Looked
            /\ file' = [file EXCEPT ![P!Of(t).preset] = job[t].plan]
  PROVE  PresetInv'
<1> DEFINE n == job[t].plan
           r == [plans[n] EXCEPT !.answer = answer]
<1>1. n \in P!Number /\ plans[n].answer = "open" /\ plans[n].preset \in Preset
      /\ plans[n] \in PlanRecord
  BY DEF PresetInv, PresetsTyped, OwnPlan, P!Of
<1>2. r \in PlanRecord /\ r.answer = answer /\ r.preset = plans[n].preset
      /\ r.from = plans[n].from /\ r.config = plans[n].config /\ r.sources = plans[n].sources
  BY <1>1 DEF PlanRecord, Answers
<1>3. plans' = [plans EXCEPT ![n] = r]
  BY <1>1 DEF P!Answer
<1> HIDE DEF r
<1>4. /\ plans' \in [P!Number -> PlanRecord] /\ plans'[n] = r
      /\ \A m \in P!Number : m # n => plans'[m] = plans[m]
      /\ \A u \in Teacher \ {t} : pc[u] \in Committing =>
           job[u].plan \in P!Number /\ plans'[job[u].plan] = plans[job[u].plan]
  BY <1>2, <1>3, HeldPlan
<1>5. /\ pc'[t] = "idle" /\ pc' \in [Teacher -> P!Steps] /\ job' \in [Teacher -> Job]
      /\ \A u \in Teacher \ {t} : pc'[u] = pc[u] /\ job'[u] = job[u]
  BY NoJobTyped DEF P!Answer, P!Go, P!Steps, PresetInv, PresetsTyped
<1>6. n \in 0 .. P!Damaged /\ n # P!Damaged /\ n # P!Nothing /\ P!Damaged # P!Nothing
  BY <1>1, MCSharingAssumption DEF P!Number, P!Damaged, P!Nothing
<1>7. file' \in [Preset -> 0 .. P!Damaged]
  BY <1>1, <1>6 DEF PresetInv, PresetsTyped, P!Of
<1>8. PresetsTyped'
  BY <1>4, <1>5, <1>7 DEF PresetInv, PresetsTyped
<1>9. OnePlanEach'
  BY <1>5 DEF PresetInv, OnePlanEach, Committing
<1>10. P!SavedAsSource'
  BY <1>1, <1>2, <1>4 DEF PresetInv, P!SavedAsSource, SourceSeen, P!Of
<1>11. Named' /\ Uninstalled' /\ P!SavedStands'
  <2>1. CASE answer \in {"cancelled", "failed"} /\ UNCHANGED file
    BY <1>1, <1>2, <1>4, <2>1 DEF PresetInv, Named, Uninstalled, P!SavedStands
  <2>2. CASE /\ answer \in {"saved", "uncertain"} /\ P!Absent(P!Of(t).preset)
             /\ file' = [file EXCEPT ![P!Of(t).preset] = n]
    <3>1. /\ file'[plans[n].preset] = n /\ file[plans[n].preset] = P!Nothing
          /\ \A p \in Preset : p # plans[n].preset => file'[p] = file[p]
      BY <1>1, <2>2 DEF PresetInv, PresetsTyped, P!Of, P!Absent
    <3>2. Named' /\ Uninstalled'
      BY <1>1, <1>2, <1>4, <2>2, <3>1 DEF PresetInv, Named, Uninstalled
    <3>3. ASSUME NEW m \in P!Number, plans'[m].answer = "saved"
          PROVE  file'[plans'[m].preset] \in {m, P!Damaged}
      <4>1. CASE m = n
        BY <1>2, <1>4, <3>1, <4>1
      <4>2. CASE m # n
        <5>1. plans'[m] = plans[m] /\ file[plans[m].preset] \in {m, P!Damaged}
          BY <1>4, <3>3, <4>2, MCSharingAssumption DEF PresetInv, P!SavedStands
        <5>2. m # P!Nothing
          BY DEF P!Number, P!Nothing, MCSharingAssumption
        <5>3. plans[m].preset # plans[n].preset
          BY <1>6, <3>1, <5>1, <5>2
        <5>4. file' = [file EXCEPT ![plans[n].preset] = n]
          BY <2>2 DEF P!Of
        <5>5. file'[plans[m].preset] = file[plans[m].preset]
          <6>1. plans[m].preset \in Preset \cup {"none"}
            BY DEF PresetInv, PresetsTyped, PlanRecord
          <6> QED
            BY <5>1, <5>3, <5>4, <6>1, <3>1 DEF PresetInv, PresetsTyped
        <5> QED
          BY <5>1, <5>5
      <4> QED
        BY <4>1, <4>2
    <3> QED
      BY <3>2, <3>3 DEF P!SavedStands
  <2> QED
    BY <2>1, <2>2
<1>12. ASSUME NEW u \in Teacher PROVE OwnPlan(u)' /\ SourceSeen(u)' /\ Picked(u)'
  <2>1. CASE u = t
    BY <1>5, <2>1 DEF OwnPlan, SourceSeen, Picked, Committing, Looked
  <2>2. CASE u # t
    BY <1>4, <1>5, <2>2 DEF PresetInv, OwnPlan, SourceSeen, Picked, P!Of, Committing, Looked
  <2> QED
    BY <2>1, <2>2
<1> QED
  BY <1>8, <1>9, <1>10, <1>11, <1>12 DEF PresetInv

LEMMA AnsweringKeeps ==
  ASSUME PresetInv, NEW t \in Teacher, P!Cancel(t) \/ P!Refuse(t) \/ P!Cleanup(t) \/ P!Install(t)
  PROVE  PresetInv'
<1> USE DEF Committing, Looked
<1>1. directory \in BOOLEAN
  BY DEF PresetInv, PresetsTyped
<1>2. CASE P!Cancel(t)
  BY <1>1, <1>2, AnswerKeeps DEF P!Cancel
<1>3. CASE P!Refuse(t)
  BY <1>1, <1>3, AnswerKeeps DEF P!Refuse
<1>4. CASE P!Cleanup(t)
  <2>1. directory' \in BOOLEAN
    BY <1>4 DEF P!Cleanup
  <2> QED
    BY <1>4, <2>1, AnswerKeeps DEF P!Cleanup
<1>5. CASE P!Install(t)
  BY <1>1, <1>5, AnswerKeeps DEF P!Install
<1> QED
  BY <1>2, <1>3, <1>4, <1>5

LEMMA ConfirmKeeps ==
  ASSUME PresetInv, NEW t \in Teacher, P!Confirm(t)
  PROVE  PresetInv'
<1> DEFINE n == job[t].plan
           r == [plans[n] EXCEPT !.sources = {source}]
<1>1. n \in P!Number /\ plans[n].answer = "open" /\ plans[n] \in PlanRecord /\ source \in Config
  BY DEF PresetInv, PresetsTyped, OwnPlan, P!Of, P!Confirm, Committing
<1>2. r \in PlanRecord /\ r.answer = "open" /\ r.preset = plans[n].preset /\ source \in r.sources
  BY <1>1 DEF PlanRecord
<1>3. plans' = [plans EXCEPT ![n] = r] /\ pc[t] \in Committing
  BY <1>1 DEF P!Confirm, Committing
<1> HIDE DEF r
<1>4. /\ plans' \in [P!Number -> PlanRecord] /\ plans'[n] = r
      /\ \A m \in P!Number : m # n => plans'[m] = plans[m]
      /\ \A u \in Teacher \ {t} : pc[u] \in Committing =>
           job[u].plan \in P!Number /\ plans'[job[u].plan] = plans[job[u].plan]
  BY <1>2, <1>3, HeldPlan
<1>5. /\ pc'[t] = "source" /\ pc' \in [Teacher -> P!Steps] /\ job' = job
      /\ \A u \in Teacher \ {t} : pc'[u] = pc[u]
      /\ UNCHANGED <<directory, file, litter, standards, source, used, edits>>
  BY DEF P!Confirm, P!Go, P!Steps, PresetInv, PresetsTyped
<1>6. PresetsTyped'
  BY <1>4, <1>5 DEF PresetInv, PresetsTyped
<1>7. OnePlanEach'
  BY <1>3, <1>5 DEF PresetInv, OnePlanEach
<1>8. Named' /\ Uninstalled' /\ P!SavedStands' /\ P!SavedAsSource'
  BY <1>1, <1>2, <1>4, <1>5 DEF PresetInv, Named, Uninstalled, P!SavedStands, P!SavedAsSource
<1>9. ASSUME NEW u \in Teacher PROVE OwnPlan(u)' /\ SourceSeen(u)' /\ Picked(u)'
  <2>1. CASE u = t
    BY <1>1, <1>2, <1>3, <1>4, <1>5, <2>1 DEF PresetInv, OwnPlan, SourceSeen, Picked, P!Of, Looked
  <2>2. CASE u # t
    BY <1>4, <1>5, <2>2 DEF PresetInv, OwnPlan, SourceSeen, Picked, P!Of, Committing, Looked
  <2> QED
    BY <2>1, <2>2
<1> QED
  BY <1>6, <1>7, <1>8, <1>9 DEF PresetInv

-----------------------------------------------------------------------------
(* What others change.                                                     *)

LEMMA EditKeeps ==
  ASSUME PresetInv, P!EditStandards \/ \E p \in Preset : P!EditFile(p)
  PROVE  PresetInv'
<1>1. edits' \in 0 .. MaxEdits
  BY MCSharingAssumption DEF P!EditStandards, P!EditFile, P!Edit, PresetInv, PresetsTyped
<1>2. UNCHANGED <<directory, litter, source, plans, used, pc, job>>
  BY DEF P!EditStandards, P!EditFile
<1>3. standards' \subseteq Config
  BY MCSharingAssumption DEF P!EditStandards, P!EditFile, PresetInv, PresetsTyped
<1>4. /\ file' \in [Preset -> 0 .. P!Damaged]
      /\ \A p \in Preset : file'[p] \in {file[p], P!Damaged}
  <2>1. P!Damaged \in 0 .. P!Damaged
    BY MCSharingAssumption DEF P!Damaged
  <2> QED
    BY <2>1 DEF P!EditStandards, P!EditFile, PresetInv, PresetsTyped
<1>5. \A n \in P!Number : n # P!Damaged
  BY MCSharingAssumption DEF P!Number, P!Damaged
<1>6. PresetsTyped' /\ OnePlanEach'
  BY <1>1, <1>2, <1>3, <1>4 DEF PresetInv, PresetsTyped, OnePlanEach
<1>7. Named' /\ Uninstalled' /\ P!SavedAsSource'
  BY <1>2, <1>4, <1>5 DEF PresetInv, Named, Uninstalled, P!SavedAsSource
<1>8. P!SavedStands'
  <2>1. ASSUME NEW n \in P!Number, plans[n].answer = "saved"
        PROVE  file'[plans[n].preset] \in {n, P!Damaged}
    <3>1. plans[n].preset \in Preset
      BY <2>1 DEF PresetInv, Named
    <3> QED
      BY <1>4, <2>1, <3>1 DEF PresetInv, P!SavedStands
  <2> QED
    BY <1>2, <2>1 DEF P!SavedStands
<1>9. \A u \in Teacher : OwnPlan(u)' /\ SourceSeen(u)' /\ Picked(u)'
  BY <1>2 DEF PresetInv, OwnPlan, SourceSeen, Picked, P!Of
<1> QED
  BY <1>6, <1>7, <1>8, <1>9 DEF PresetInv

LEMMA SourceKeeps ==
  ASSUME PresetInv, P!EditSource
  PROVE  PresetInv'
<1>1. edits' \in 0 .. MaxEdits /\ source' \in Config
  BY MCSharingAssumption DEF P!EditSource, P!Edit, PresetInv, PresetsTyped
<1>2. UNCHANGED <<directory, file, litter, standards, used, pc, job>>
  BY DEF P!EditSource
<1>3. ASSUME NEW n \in P!Number
      PROVE  /\ plans'[n] \in PlanRecord
             /\ plans'[n].answer = plans[n].answer /\ plans'[n].preset = plans[n].preset
             /\ plans'[n].from = plans[n].from /\ plans'[n].config = plans[n].config
             /\ plans[n].sources \subseteq plans'[n].sources
             /\ plans[n].answer = "open" /\ plans[n].sources # {} => source' \in plans'[n].sources
  <2>1. plans[n] \in PlanRecord
    BY DEF PresetInv, PresetsTyped
  <2>2. CASE plans[n].sources = {} \/ plans[n].answer # "open"
    BY <2>1, <2>2 DEF P!EditSource
  <2>3. CASE ~ (plans[n].sources = {} \/ plans[n].answer # "open")
    <3>1. plans'[n] = [plans[n] EXCEPT !.sources = plans[n].sources \cup {source'}]
      BY <2>3 DEF P!EditSource
    <3> QED
      BY <1>1, <2>1, <3>1 DEF PlanRecord
  <2> QED
    BY <2>2, <2>3
<1>4. plans' \in [P!Number -> PlanRecord]
  <2>1. plans' = [n \in P!Number |-> plans'[n]]
    BY DEF P!EditSource
  <2> QED
    BY <1>3, <2>1
<1>5. PresetsTyped' /\ OnePlanEach'
  BY <1>1, <1>2, <1>4 DEF PresetInv, PresetsTyped, OnePlanEach
<1>6. Named' /\ Uninstalled' /\ P!SavedStands' /\ P!SavedAsSource'
  BY <1>2, <1>3 DEF PresetInv, Named, Uninstalled, P!SavedStands, P!SavedAsSource
<1>7. ASSUME NEW u \in Teacher PROVE OwnPlan(u)' /\ SourceSeen(u)' /\ Picked(u)'
  <2>1. CASE pc[u] \in Committing
    BY <1>2, <1>3, <2>1 DEF PresetInv, OwnPlan, SourceSeen, Picked, P!Of, Committing, Looked
  <2>2. CASE pc[u] \notin Committing
    BY <1>2, <2>2 DEF PresetInv, OwnPlan, SourceSeen, Picked, Committing, Looked
  <2> QED
    BY <2>1, <2>2
<1> QED
  BY <1>5, <1>6, <1>7 DEF PresetInv

-----------------------------------------------------------------------------

LEMMA PresetNext ==
  ASSUME PresetInv, [P!Next]_(P!vars)
  PROVE  PresetInv'
<1>1. CASE P!EditStandards \/ \E p \in Preset : P!EditFile(p)
  BY <1>1, EditKeeps
<1>2. CASE P!EditSource
  BY <1>2, SourceKeeps
<1>3. CASE UNCHANGED P!vars
  BY <1>3 DEF P!vars, PresetInv, PresetsTyped, OwnPlan, OnePlanEach, Named, Uninstalled,
       SourceSeen, Picked,
       P!SavedStands, P!SavedAsSource, P!Of
<1>4. ASSUME NEW t \in Teacher,
     P!Cancel(t) \/ P!Refuse(t) \/ P!Cleanup(t) \/ P!Install(t) PROVE PresetInv'
  BY <1>4, AnsweringKeeps
<1>5. ASSUME NEW t \in Teacher, P!Confirm(t) PROVE PresetInv'
  BY <1>5, ConfirmKeeps
<1>6. ASSUME NEW t \in Teacher,
        P!CheckSource(t) \/ P!CheckDestination(t) \/ P!MakeDirectory(t) \/ P!Lock(t)
             \/ P!CreateFails(t)
      PROVE PresetInv'
  BY <1>6, CommitMovesKeep
<1>7. ASSUME NEW t \in Teacher, P!Die(t) \/ P!SaveAssignment(t) \/ \E p \in Preset : P!Accept(t, p)
      PROVE PresetInv'
  BY <1>7, OtherMovesKeep
<1>8. ASSUME NEW t \in Teacher, NEW p \in Preset,
        P!PlanFromAssignment(t, p) \/ \E c \in Config : P!PlanCreation(t, p, c)
      PROVE PresetInv'
  BY <1>8, PlanKeeps DEF P!PlanFromAssignment, P!PlanCreation, PresetInv, PresetsTyped
<1> QED
  BY <1>1, <1>2, <1>3, <1>4, <1>5, <1>6, <1>7, <1>8 DEF P!Next

-----------------------------------------------------------------------------
(* The types.                                                              *)

\* A file, and one about to be installed, has its directory; an idle teacher has no
\* plan, one who accepted a preset has the plan that made it.
Laid ==
  /\ \A p \in Preset : file[p] # P!Nothing => directory
  /\ \A t \in Teacher :
       /\ pc[t] = "install" => directory
       /\ pc[t] = "idle" => job[t].plan = 0
       /\ pc[t] = "accepted" => job[t].plan \in P!Planned

(* The directory goes only when it is empty and nobody is installing.      *)
LEMMA DirectoryKept ==
  ASSUME PresetInv, Laid, [P!Next]_(P!vars)
  PROVE  /\ \A p \in Preset : file'[p] # P!Nothing => directory'
         /\ \A t \in Teacher : pc'[t] = "install" => directory'
<1> USE DEF P!Go, P!Answer
<1>0. /\ directory \in BOOLEAN /\ file \in [Preset -> 0 .. P!Damaged] /\ pc \in [Teacher -> P!Steps]
      /\ \A p \in Preset : file[p] # P!Nothing => directory
      /\ \A t \in Teacher : pc[t] = "install" => directory
  BY DEF PresetInv, PresetsTyped, Laid
<1>1. ASSUME NEW t \in Teacher, P!Cleanup(t)
      PROVE  /\ \A p \in Preset : file'[p] # P!Nothing => directory'
             /\ \A u \in Teacher : pc'[u] = "install" => directory'
  <2>1. CASE directory' = directory
    BY <1>0, <1>1, <2>1 DEF P!Cleanup
  <2>2. CASE directory' # directory
    <3>1. P!Empty(t)
      BY <1>0, <1>1, <2>2 DEF P!Cleanup
    <3> QED
      BY <1>0, <1>1, <3>1 DEF P!Cleanup, P!Empty, P!Absent
  <2> QED
    BY <2>1, <2>2
<1>2. ASSUME NEW t \in Teacher, P!Lock(t) \/ P!Install(t) \/ P!MakeDirectory(t)
      PROVE  directory'
  BY <1>0, <1>2 DEF P!Lock, P!Install, P!MakeDirectory
<1>3. ASSUME NEW p \in Preset, P!EditFile(p)
      PROVE  directory'
  BY <1>0, <1>3 DEF P!EditFile
<1>4. ASSUME NEW t \in Teacher,
             \/ P!Cancel(t) \/ P!Confirm(t) \/ P!CheckSource(t) \/ P!CheckDestination(t)
                  \/ P!Refuse(t)
             \/ P!CreateFails(t) \/ P!Die(t) \/ P!SaveAssignment(t)
             \/ \E p \in Preset :
                  P!PlanFromAssignment(t, p) \/ P!Accept(t,
                       p) \/ \E c \in Config : P!PlanCreation(t, p, c)
      PROVE  /\ UNCHANGED <<directory, file>>
             /\ \A u \in Teacher : pc'[u] = "install" => pc[u] = "install"
  BY <1>0, <1>4 DEF P!Cancel, P!Confirm, P!CheckSource, P!CheckDestination, P!Refuse,
       P!CreateFails, P!Die,
       P!SaveAssignment, P!PlanFromAssignment, P!Accept, P!PlanCreation, P!MakePlan
<1>5. CASE P!EditStandards \/ P!EditSource \/ UNCHANGED P!vars
  BY <1>0, <1>5 DEF P!EditStandards, P!EditSource, P!vars
<1>6. ASSUME NEW t \in Teacher,
             \/ P!Cancel(t) \/ P!Confirm(t) \/ P!CheckSource(t) \/ P!CheckDestination(t)
                  \/ P!Refuse(t)
             \/ P!CreateFails(t) \/ P!Die(t) \/ P!SaveAssignment(t)
             \/ \E p \in Preset :
                  P!PlanFromAssignment(t, p) \/ P!Accept(t,
                       p) \/ \E c \in Config : P!PlanCreation(t, p, c)
      PROVE  /\ \A p \in Preset : file'[p] # P!Nothing => directory'
             /\ \A u \in Teacher : pc'[u] = "install" => directory'
  BY <1>0, <1>4, <1>6
<1> QED
  BY <1>1, <1>2, <1>3, <1>5, <1>6 DEF P!Next

(* A plan that is made stays made.                                         *)
LEMMA PlannedGrows ==
  ASSUME PresetInv, [P!Next]_(P!vars)
  PROVE  P!Planned \subseteq P!Planned'
<1> SUFFICES ASSUME NEW n \in P!Number, plans[n].answer # "none"
             PROVE  plans'[n].answer # "none"
  BY DEF P!Planned
<1>1. plans \in [P!Number -> PlanRecord] /\ job \in [Teacher -> Job] /\ plans[n] \in PlanRecord
  BY DEF PresetInv, PresetsTyped
<1>2. ASSUME NEW t \in Teacher, P!Cancel(t) \/ P!Refuse(t) \/ P!Cleanup(t) \/ P!Install(t)
      PROVE  plans'[n].answer # "none"
  <2>1. PICK answer \in {"cancelled", "failed", "saved", "uncertain"} : P!Answer(t, answer)
    BY <1>2 DEF P!Cancel, P!Refuse, P!Cleanup, P!Install
  <2> QED
    BY <1>1, <2>1 DEF P!Answer, PlanRecord
<1>3. ASSUME NEW t \in Teacher, P!Confirm(t) PROVE plans'[n].answer # "none"
  BY <1>1, <1>3 DEF P!Confirm, PlanRecord
<1>4. CASE P!EditSource
  BY <1>1, <1>4 DEF P!EditSource, PlanRecord
<1>5. ASSUME NEW t \in Teacher, NEW p, NEW c, NEW from, P!MakePlan(t, p, c, from)
      PROVE  plans'[n].answer # "none"
  BY <1>1, <1>5 DEF P!MakePlan, P!Plan
<1>6. ASSUME NEW t \in Teacher,
             \/ P!CheckSource(t) \/ P!CheckDestination(t) \/ P!MakeDirectory(t) \/ P!Lock(t)
             \/ P!CreateFails(t) \/ P!Die(t) \/ P!SaveAssignment(t)
                  \/ \E p \in Preset : P!Accept(t, p)
      PROVE  plans' = plans
  BY <1>6 DEF P!CheckSource, P!CheckDestination, P!MakeDirectory, P!Lock, P!CreateFails, P!Die,
       P!SaveAssignment, P!Accept
<1>7. CASE P!EditStandards \/ (\E p \in Preset : P!EditFile(p)) \/ UNCHANGED P!vars
  BY <1>7 DEF P!EditStandards, P!EditFile, P!vars
<1> QED
  BY <1>2, <1>3, <1>4, <1>5, <1>6, <1>7 DEF P!Next, P!PlanFromAssignment, P!PlanCreation

LEMMA LaidKept ==
  ASSUME PresetInv, Laid, [P!Next]_(P!vars)
  PROVE  Laid'
<1> USE DEF P!Go, P!Answer
<1>0. /\ job \in [Teacher -> Job] /\ pc \in [Teacher -> P!Steps] /\ P!NoJob.plan = 0
      /\ \A t \in Teacher :
           /\ pc[t] = "idle" => job[t].plan = 0
           /\ pc[t] = "accepted" => job[t].plan \in P!Planned
      /\ P!Planned \subseteq P!Planned'
  BY PlannedGrows DEF PresetInv, PresetsTyped, Laid, P!NoJob
<1>1. ASSUME NEW t \in Teacher, NEW u \in Teacher,
             \/ P!Cancel(t) \/ P!Confirm(t) \/ P!CheckSource(t) \/ P!CheckDestination(t)
             \/ P!MakeDirectory(t) \/ P!Lock(t) \/ P!Install(t) \/ P!Refuse(t) \/ P!CreateFails(t)
             \/ P!Cleanup(t) \/ P!Die(t) \/ P!SaveAssignment(t)
             \/ \E p \in Preset :
                  P!PlanFromAssignment(t, p) \/ \E c \in Config : P!PlanCreation(t, p, c)
      PROVE  /\ pc'[u] = "idle" => job'[u].plan = 0
             /\ pc'[u] = "accepted" => pc[u] = "accepted" /\ job'[u] = job[u]
  BY <1>0, <1>1 DEF P!Cancel, P!Confirm, P!CheckSource, P!CheckDestination, P!MakeDirectory,
       P!Lock, P!Install,
       P!Refuse, P!CreateFails, P!Cleanup, P!Die, P!SaveAssignment, P!PlanFromAssignment,
            P!PlanCreation, P!MakePlan
<1>2. ASSUME NEW t \in Teacher, NEW p \in Preset, P!Accept(t, p), NEW u \in Teacher
      PROVE  /\ pc'[u] = "idle" => job'[u].plan = 0
             /\ pc'[u] = "accepted" => job'[u].plan \in P!Planned
  <2>1. file[p] \in P!Number
    BY <1>2 DEF P!Accept, P!Choices, P!Inspection, P!Current
  <2>2. file[p] \in P!Planned
    BY <2>1 DEF PresetInv, Uninstalled, P!Planned
  <2>3. [P!NoJob EXCEPT !.plan = file[p], !.preset = p].plan = file[p]
    BY DEF P!NoJob
  <2> QED
    BY <1>0, <1>2, <2>2, <2>3 DEF P!Accept
<1>3. ASSUME NEW u \in Teacher,
             P!EditStandards \/ P!EditSource \/ (\E p \in Preset : P!EditFile(p))
                  \/ UNCHANGED P!vars
      PROVE  pc'[u] = pc[u] /\ job'[u] = job[u]
  BY <1>3 DEF P!EditStandards, P!EditSource, P!EditFile, P!vars
<1>4. ASSUME NEW u \in Teacher
      PROVE  /\ pc'[u] = "idle" => job'[u].plan = 0
             /\ pc'[u] = "accepted" => job'[u].plan \in P!Planned'
  BY <1>0, <1>1, <1>2, <1>3 DEF P!Next
<1> QED
  BY <1>4, DirectoryKept DEF Laid

LEMMA TypesHold ==
  ASSUME PresetInv, Laid
  PROVE  P!TypeOK
<1>1. ASSUME NEW t \in Teacher PROVE job[t].plan \in {0} \cup P!Planned
  <2>1. pc[t] \in {"idle", "accepted"} \cup Committing
    BY DEF PresetInv, PresetsTyped, P!Steps, Committing
  <2>2. pc[t] \in Committing => job[t].plan \in P!Planned
    BY DEF PresetInv, OwnPlan, P!Of, P!Planned
  <2> QED
    BY <2>1, <2>2 DEF Laid
<1> QED
  BY <1>1 DEF P!TypeOK, PresetInv, PresetsTyped, Laid

LEMMA InitLaid == P!Init => Laid
BY DEF P!Init, Laid, P!NoJob

-----------------------------------------------------------------------------
(* Diagnostics: what prunings are about to remove, and who was told.       *)

\* The events ever installed that are as new as e.
NewerOf(e) == {f \in written : f >= e}

\* What a pruning is about to remove is older than Limit installed events.
Pruned(w) ==
  pc[w] \in {"remove", "unlink"} =>
    \A e \in job[w].found : Cardinality(NewerOf(e)) > Limit

\* A pruning unlinks a candidate.
HasCandidate(w) == pc[w] = "unlink" => job[w].found # {}

LogTyped ==
  /\ D!TypeOK
  /\ job \in [Writer -> [event : {0} \cup D!Event, found : SUBSET D!Event]]
  /\ \A w \in Writer : (pc[w] # "idle" => job[w].event \in D!Event) /\ HasCandidate(w)

NewestInv == LogTyped /\ D!NewestAreKept /\ \A w \in Writer : Pruned(w)

-----------------------------------------------------------------------------
(* Facts about the operators.                                              *)

(* The log counts its events as everyone does.                             *)
LEMMA CountsAgree == \A S : D!Cardinality(S) = Cardinality(S)
<1> TAKE S
<1> QED
  BY DEF D!Cardinality, Cardinality

(* Any set of events is finite, and a smaller one has no more elements.    *)
LEMMA EventsFinite ==
  ASSUME MaxEvents \in Nat, NEW S \in SUBSET D!Event, NEW T \in SUBSET S
  PROVE  /\ IsFiniteSet(S) /\ Cardinality(S) \in Nat /\ Cardinality(T) \in Nat
         /\ Cardinality(T) <= Cardinality(S)
<1>1. IsFiniteSet(D!Event)
  BY FS_Interval DEF D!Event
<1>2. IsFiniteSet(S) /\ IsFiniteSet(T) /\ Cardinality(T) <= Cardinality(S)
  BY <1>1, FS_Subset
<1> QED
  BY <1>2, FS_CardinalityType

(* A set of events that is not empty has an oldest.                        *)
LEMMA HasOldest ==
  ASSUME NEW S \in SUBSET D!Event, S # {}
  PROVE  \E e \in S : \A f \in S : e <= f
<1>1. S \subseteq Nat
  BY DEF D!Event
<1>2. PICK e \in S : \A f \in S : ~ (<<f, e>> \in OpToRel(<, Nat))
  BY <1>1, NatLessThanWellFounded, WFMin
<1>3. \A f \in S : ~ (f < e)
  BY <1>1, <1>2 DEF OpToRel
<1> QED
  BY <1>1, <1>3

(* One event of a set is both among those as old and those as new as it.   *)
LEMMA CountsMeet ==
  ASSUME MaxEvents \in Nat, NEW S \in SUBSET D!Event, NEW e \in S
  PROVE  /\ Cardinality(S) \in Nat
         /\ Cardinality({f \in S : f <= e}) \in Nat /\ Cardinality({f \in S : f >= e}) \in Nat
         /\ Cardinality({f \in S : f <= e}) + Cardinality({f \in S : f >= e}) = Cardinality(S) + 1
<1> DEFINE upto == {f \in S : f <= e}
           below == {f \in S : f < e}
           above == {f \in S : f >= e}
<1>1. S \subseteq Nat
  BY DEF D!Event
<1>2. IsFiniteSet(S) /\ IsFiniteSet(below) /\ IsFiniteSet(above)
  <2>1. below \in SUBSET S /\ above \in SUBSET S
    OBVIOUS
  <2> QED
    BY <2>1, EventsFinite, FS_Subset
<1>3. \A f \in S : (f <= e <=> f < e \/ f = e) /\ (f >= e <=> ~ (f < e)) /\ ~ (e < e)
  BY <1>1
<1>4. upto = below \cup {e} /\ e \notin below
  BY <1>3, Zenon
<1>5. S = below \cup above /\ below \cap above = {}
  BY <1>3, Zenon
<1>6. upto = {f \in S : f <= e} /\ above = {f \in S : f >= e}
  OBVIOUS
<1> HIDE DEF upto, below, above
<1>7. Cardinality(below) \in Nat /\ Cardinality(above) \in Nat
  BY <1>2, FS_CardinalityType
<1>8. Cardinality(upto) = Cardinality(below) + 1
  BY <1>2, <1>4, FS_AddElement
<1>9. Cardinality(S) = Cardinality(below) + Cardinality(above) - Cardinality({})
  BY <1>2, <1>5, FS_Union
<1>10. Cardinality({}) = 0
  BY FS_EmptySet
<1>11. /\ Cardinality(S) \in Nat /\ Cardinality(upto) \in Nat /\ Cardinality(above) \in Nat
       /\ Cardinality(upto) + Cardinality(above) = Cardinality(S) + 1
  BY <1>7, <1>8, <1>9, <1>10
<1> QED
  BY <1>6, <1>11

(* The n oldest of a set are older than all but n of it.                   *)
LEMMA OldestAreOld ==
  ASSUME MaxEvents \in Nat, Limit \in Nat, NEW S \in SUBSET D!Event,
         NEW e \in D!Oldest(S, Cardinality(S) - Limit)
  PROVE  Cardinality({f \in S : f >= e}) > Limit
<1> DEFINE upto == Cardinality({f \in S : f <= e})
           above == Cardinality({f \in S : f >= e})
<1>1. e \in S /\ upto <= Cardinality(S) - Limit
  BY CountsAgree DEF D!Oldest
<1>2. /\ Cardinality(S) \in Nat /\ upto \in Nat /\ above \in Nat
      /\ upto + above = Cardinality(S) + 1
  BY <1>1, CountsMeet
<1> HIDE DEF upto, above
<1>3. above > Limit
  BY <1>1, <1>2
<1> QED
  BY <1>3 DEF above

(* Without the oldest of a set over the limit, the limit is kept.          *)
LEMMA OthersAreFew ==
  ASSUME MaxEvents \in Nat, Limit \in Nat, NEW S \in SUBSET D!Event
  PROVE  Cardinality(S \ D!Oldest(S, Cardinality(S) - Limit)) <= Limit
<1> DEFINE n == Cardinality(S) - Limit
           rest == S \ D!Oldest(S, n)
<1>1. CASE rest = {}
  <2>1. Cardinality({}) = 0
    BY FS_EmptySet
  <2> QED
    BY <1>1, <2>1
<1>2. CASE rest # {}
  <2>1. PICK e \in rest : \A f \in rest : e <= f
    BY <1>2, HasOldest
  <2> DEFINE upto == Cardinality({f \in S : f <= e})
             above == Cardinality({f \in S : f >= e})
  <2>2. e \in S /\ ~ (upto <= n)
    BY <2>1, CountsAgree DEF D!Oldest
  <2>3. /\ Cardinality(S) \in Nat /\ upto \in Nat /\ above \in Nat
        /\ upto + above = Cardinality(S) + 1
    BY <2>2, CountsMeet
  <2>4. rest \subseteq {f \in S : f >= e}
    <3>1. rest \subseteq S /\ S \subseteq Nat
      BY DEF D!Event
    <3> QED
      BY <2>1, <3>1
  <2>5. Cardinality(rest) \in Nat /\ Cardinality(rest) <= above
    <3>1. {f \in S : f >= e} \in SUBSET D!Event
      OBVIOUS
    <3> HIDE DEF rest
    <3> QED
      BY <2>4, <3>1, EventsFinite
  <2> HIDE DEF upto, above, rest
  <2>6. Cardinality(rest) <= Limit
    BY <2>2, <2>3, <2>5
  <2> QED
    BY <2>6 DEF rest
<1> QED
  BY <1>1, <1>2

(* The count of newer events only grows.                                   *)
LEMMA NewerGrows ==
  ASSUME MaxEvents \in Nat, written \subseteq written', written' \subseteq D!Event, NEW e
  PROVE  /\ Cardinality(NewerOf(e)) \in Nat /\ Cardinality(NewerOf(e)') \in Nat
         /\ Cardinality(NewerOf(e)) <= Cardinality(NewerOf(e)')
<1>1. NewerOf(e)' \in SUBSET D!Event /\ NewerOf(e) \in SUBSET (NewerOf(e)')
  BY DEF NewerOf
<1> QED
  BY <1>1, EventsFinite

(* The candidate a pruning removes next is one of its candidates.          *)
LEMMA NextIsCandidate ==
  ASSUME LogTyped, NEW w \in Writer, job[w].found # {}
  PROVE  D!NextOldest(w) \in job[w].found
<1>1. job[w].found \in SUBSET D!Event
  BY DEF LogTyped
<1>2. \E e \in job[w].found : \A f \in job[w].found : e <= f
  BY <1>1, HasOldest
<1> QED
  BY <1>2 DEF D!NextOldest

-----------------------------------------------------------------------------
(* The types.                                                              *)

\* What a writer does.
Acts(w) ==
  \/ D!Build(w) \/ D!Create(w) \/ D!CreateUncertain(w) \/ D!CreateFails(w) \/ D!List(w)
  \/ D!Read(w) \/ D!Look(w) \/ D!Unlink(w) \/ D!Degraded(w) \/ D!Recorded(w) \/ D!Die(w)

LEMMA LogStart == D!Init => LogTyped
<1> SUFFICES ASSUME D!Init PROVE LogTyped
  OBVIOUS
<1>1. D!TypeOK
  BY DEF D!Init, D!TypeOK, D!NoJob, D!Outcomes, D!Steps
<1> QED
  BY <1>1 DEF D!Init, LogTyped, HasCandidate, D!NoJob

(* An attempt that ends leaves the writer idle, with nothing to prune.     *)
LEMMA AttemptedTyped ==
  ASSUME LogTyped, NEW w \in Writer, NEW outcome \in D!Outcomes, D!Attempted(w, outcome)
  PROVE  /\ outcomes' \in [D!Event -> D!Outcomes] /\ pc' \in [Writer -> D!Steps]
         /\ job' \in [Writer -> [event : {0} \cup D!Event, found : SUBSET D!Event]]
         /\ \A v \in Writer : (pc'[v] # "idle" => job'[v].event \in D!Event) /\ HasCandidate(v)'
         /\ pc'[w] = "idle" /\ \A v \in Writer \ {w} : pc'[v] = pc[v] /\ job'[v] = job[v]
<1>1. pc' = [pc EXCEPT ![w] = "idle"] /\ job' = [job EXCEPT ![w] = D!NoJob]
  BY DEF D!Attempted, D!Go
<1>2. D!NoJob \in [event : {0} \cup D!Event, found : SUBSET D!Event]
  BY DEF D!NoJob
<1>3. outcomes' \in [D!Event -> D!Outcomes]
  BY DEF D!Attempted, LogTyped, D!TypeOK
<1>4. pc' \in [Writer -> D!Steps]
  BY <1>1 DEF LogTyped, D!TypeOK, D!Steps
<1>5. job' \in [Writer -> [event : {0} \cup D!Event, found : SUBSET D!Event]]
  BY <1>1, <1>2 DEF LogTyped
<1>6. pc'[w] = "idle" /\ \A v \in Writer \ {w} : pc'[v] = pc[v] /\ job'[v] = job[v]
  BY <1>1 DEF LogTyped, D!TypeOK
<1> QED
  BY <1>3, <1>4, <1>5, <1>6 DEF LogTyped, HasCandidate

(* The log gains installed events only, and loses any.                     *)
LEMMA FilesTyped ==
  ASSUME LogTyped, NEW w \in Writer, Acts(w)
  PROVE  /\ log' \subseteq written' /\ written' \subseteq D!Event /\ spoilt' \subseteq log'
         /\ written \subseteq written'
<1> USE DEF LogTyped, D!TypeOK
<1>1. CASE D!Create(w) \/ D!CreateUncertain(w)
  BY <1>1 DEF D!Create, D!CreateUncertain
<1>2. CASE D!Unlink(w)
  BY <1>2 DEF D!Unlink
<1>3. CASE /\ ~ (D!Create(w) \/ D!CreateUncertain(w) \/ D!Unlink(w))
  BY <1>3 DEF Acts, D!Build, D!CreateFails, D!List, D!Read, D!Look, D!Degraded, D!Recorded, D!Die
<1> QED
  BY <1>1, <1>2, <1>3

LEMMA JobsTyped ==
  ASSUME LogTyped, NEW w \in Writer, Acts(w)
  PROVE  /\ outcomes' \in [D!Event -> D!Outcomes] /\ pc' \in [Writer -> D!Steps]
         /\ job' \in [Writer -> [event : {0} \cup D!Event, found : SUBSET D!Event]]
         /\ \A v \in Writer : (pc'[v] # "idle" => job'[v].event \in D!Event) /\ HasCandidate(v)'
         /\ \A v \in Writer \ {w} : pc'[v] = pc[v] /\ job'[v] = job[v]
<1>1. /\ outcomes \in [D!Event -> D!Outcomes] /\ pc \in [Writer -> D!Steps]
      /\ job \in [Writer -> [event : {0} \cup D!Event, found : SUBSET D!Event]]
      /\ \A v \in Writer : (pc[v] # "idle" => job[v].event \in D!Event) /\ HasCandidate(v)
      /\ log \subseteq D!Event
  BY DEF LogTyped, D!TypeOK
<1>2. CASE D!Build(w)
  <2>1. PICK e \in D!Event : /\ outcomes' = [outcomes EXCEPT ![e] = "open"]
                           /\ job' = [job EXCEPT ![w] = [D!NoJob EXCEPT !.event = e]]
    BY <1>2 DEF D!Build
  <2>2. [D!NoJob EXCEPT !.event = e] \in [event : {0} \cup D!Event, found : SUBSET D!Event]
        /\ [D!NoJob EXCEPT !.event = e].event = e
    BY DEF D!NoJob
  <2>3. pc' = [pc EXCEPT ![w] = "create"]
    BY <1>2 DEF D!Build, D!Go
  <2> QED
    BY <1>1, <2>1, <2>2, <2>3 DEF HasCandidate, D!Steps, D!Outcomes
<1>3. CASE D!Create(w)
  BY <1>1, <1>3 DEF D!Create, D!Go, HasCandidate, D!Steps
<1>4. CASE D!CreateUncertain(w) \/ D!CreateFails(w) \/ D!Degraded(w) \/ D!Recorded(w)
  <2>1. \E outcome \in D!Outcomes : D!Attempted(w, outcome)
    BY <1>4 DEF D!CreateUncertain, D!CreateFails, D!Degraded, D!Recorded, D!Outcomes
  <2> QED
    BY <2>1, AttemptedTyped
<1>5. CASE D!List(w)
  BY <1>1, <1>5 DEF D!List, D!Go, HasCandidate, D!Steps
<1>6. CASE D!Read(w)
  <2>1. D!Overflow(w) \in SUBSET D!Event
    BY <1>1 DEF D!Overflow, D!Oldest
  <2> QED
    BY <1>1, <1>6, <2>1 DEF D!Read, D!Go, HasCandidate, D!Steps
<1>7. CASE D!Look(w)
  BY <1>1, <1>7 DEF D!Look, D!Go, HasCandidate, D!Steps
<1>8. CASE D!Unlink(w)
  BY <1>1, <1>8 DEF D!Unlink, D!Go, HasCandidate, D!Steps
<1>9. CASE D!Die(w)
  <2>1. D!NoJob \in [event : {0} \cup D!Event, found : SUBSET D!Event]
    BY DEF D!NoJob
  <2> QED
    BY <1>1, <1>9, <2>1 DEF D!Die, D!Go, HasCandidate, D!Steps
<1> QED
  BY <1>2, <1>3, <1>4, <1>5, <1>6, <1>7, <1>8, <1>9 DEF Acts

LEMMA LogNext ==
  ASSUME LogTyped, [D!Next]_(D!vars)
  PROVE  LogTyped'
<1>1. ASSUME NEW w \in Writer, Acts(w) PROVE LogTyped'
  <2>1. \A v \in Writer : job'[v].event \in {0} \cup D!Event /\ job'[v].found \subseteq D!Event
    BY <1>1, JobsTyped
  <2> QED
    BY <1>1, <2>1, FilesTyped, JobsTyped DEF LogTyped, D!TypeOK
<1>2. ASSUME NEW e \in D!Event, D!Spoil(e) PROVE LogTyped'
  BY <1>2 DEF D!Spoil, D!Valid, LogTyped, D!TypeOK, HasCandidate
<1>3. CASE UNCHANGED D!vars
  BY <1>3 DEF D!vars, LogTyped, D!TypeOK, HasCandidate
<1> QED
  BY <1>1, <1>2, <1>3 DEF D!Next, Acts

-----------------------------------------------------------------------------
(* Prunings take what is over the limit.                                   *)

(* What a pruning decides to remove is old enough, whatever else is        *)
(* removed or damaged between its listing and its reading.                 *)
LEMMA OverflowIsOld ==
  ASSUME MaxEvents \in Nat, Limit \in Nat, LogTyped, NEW w \in Writer, NEW e \in D!Overflow(w)
  PROVE  Cardinality(NewerOf(e)) > Limit
<1> DEFINE candidates == job[w].found \cap D!Valid
<1>1. candidates \in SUBSET D!Event /\ candidates \subseteq written /\ written \in SUBSET D!Event
  BY DEF LogTyped, D!TypeOK, D!Valid
<1>2. e \in D!Oldest(candidates, Cardinality(candidates) - Limit)
  BY CountsAgree DEF D!Overflow
<1> HIDE DEF candidates
<1>3. Cardinality({f \in candidates : f >= e}) > Limit
  BY <1>1, <1>2, OldestAreOld
<1>4. NewerOf(e) \in SUBSET D!Event /\ {f \in candidates : f >= e} \in SUBSET NewerOf(e)
  BY <1>1 DEF NewerOf
<1>5. /\ Cardinality(NewerOf(e)) \in Nat /\ Cardinality({f \in candidates : f >= e}) \in Nat
      /\ Cardinality({f \in candidates : f >= e}) <= Cardinality(NewerOf(e))
  BY <1>4, EventsFinite
<1> QED
  BY <1>3, <1>5

LEMMA PrunedKept ==
  ASSUME MaxEvents \in Nat, Limit \in Nat, NewestInv, NEW w \in Writer, Acts(w),
         NEW v \in Writer
  PROVE  Pruned(v)'
<1>1. \A e : /\ Cardinality(NewerOf(e)) \in Nat /\ Cardinality(NewerOf(e)') \in Nat
             /\ Cardinality(NewerOf(e)) <= Cardinality(NewerOf(e)')
  BY FilesTyped, NewerGrows DEF NewestInv
<1>2. ASSUME pc'[v] \in {"remove",
     "unlink"} => \A e \in job'[v].found : Cardinality(NewerOf(e)) > Limit
      PROVE  Pruned(v)'
  <2> SUFFICES ASSUME pc'[v] \in {"remove", "unlink"}, NEW e \in job'[v].found
               PROVE  Cardinality(NewerOf(e)') > Limit
    BY DEF Pruned, NewerOf
  <2>1. Cardinality(NewerOf(e)) > Limit
    BY <1>2
  <2> QED
    BY <1>1, <2>1
<1>3. CASE v # w
  BY <1>2, <1>3, JobsTyped DEF NewestInv, Pruned
<1>4. CASE v = w /\ D!Read(w)
  <2>1. job'[v].found = D!Overflow(w)
    BY <1>4 DEF D!Read, NewestInv, LogTyped
  <2> QED
    BY <1>2, <2>1, OverflowIsOld DEF NewestInv
<1>5. CASE v = w /\ (D!Look(w) \/ D!Unlink(w))
  <2>1. pc[w] \in {"remove", "unlink"} /\ job'[w].found \subseteq job[w].found
    BY <1>5 DEF D!Look, D!Unlink, NewestInv, LogTyped
  <2> QED
    BY <1>2, <1>5, <2>1 DEF NewestInv, Pruned
<1>6. CASE v = w /\ ~ (D!Read(w) \/ D!Look(w) \/ D!Unlink(w))
  <2>1. pc'[w] \notin {"remove", "unlink"}
    BY <1>6 DEF Acts, D!Build, D!Create, D!CreateUncertain, D!CreateFails, D!List, D!Degraded,
         D!Recorded, D!Die,
       D!Attempted, D!Go, NewestInv, LogTyped, D!TypeOK
  <2> QED
    BY <1>6, <2>1 DEF Pruned
<1> QED
  BY <1>3, <1>4, <1>5, <1>6

LEMMA NewestKept ==
  ASSUME MaxEvents \in Nat, Limit \in Nat, NewestInv, NEW w \in Writer, Acts(w)
  PROVE  D!NewestAreKept'
<1> SUFFICES ASSUME NEW e \in written', Cardinality(NewerOf(e)') <= Limit
             PROVE  e \in log'
  BY CountsAgree DEF D!NewestAreKept, NewerOf
<1>1. /\ Cardinality(NewerOf(e)) \in Nat /\ Cardinality(NewerOf(e)') \in Nat
      /\ Cardinality(NewerOf(e)) <= Cardinality(NewerOf(e)')
  BY FilesTyped, NewerGrows DEF NewestInv
<1>2. e \in written => e \in log
  <2>1. Cardinality(NewerOf(e)) <= Limit
    BY <1>1
  <2> QED
    BY <2>1, CountsAgree DEF NewestInv, D!NewestAreKept, NewerOf
<1>3. CASE D!Create(w) \/ D!CreateUncertain(w)
  BY <1>2, <1>3 DEF D!Create, D!CreateUncertain
<1>4. CASE D!Unlink(w)
  <2>1. written' = written /\ log' = log \ {D!NextOldest(w)}
    BY <1>4 DEF D!Unlink
  <2>2. D!NextOldest(w) \in job[w].found
    BY <1>4, NextIsCandidate DEF D!Unlink, NewestInv, LogTyped, HasCandidate
  <2>3. Cardinality(NewerOf(D!NextOldest(w))) > Limit
    BY <1>4, <2>2 DEF NewestInv, Pruned, D!Unlink
  <2>4. D!NextOldest(w) # e
    BY <1>1, <2>3
  <2> QED
    BY <1>2, <2>1, <2>4
<1>5. CASE ~ (D!Create(w) \/ D!CreateUncertain(w) \/ D!Unlink(w))
  BY <1>2, <1>5 DEF Acts, D!Build, D!CreateFails, D!List, D!Read, D!Look, D!Degraded, D!Recorded,
       D!Die
<1> QED
  BY <1>3, <1>4, <1>5

LEMMA NewestNext ==
  ASSUME MaxEvents \in Nat, Limit \in Nat, NewestInv, [D!Next]_(D!vars)
  PROVE  NewestInv'
<1>1. LogTyped'
  BY LogNext DEF NewestInv
<1>2. ASSUME NEW w \in Writer, Acts(w) PROVE NewestInv'
  BY <1>1, <1>2, PrunedKept, NewestKept DEF NewestInv
<1>3. CASE (\E e \in D!Event : D!Spoil(e)) \/ UNCHANGED D!vars
  BY <1>1, <1>3 DEF D!Spoil, D!vars, NewestInv, D!NewestAreKept, Pruned, NewerOf
<1> QED
  BY <1>2, <1>3 DEF D!Next, Acts

-----------------------------------------------------------------------------
(* A log over its limit is somebody's pruning to come, or was told.        *)

\* A writer at work on an event has it for its own, and nobody was told of it.
Held(w) ==
  pc[w] # "idle" =>
    /\ outcomes[job[w].event] = "open"
    /\ \A v \in Writer : pc[v] # "idle" /\ job[v].event = job[w].event => v = w

\* The event of a writer that died.
Left(e) == outcomes[e] = "open" /\ \A w \in Writer : pc[w] # "idle" => job[w].event # e

Told == \E e \in D!Event : outcomes[e] \in {"degraded", "uncertain"} \/ Left(e)

\* A pruning that will see, or has seen, everything that is over the limit.
Prunes(w) ==
  \/ pc[w] = "list"
  \/ pc[w] = "read" /\ log \subseteq job[w].found
  \/ pc[w] \in {"remove", "unlink"} /\ Cardinality(D!Valid \ job[w].found) <= Limit

Cared == Told \/ Cardinality(D!Valid) <= Limit \/ \E w \in Writer : Prunes(w)

LogKept == Cared /\ \A w \in Writer : Held(w)

LEMMA InitKept ==
  ASSUME MaxEvents \in Nat, Limit \in Nat, D!Init
  PROVE  LogKept
<1>1. Cardinality({}) = 0 /\ D!Valid = {}
  BY FS_EmptySet DEF D!Init, D!Valid
<1> QED
  BY <1>1 DEF D!Init, LogKept, Cared, Held

LEMMA HeldKept ==
  ASSUME LogTyped, \A v \in Writer : Held(v), NEW w \in Writer, Acts(w)
  PROVE  \A v \in Writer : Held(v)'
<1>1. /\ outcomes \in [D!Event -> D!Outcomes] /\ pc \in [Writer -> D!Steps]
      /\ job \in [Writer -> [event : {0} \cup D!Event, found : SUBSET D!Event]]
      /\ \A v \in Writer : pc[v] # "idle" => job[v].event \in D!Event
  BY DEF LogTyped, D!TypeOK
<1>2. CASE D!Build(w)
  <2>1. PICK e \in D!Event : /\ \A f \in D!Event : f < e <=> outcomes[f] # "none"
                           /\ outcomes' = [outcomes EXCEPT ![e] = "open"]
                           /\ job' = [job EXCEPT ![w] = [D!NoJob EXCEPT !.event = e]]
    BY <1>2 DEF D!Build
  <2>2. outcomes[e] = "none"
    <3>1. e \in Nat /\ ~ (e < e)
      BY DEF D!Event
    <3>2. e < e <=> outcomes[e] # "none"
      BY <2>1
    <3> QED
      BY <3>1, <3>2
  <2>3. [D!NoJob EXCEPT !.event = e].event = e
    BY DEF D!NoJob
  <2>4. pc' = [pc EXCEPT ![w] = "create"]
    BY <1>2 DEF D!Build, D!Go
  <2>5. \A v \in Writer : pc[v] # "idle" => job[v].event # e
    BY <2>2 DEF Held
  <2>6. \A f : f # e => outcomes'[f] = outcomes[f] \/ f \notin D!Event
    BY <1>1, <2>1
  <2>7. outcomes'[e] = "open" /\ job'[w].event = e /\ pc[w] = "idle"
    BY <1>1, <1>2, <2>1, <2>3 DEF D!Build
  <2>8. \A v \in Writer \ {w} : pc'[v] = pc[v] /\ job'[v] = job[v]
    BY <1>1, <2>1, <2>4
  <2> QED
    BY <1>1, <2>5, <2>6, <2>7, <2>8 DEF Held
<1>3. CASE pc'[w] = "idle" /\ pc[w] # "idle"
  <2>1. \A f \in D!Event : f # job[w].event => outcomes'[f] = outcomes[f]
    BY <1>1, <1>3 DEF Acts, D!Build, D!Create, D!CreateUncertain, D!CreateFails, D!List, D!Read,
         D!Look, D!Unlink,
       D!Degraded, D!Recorded, D!Die, D!Attempted, D!Go
  <2>2. \A v \in Writer \ {w} : pc'[v] = pc[v] /\ job'[v] = job[v]
    BY JobsTyped
  <2> QED
    BY <1>1, <1>3, <2>1, <2>2 DEF Held
<1>4. CASE D!Create(w) \/ D!List(w) \/ D!Read(w) \/ D!Look(w) \/ D!Unlink(w)
  <2>1. outcomes' = outcomes /\ pc[w] # "idle" /\ job'[w].event = job[w].event
    BY <1>1, <1>4 DEF D!Create, D!List, D!Read, D!Look, D!Unlink
  <2>2. \A v \in Writer \ {w} : pc'[v] = pc[v] /\ job'[v] = job[v]
    BY JobsTyped
  <2> QED
    BY <2>1, <2>2 DEF Held
<1>5. CASE D!CreateUncertain(w) \/ D!CreateFails(w) \/ D!Degraded(w) \/ D!Recorded(w) \/ D!Die(w)
  <2>1. pc'[w] = "idle" /\ pc[w] # "idle"
    BY <1>1, <1>5 DEF D!CreateUncertain, D!CreateFails, D!Degraded, D!Recorded, D!Die,
         D!Attempted, D!Go
  <2> QED
    BY <1>3, <2>1
<1> QED
  BY <1>2, <1>4, <1>5 DEF Acts

(* Who was told stays told, and one that fails or dies is told of.         *)
LEMMA ToldKept ==
  ASSUME LogTyped, \A v \in Writer : Held(v), NEW w \in Writer, Acts(w)
  PROVE  /\ Told => Told'
         /\ D!CreateUncertain(w) \/ D!Degraded(w) \/ D!Die(w) => Told'
<1>1. /\ outcomes \in [D!Event -> D!Outcomes] /\ pc \in [Writer -> D!Steps]
      /\ job \in [Writer -> [event : {0} \cup D!Event, found : SUBSET D!Event]]
      /\ \A v \in Writer : pc[v] # "idle" => job[v].event \in D!Event
      /\ \A v \in Writer \ {w} : pc'[v] = pc[v] /\ job'[v] = job[v]
  BY JobsTyped DEF LogTyped, D!TypeOK
<1>2. ASSUME D!CreateUncertain(w) \/ D!Degraded(w) \/ D!Die(w) PROVE Told'
  <2>1. CASE D!CreateUncertain(w) \/ D!Degraded(w)
    <3>1. job[w].event \in D!Event /\ outcomes'[job[w].event] \in {"degraded", "uncertain"}
      BY <1>1, <2>1 DEF D!CreateUncertain, D!Degraded, D!Attempted
    <3> QED
      BY <3>1 DEF Told
  <2>2. CASE D!Die(w)
    <3>1. pc'[w] = "idle" /\ pc[w] # "idle" /\ outcomes' = outcomes /\ job[w].event \in D!Event
      BY <1>1, <2>2 DEF D!Die, D!Go
    <3>2. PICK e \in D!Event : e = job[w].event
      BY <3>1
    <3>3. outcomes[e] = "open" /\ \A v \in Writer \ {w} : pc[v] # "idle" => job[v].event # e
      BY <3>1, <3>2 DEF Held
    <3>4. Left(e)'
      BY <1>1, <3>1, <3>3 DEF Left
    <3> QED
      BY <3>4 DEF Told
  <2> QED
    BY <1>2, <2>1, <2>2
<1>3. ASSUME NEW e \in D!Event, outcomes[e] \in {"degraded", "uncertain"} \/ Left(e)
      PROVE  outcomes'[e] \in {"degraded", "uncertain"} \/ Left(e)'
  <2>1. CASE D!Build(w)
    <3>1. PICK f \in D!Event : /\ \A g \in D!Event : g < f <=> outcomes[g] # "none"
                             /\ outcomes' = [outcomes EXCEPT ![f] = "open"]
                             /\ job' = [job EXCEPT ![w] = [D!NoJob EXCEPT !.event = f]]
      BY <2>1 DEF D!Build
    <3>2. outcomes[f] = "none"
      <4>1. f \in Nat /\ ~ (f < f)
        BY DEF D!Event
      <4>2. f < f <=> outcomes[f] # "none"
        BY <3>1
      <4> QED
        BY <4>1, <4>2
    <3>3. e # f
      BY <1>3, <3>2 DEF Left
    <3>4. job'[w].event = f
      BY <1>1, <3>1 DEF D!NoJob
    <3> QED
      BY <1>1, <1>3, <3>1, <3>3, <3>4 DEF Left
  <2>2. CASE ~ D!Build(w)
    <3>1. /\ pc[w] # "idle" /\ (pc'[w] = "idle" \/ job'[w].event = job[w].event)
          /\ \A f \in D!Event : f # job[w].event => outcomes'[f] = outcomes[f]
      BY <1>1, <2>2 DEF Acts, D!Create, D!CreateUncertain, D!CreateFails, D!List, D!Read, D!Look,
           D!Unlink,
         D!Degraded, D!Recorded, D!Die, D!Attempted, D!Go
    <3>2. e # job[w].event
      BY <1>3, <3>1 DEF Held, Left
    <3> QED
      BY <1>1, <1>3, <3>1, <3>2 DEF Left
  <2> QED
    BY <2>1, <2>2
<1> QED
  BY <1>2, <1>3 DEF Told

(* The events that load and are not candidates change with the log only.   *)
LEMMA FewerStay ==
  ASSUME MaxEvents \in Nat, Limit \in Nat,
         NEW S \in SUBSET D!Event, NEW T \in SUBSET S, Cardinality(S) <= Limit
  PROVE  Cardinality(T) <= Limit
BY EventsFinite

LEMMA CaredKept ==
  ASSUME MaxEvents \in Nat, Limit \in Nat, LogTyped, LogKept, NEW w \in Writer, Acts(w)
  PROVE  Cared'
<1>1. /\ job \in [Writer -> [event : {0} \cup D!Event, found : SUBSET D!Event]]
      /\ pc \in [Writer -> D!Steps]
      /\ \A v \in Writer \ {w} : pc'[v] = pc[v] /\ job'[v] = job[v]
      /\ D!Valid \in SUBSET D!Event /\ \A v \in Writer : Held(v)
  BY JobsTyped DEF LogTyped, D!TypeOK, LogKept, D!Valid
<1>2. CASE Told \/ D!CreateUncertain(w) \/ D!Degraded(w) \/ D!Die(w)
  BY <1>1, <1>2, ToldKept DEF Cared
<1>3. CASE D!Create(w)
  <2>1. pc'[w] = "list"
    BY <1>1, <1>3 DEF D!Create, D!Go
  <2> QED
    BY <2>1 DEF Cared, Prunes
<1>4. CASE /\ ~ (Told \/ D!CreateUncertain(w) \/ D!Degraded(w) \/ D!Die(w) \/ D!Create(w))
  <2>1. log' \subseteq log /\ D!Valid' \subseteq D!Valid
    BY <1>4 DEF Acts, D!Build, D!CreateFails, D!List, D!Read, D!Look, D!Unlink, D!Recorded, D!Valid
  <2>2. CASE Cardinality(D!Valid) <= Limit
    BY <1>1, <2>1, <2>2, FewerStay DEF Cared
  <2>3. ASSUME NEW v \in Writer \ {w}, Prunes(v) PROVE Cared'
    <3>1. pc'[v] = pc[v] /\ job'[v] = job[v]
      BY <1>1
    <3>2. CASE pc[v] = "list" \/ (pc[v] = "read" /\ log \subseteq job[v].found)
      BY <2>1, <3>1, <3>2 DEF Cared, Prunes
    <3>3. CASE pc[v] \in {"remove", "unlink"} /\ Cardinality(D!Valid \ job[v].found) <= Limit
      <4>1. Cardinality(D!Valid' \ job'[v].found) <= Limit
        BY <1>1, <2>1, <3>1, <3>3, FewerStay
      <4> QED
        BY <3>1, <3>3, <4>1 DEF Cared, Prunes
    <3> QED
      BY <2>3, <3>2, <3>3 DEF Prunes
  <2>4. CASE Prunes(w)
    <3>1. CASE D!List(w)
      <4>1. pc'[w] = "read" /\ log' \subseteq job'[w].found
        BY <1>1, <3>1 DEF D!List, D!Go
      <4> QED
        BY <4>1 DEF Cared, Prunes
    <3>2. CASE D!Read(w)
      <4>1. job[w].found \cap D!Valid = D!Valid
        BY <2>4, <3>2 DEF Prunes, D!Read, D!Valid
      <4>2. job'[w].found = D!Oldest(D!Valid, Cardinality(D!Valid) - Limit) /\ D!Valid' = D!Valid
        BY <1>1, <3>2, <4>1, CountsAgree DEF D!Read, D!Overflow, D!Valid
      <4>3. Cardinality(D!Valid' \ job'[w].found) <= Limit
        BY <1>1, <4>2, OthersAreFew
      <4>4. pc'[w] = "remove"
        BY <1>1, <3>2 DEF D!Read, D!Go
      <4> QED
        BY <4>3, <4>4 DEF Cared, Prunes
    <3>3. CASE D!Look(w)
      <4>1. /\ pc[w] = "remove" /\ pc'[w] = "unlink" /\ job'[w] = job[w] /\ D!Valid' = D!Valid
        BY <1>1, <3>3 DEF D!Look, D!Go, D!Valid
      <4> QED
        BY <2>4, <4>1 DEF Cared, Prunes
    <3>4. CASE D!Unlink(w)
      <4>1. /\ pc[w] = "unlink" /\ pc'[w] = "remove"
            /\ D!Valid' \ job'[w].found \subseteq D!Valid \ job[w].found
        BY <1>1, <3>4 DEF D!Unlink, D!Go, D!Valid
      <4>2. Cardinality(D!Valid' \ job'[w].found) <= Limit
        BY <1>1, <2>4, <4>1, FewerStay DEF Prunes
      <4> QED
        BY <4>1, <4>2 DEF Cared, Prunes
    <3>5. CASE D!Recorded(w)
      <4>1. pc[w] = "remove" /\ job[w].found = {} /\ D!Valid' = D!Valid
        BY <3>5 DEF D!Recorded, D!Valid
      <4>2. D!Valid \ job[w].found = D!Valid
        BY <4>1
      <4> QED
        BY <2>4, <4>1, <4>2 DEF Cared, Prunes
    <3>6. CASE D!Build(w) \/ D!CreateFails(w)
      BY <2>4, <3>6 DEF Prunes, D!Build, D!CreateFails
    <3> QED
      BY <1>4, <3>1, <3>2, <3>3, <3>4, <3>5, <3>6 DEF Acts
  <2> QED
    BY <1>4, <2>2, <2>3, <2>4 DEF LogKept, Cared
<1> QED
  BY <1>2, <1>3, <1>4

LEMMA NextKept ==
  ASSUME MaxEvents \in Nat, Limit \in Nat, LogTyped, LogKept, [D!Next]_(D!vars)
  PROVE  LogKept'
<1>1. ASSUME NEW w \in Writer, Acts(w) PROVE LogKept'
  BY <1>1, CaredKept, HeldKept DEF LogKept
<1>2. ASSUME NEW e \in D!Event, D!Spoil(e) PROVE LogKept'
  <2>1. /\ UNCHANGED <<log, outcomes, pc, job>> /\ D!Valid' \subseteq D!Valid
        /\ D!Valid \in SUBSET D!Event
    BY <1>2 DEF D!Spoil, D!Valid, LogTyped, D!TypeOK
  <2>2. /\ Cardinality(D!Valid) <= Limit => Cardinality(D!Valid') <= Limit
        /\ \A w \in Writer : Cardinality(D!Valid \ job[w].found) <= Limit
                               => Cardinality(D!Valid' \ job[w].found) <= Limit
    BY <2>1, FewerStay
  <2>3. Told' = Told /\ \A w \in Writer : Held(w) => Held(w)'
    BY <2>1 DEF Told, Left, Held
  <2>4. \A w \in Writer : Prunes(w) => Prunes(w)'
    BY <2>1, <2>2 DEF Prunes
  <2> QED
    BY <2>2, <2>3, <2>4 DEF LogKept, Cared
<1>3. CASE UNCHANGED D!vars
  BY <1>3 DEF D!vars, LogKept, Cared, Told, Left, Held, Prunes, D!Valid
<1> QED
  BY <1>1, <1>2, <1>3 DEF D!Next, Acts

LEMMA OverLimitTold ==
  ASSUME MaxEvents \in Nat, Limit \in Nat, LogTyped, LogKept
  PROVE  D!OverLimitIsTold
<1> SUFFICES ASSUME \A w \in Writer : pc[w] = "idle", Cardinality(D!Valid) > Limit
             PROVE  \E e \in D!Event : outcomes[e] \in {"degraded", "uncertain", "open"}
  BY CountsAgree DEF D!OverLimitIsTold
<1>1. ~ (Cardinality(D!Valid) <= Limit)
  <2>1. Cardinality(D!Valid) \in Nat
    BY EventsFinite DEF LogTyped, D!TypeOK, D!Valid
  <2> QED
    BY <2>1
<1>2. Told
  BY <1>1 DEF LogKept, Cared, Prunes
<1> QED
  BY <1>2 DEF Told, Left

-----------------------------------------------------------------------------
(* The three components together: each keeps its own invariant, and the    *)
(* steps of one leave the variables of the others alone.                   *)

MCInv ==
  /\ component = "sharing" => SharingInv
  /\ component = "presets" => PresetInv /\ Laid
  /\ component = "diagnostics" => NewestInv /\ LogKept

LEMMA MCStart == MCInit => MCInv
<1> SUFFICES ASSUME MCInit PROVE MCInv
  OBVIOUS
<1>1. CASE component = "sharing" /\ Init
  BY <1>1, SharingStart DEF MCInv
<1>2. CASE component = "presets" /\ P!Init
  BY <1>2, PresetStart, InitLaid DEF MCInv
<1>3. CASE component = "diagnostics" /\ D!Init
  <2>1. NewestInv
    BY <1>3, LogStart DEF D!Init, NewestInv, D!NewestAreKept, Pruned
  <2> QED
    BY <1>3, <2>1, InitKept, SharingAssumption, MCSharingAssumption DEF MCInv
<1> QED
  BY <1>1, <1>2, <1>3 DEF MCInit

LEMMA MCStep == MCInv /\ [MCNext]_all => MCInv'
<1> SUFFICES ASSUME MCInv, [MCNext]_all PROVE MCInv'
  OBVIOUS
<1>1. component' = component
  BY DEF MCNext, all
<1>2. CASE component = "sharing"
  <2>1. Next \/ UNCHANGED vars
    BY <1>2 DEF MCNext, all
  <2>2. SharingInv'
    <3>1. CASE Next
      BY <1>2, <3>1, SharingNext DEF MCInv
    <3>2. CASE UNCHANGED vars
      BY <1>2, <3>2 DEF MCInv, vars, SharingInv, Stored, Rising, Desks, Confirmed
    <3> QED
      BY <2>1, <3>1, <3>2
  <2> QED
    BY <1>1, <1>2, <2>2 DEF MCInv
<1>3. CASE component = "presets"
  <2>1. [P!Next]_(P!vars)
    BY <1>3 DEF MCNext, all, P!vars, presets
  <2>2. PresetInv' /\ Laid'
    BY <1>3, <2>1, PresetNext, LaidKept DEF MCInv
  <2> QED
    BY <1>1, <1>3, <2>2 DEF MCInv
<1>4. CASE component = "diagnostics"
  <2>1. [D!Next]_(D!vars)
    BY <1>4 DEF MCNext, all, D!vars, diagnostics
  <2>2. NewestInv' /\ LogKept'
    BY <1>4, <2>1, NewestNext, NextKept, SharingAssumption, MCSharingAssumption
       DEF MCInv, NewestInv
  <2> QED
    BY <1>1, <1>4, <2>2 DEF MCInv
<1>5. CASE component \notin {"sharing", "presets", "diagnostics"}
  BY <1>1, <1>5 DEF MCInv
<1> QED
  BY <1>2, <1>3, <1>4, <1>5

LEMMA MCAlways == MCSpec => []MCInv
<1>1. MCInit => MCInv
  BY MCStart
<1>2. MCInv /\ [MCNext]_all => MCInv'
  BY MCStep
<1> QED
  BY <1>1, <1>2, PTL DEF MCSpec

(* The variables of each component keep their types: what is published names *)
(* what exists, a preset's file has its directory, and the log holds what    *)
(* was installed.                                                            *)
THEOREM TypeCorrect == MCSpec => []MCTypeOK
<1>1. MCInv => MCTypeOK
  <2> SUFFICES ASSUME MCInv PROVE MCTypeOK
    OBVIOUS
  <2>1. component = "sharing" => TypeOK
    BY SharingShows DEF MCInv
  <2>2. component = "presets" => P!TypeOK
    BY TypesHold DEF MCInv
  <2>3. component = "diagnostics" => D!TypeOK
    BY DEF MCInv, NewestInv, LogTyped
  <2> QED
    BY <2>1, <2>2, <2>3 DEF MCTypeOK
<1> QED
  BY <1>1, MCAlways, PTL

(* What a teacher confirmed, or was told, is so: what is shared through the  *)
(* guided menu is what its last preview showed; a preset that was saved      *)
(* stands and shows its assignment, one that failed left nothing; prunings   *)
(* that overlap keep the newest events, and the log is over its limit only   *)
(* where a writer was told.                                                  *)
THEOREM DoneAsTold == MCSpec => []DoneAsToldOf
<1>1. MCInv => DoneAsToldOf
  <2> SUFFICES ASSUME MCInv PROVE DoneAsToldOf
    OBVIOUS
  <2>1. component = "sharing" => SharedAsConfirmed
    BY SharingShows DEF MCInv
  <2>2. component = "presets" => P!SavedStands /\ P!FailedLeavesNothing /\ P!SavedAsSource
    BY DEF MCInv, PresetInv, Uninstalled, P!FailedLeavesNothing
  <2>3. component = "diagnostics" => D!NewestAreKept /\ D!OverLimitIsTold
    BY OverLimitTold, SharingAssumption, MCSharingAssumption DEF MCInv, NewestInv
  <2> QED
    BY <2>1, <2>2, <2>3 DEF DoneAsToldOf
<1> QED
  BY <1>1, MCAlways, PTL
=============================================================================
