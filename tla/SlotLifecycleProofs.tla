------------------------ MODULE SlotLifecycleProofs -------------------------
(***************************************************************************)
(* Theorems about SlotLifecycle, for every number of slots, requests and   *)
(* indications.  RefsAccounted is not inductive: the objects of a slot     *)
(* that has none must be shown to have no holders, and an answer to remove *)
(* at most one request, which takes that serials are used once.            *)
(***************************************************************************)
EXTENDS SlotLifecycle, FiniteSetTheorems, TLAPS

(***************************************************************************)
(* The inductive invariant, a part for each concern.                       *)
(***************************************************************************)
(* The slot was made with its objects. *)
Made(g) == refs[g] # NoRefs

Pending(g, o) == {r \in pending : r.gen = g /\ r.obj = o}

(* What is held of a slot that has no objects. *)
SlotsMade ==
  \A g \in Gen :
    /\ slot[g] = "none" => ~Made(g)
    /\ ~Made(g) => /\ ~slotIms[g] /\ ofono[g] = {} /\ dials[g] = 0
                   /\ \A r \in pending : r.gen # g

(* The references of one slot; its MtkImsCall and MtkImsSms never go, so   *)
(* the MtkRadioExt has the slot's reference, theirs and that of the MtkIms.*)
CountedAt(g) ==
  /\ refs[g]["ims"] = (IF slotIms[g] THEN 1 ELSE 0) + Held(g, "ims")
                        + Cardinality(Pending(g, "ims"))
  /\ refs[g]["call"] = 1 + Held(g, "call") + dials[g]
  /\ refs[g]["sms"] = 1 + Held(g, "sms")
  /\ refs[g]["ext"] = 3 + (IF refs[g]["ims"] > 0 THEN 1 ELSE 0)

Counted ==
  /\ IsFiniteSet(pending)
  /\ \A g \in Gen : Made(g) => CountedAt(g)

Targets ==
  /\ \A m \in mail : Made(m.to)
  /\ \A i \in Callbacks : subscriber[i] # 0 => Made(subscriber[i])

(* The requests the plugin, the service or an answer on its way know of.   *)
Known == pending \cup atModem \cup {m.request : m \in {n \in mail : n.kind = "answer"}}

SerialsOnce ==
  /\ \A r \in Known : r.serial <= lastId
  /\ \A r, s \in Known : r.serial = s.serial => r = s

IInv == TypeOK /\ SlotsMade /\ Counted /\ Targets /\ SerialsOnce /\ StrandedOnlyByTakeover

(***************************************************************************)
(* Counting.                                                               *)
(***************************************************************************)
LEMMA PendingFinite ==
  ASSUME IsFiniteSet(pending), NEW g, NEW o
  PROVE  IsFiniteSet(Pending(g, o)) /\ Cardinality(Pending(g, o)) \in Nat
<1>1. Pending(g, o) \subseteq pending
  BY DEF Pending
<1> QED BY <1>1, FS_Subset, FS_CardinalityType

(* A request more, and one less. *)
LEMMA PendingAdded ==
  ASSUME IsFiniteSet(pending), NEW r, r \notin pending, pending' = pending \cup {r}
  PROVE  /\ IsFiniteSet(pending')
         /\ \A g, o : Cardinality(Pending(g, o)') =
              Cardinality(Pending(g, o)) + (IF r.gen = g /\ r.obj = o THEN 1 ELSE 0)
<1>1. IsFiniteSet(pending')
  BY FS_AddElement
<1>2. ASSUME NEW g, NEW o
      PROVE  Cardinality(Pending(g, o)') =
               Cardinality(Pending(g, o)) + (IF r.gen = g /\ r.obj = o THEN 1 ELSE 0)
  <2>1. IsFiniteSet(Pending(g, o)) /\ Cardinality(Pending(g, o)) \in Nat
    BY PendingFinite
  <2>2. CASE r.gen = g /\ r.obj = o
    <3>1. Pending(g, o)' = Pending(g, o) \cup {r} /\ r \notin Pending(g, o)
      BY <2>2 DEF Pending
    <3> QED BY <2>1, <2>2, <3>1, FS_AddElement
  <2>3. CASE ~(r.gen = g /\ r.obj = o)
    <3>1. Pending(g, o)' = Pending(g, o)
      BY <2>3 DEF Pending
    <3> QED BY <2>1, <2>3, <3>1
  <2> QED BY <2>2, <2>3
<1> QED BY <1>1, <1>2

LEMMA PendingRemoved ==
  ASSUME IsFiniteSet(pending), NEW r \in pending, pending' = pending \ {r}
  PROVE  /\ IsFiniteSet(pending')
         /\ Cardinality(Pending(r.gen, r.obj)) >= 1
         /\ \A g, o : Cardinality(Pending(g, o)') =
              Cardinality(Pending(g, o)) - (IF r.gen = g /\ r.obj = o THEN 1 ELSE 0)
<1>1. IsFiniteSet(pending')
  BY FS_RemoveElement
<1>2. ASSUME NEW g, NEW o
      PROVE  /\ Cardinality(Pending(g, o)') =
                  Cardinality(Pending(g, o)) - (IF r.gen = g /\ r.obj = o THEN 1 ELSE 0)
             /\ r.gen = g /\ r.obj = o => Cardinality(Pending(g, o)) >= 1
  <2>1. IsFiniteSet(Pending(g, o)) /\ Cardinality(Pending(g, o)) \in Nat
    BY PendingFinite
  <2>2. CASE r.gen = g /\ r.obj = o
    <3>1. Pending(g, o)' = Pending(g, o) \ {r} /\ r \in Pending(g, o)
      BY <2>2 DEF Pending
    <3>2. /\ IsFiniteSet(Pending(g, o) \ {r})
          /\ Cardinality(Pending(g, o) \ {r}) = Cardinality(Pending(g, o)) - 1
      BY <2>1, <3>1, FS_RemoveElement
    <3>3. Cardinality(Pending(g, o) \ {r}) \in Nat
      BY <3>2, FS_CardinalityType
    <3> QED BY <2>1, <2>2, <3>1, <3>2, <3>3
  <2>3. CASE ~(r.gen = g /\ r.obj = o)
    <3>1. Pending(g, o)' = Pending(g, o)
      BY <2>3 DEF Pending
    <3> QED BY <2>1, <2>3, <3>1
  <2> QED BY <2>2, <2>3
<1> QED BY <1>1, <1>2

(* What CountedAt says of the counts themselves. *)
LEMMA CountedFacts ==
  ASSUME TypeOK, Counted, NEW g \in Gen, Made(g)
  PROVE  /\ refs[g] \in Refs /\ CountedAt(g)
         /\ refs[g]["call"] >= 1 /\ refs[g]["sms"] >= 1 /\ refs[g]["ext"] >= 3
         /\ slotIms[g] => refs[g]["ims"] >= 1
         /\ \A o \in ofono[g] : refs[g][o] >= (IF o = "ims" THEN 1 ELSE 2)
         /\ dials[g] \in Nat /\ refs[g]["call"] >= 1 + dials[g]
<1>1. refs[g] \in Refs /\ CountedAt(g) /\ slotIms[g] \in BOOLEAN /\ ofono[g] \subseteq Obj
  BY DEF TypeOK, Counted
<1>2. Cardinality(Pending(g, "ims")) \in Nat
  BY PendingFinite DEF Counted
<1>3. dials[g] \in Nat
  BY BoundAssumption DEF TypeOK, BoundAssumption
<1> QED BY <1>1, <1>2, <1>3 DEF CountedAt, Held, Obj

(* Only the MtkIms may lose its last reference; it gives back the one it   *)
(* has to the MtkRadioExt.                                                 *)
LEMMA UnrefSound ==
  ASSUME NEW r \in Refs, NEW o \in Obj, r[o] >= 1, o # "ims" => r[o] >= 2,
         r["ext"] = 3 + (IF r["ims"] > 0 THEN 1 ELSE 0)
  PROVE  /\ Unref(r, o) \in Refs
         /\ Unref(r, o)[o] = r[o] - 1
         /\ \A p \in Obj \ {o} : Unref(r, o)[p] = r[p]
         /\ Unref(r, o)["ext"] = 3 + (IF Unref(r, o)["ims"] > 0 THEN 1 ELSE 0)
<1> DEFINE less == [r EXCEPT ![o] = @ - 1]
<1>1. /\ less \in Refs /\ less[o] = r[o] - 1 /\ less["ext"] = r["ext"]
      /\ \A p \in Obj \ {o} : less[p] = r[p]
  BY DEF Refs, Obj
<1>2. Unref(r, o) = IF o # "ext" /\ less[o] = 0 THEN [less EXCEPT !["ext"] = @ - 1] ELSE less
  BY DEF Unref
<1> HIDE DEF less
<1>3. CASE less[o] = 0
  <2>1. o = "ims" /\ o # "ext" /\ less["ext"] = 4
    BY <1>1, <1>3 DEF Obj, Refs
  <2>2. Unref(r, o) = [less EXCEPT !["ext"] = 3]
    BY <1>2, <1>3, <2>1
  <2> QED BY <1>1, <1>3, <2>1, <2>2 DEF Refs, Obj
<1>4. CASE less[o] # 0
  <2>1. Unref(r, o) = less
    BY <1>2, <1>4
  <2>2. r["ims"] > 0 <=> less["ims"] > 0
    BY <1>1, <1>4 DEF Refs, Obj
  <2> QED BY <1>1, <2>1, <2>2
<1> QED BY <1>3, <1>4

(* A step that changes the references of one slot. *)
LEMMA OneSlotCounted ==
  ASSUME TypeOK, Counted, NEW g \in Gen, NEW r \in Refs, Made(g),
         refs' = [refs EXCEPT ![g] = r],
         IsFiniteSet(pending'),
         r["ims"] = (IF slotIms'[g] THEN 1 ELSE 0) + Held(g, "ims")'
                      + Cardinality(Pending(g, "ims")'),
         r["call"] = 1 + Held(g, "call")' + dials'[g], dials'[g] \in Nat,
         r["sms"] = 1 + Held(g, "sms")',
         r["ext"] = 3 + (IF r["ims"] > 0 THEN 1 ELSE 0),
         \A h \in Gen \ {g} : /\ slotIms'[h] = slotIms[h] /\ ofono'[h] = ofono[h]
                              /\ dials'[h] = dials[h],
         \A h \in Gen \ {g}, o \in Obj : Cardinality(Pending(h, o)') = Cardinality(Pending(h, o))
  PROVE  /\ refs' \in [Gen -> Refs] /\ Counted'
         /\ \A h \in Gen : Made(h) <=> Made(h)'
<1>1. refs' \in [Gen -> Refs] /\ refs'[g] = r /\ \A h \in Gen \ {g} : refs'[h] = refs[h]
  BY DEF TypeOK
<1>2. CountedAt(g)'
  BY <1>1 DEF CountedAt
<1>3. r["call"] # 0
  BY DEF Held
<1>4. Made(g)'
  BY <1>1, <1>3 DEF Made, NoRefs
<1>5. ASSUME NEW h \in Gen, h # g PROVE Made(h)' <=> Made(h)
  BY <1>1, <1>5 DEF Made, NoRefs
<1>6. ASSUME NEW h \in Gen, h # g, CountedAt(h) PROVE CountedAt(h)'
  <2>1. /\ refs'[h] = refs[h] /\ slotIms'[h] = slotIms[h] /\ ofono'[h] = ofono[h]
        /\ dials'[h] = dials[h]
        /\ Cardinality(Pending(h, "ims")') = Cardinality(Pending(h, "ims"))
    BY <1>1, <1>6 DEF Obj
  <2> QED BY <1>6, <2>1 DEF CountedAt, Held
<1> QED BY <1>1, <1>2, <1>4, <1>5, <1>6 DEF Counted

(* A step that leaves the references alone. *)
LEMMA SameRefs ==
  ASSUME Counted, UNCHANGED <<refs, slotIms, ofono, dials, pending>>
  PROVE  Counted' /\ \A h \in Gen : Made(h) <=> Made(h)'
<1>1. ASSUME NEW h \in Gen PROVE Made(h) <=> Made(h)'
  BY DEF Made, NoRefs
<1>2. ASSUME NEW h \in Gen PROVE CountedAt(h) <=> CountedAt(h)'
  BY DEF CountedAt, Held, Pending
<1> QED BY <1>1, <1>2 DEF Counted

(***************************************************************************)
(* The steps that change references.                                       *)
(***************************************************************************)
RefsSound ==
  refs \in [Gen -> Refs] /\ slotIms \in [Gen -> BOOLEAN] /\ Counted

LEMMA NewSlotRefs ==
  ASSUME IInv, NEW g \in Gen, NewSlot(g)
  PROVE  /\ RefsSound' /\ \A h \in Gen : Made(h) => Made(h)'
         /\ subscriber' # subscriber => Made(g)'
         /\ slotIms'[g] => Made(g)'
<1> USE DEF IInv
<1>1. UNCHANGED <<ofono, dials, pending>> /\ ~Made(g) /\ ~slotIms[g] /\ ofono[g] = {}
      /\ dials[g] = 0 /\ \A r \in pending : r.gen # g
  BY DEF NewSlot, SlotsMade
<1>2. CASE UNCHANGED <<subscriber, refs, slotIms>>
  BY <1>1, <1>2, SameRefs DEF RefsSound, TypeOK
<1>3. CASE /\ refs' = [refs EXCEPT ![g] = [ims |-> 1, call |-> 1, sms |-> 1, ext |-> 4]]
           /\ slotIms' = [slotIms EXCEPT ![g] = TRUE]
  <2>1. /\ refs' \in [Gen -> Refs] /\ slotIms' \in [Gen -> BOOLEAN] /\ slotIms'[g] = TRUE
        /\ refs'[g] = [ims |-> 1, call |-> 1, sms |-> 1, ext |-> 4]
        /\ \A h \in Gen \ {g} : refs'[h] = refs[h] /\ slotIms'[h] = slotIms[h]
    BY <1>3 DEF TypeOK, Refs, Obj
  <2>2. Made(g)' /\ \A h \in Gen \ {g} : Made(h)' <=> Made(h)
    BY <2>1 DEF Made, NoRefs, Obj
  <2>3. Pending(g, "ims") = {}
    BY <1>1 DEF Pending
  <2>4. CountedAt(g)'
    <3>1. Cardinality(Pending(g, "ims")') = 0
      BY <1>1, <2>3, FS_EmptySet DEF Pending
    <3> QED BY <1>1, <2>1, <3>1 DEF CountedAt, Held
  <2>5. ASSUME NEW h \in Gen, h # g PROVE CountedAt(h) <=> CountedAt(h)'
    BY <1>1, <2>1, <2>5 DEF CountedAt, Held, Pending
  <2>6. Counted'
    BY <1>1, <2>2, <2>4, <2>5 DEF Counted
  <2> QED BY <2>1, <2>2, <2>6 DEF RefsSound
<1> QED BY <1>1, <1>2, <1>3 DEF NewSlot

LEMMA TakeInterfaceRefs ==
  ASSUME IInv, NEW g \in Gen, NEW o \in Obj, TakeInterface(g, o)
  PROVE  RefsSound' /\ Made(g) /\ \A h \in Gen : Made(h) <=> Made(h)'
<1> USE DEF IInv
<1>1. /\ refs' = [refs EXCEPT ![g][o] = @ + 1] /\ ofono' = [ofono EXCEPT ![g] = @ \cup {o}]
      /\ o \notin ofono[g] /\ refs[g][o] > 0 /\ UNCHANGED <<slotIms, dials, pending>>
  BY DEF TakeInterface
<1>2. Made(g)
  BY <1>1 DEF Made, NoRefs, Obj
<1>3. refs[g] \in Refs /\ CountedAt(g)
  BY <1>2, CountedFacts
<1> DEFINE r == [refs[g] EXCEPT ![o] = @ + 1]
<1>4. /\ r \in Refs /\ r[o] = refs[g][o] + 1
      /\ \A p \in (Obj \cup {"ext"}) \ {o} : r[p] = refs[g][p]
  BY <1>3 DEF Refs
<1>5. refs' = [refs EXCEPT ![g] = r]
  BY <1>1 DEF TypeOK
<1>6. /\ \A h \in Gen \ {g} : /\ slotIms'[h] = slotIms[h] /\ ofono'[h] = ofono[h]
                              /\ dials'[h] = dials[h]
      /\ ofono'[g] = ofono[g] \cup {o} /\ slotIms'[g] = slotIms[g]
  BY <1>1 DEF TypeOK
<1>7. \A h, p : Pending(h, p)' = Pending(h, p)
  BY <1>1 DEF Pending
<1>8. /\ Held(g, o)' = Held(g, o) + 1
      /\ \A p \in Obj \ {o} : Held(g, p)' = Held(g, p)
  BY <1>1, <1>6 DEF Held
<1> HIDE DEF r
<1>9. Cardinality(Pending(g, "ims")) \in Nat /\ dials'[g] = dials[g] /\ dials[g] \in Nat
  BY <1>1, <1>2, CountedFacts, PendingFinite DEF Counted
<1>10. /\ Held(g, "ims") \in 0 .. 1 /\ Held(g, "call") \in 0 .. 1 /\ Held(g, "sms") \in 0 .. 1
  BY DEF Held
<1>11. o # "ext" /\ o \in {"ims", "call", "sms"}
  BY DEF Obj
<1>12. /\ r["ims"] = (IF slotIms'[g] THEN 1 ELSE 0) + Held(g, "ims")'
                      + Cardinality(Pending(g, "ims")')
       /\ r["call"] = 1 + Held(g, "call")' + dials'[g]
       /\ r["sms"] = 1 + Held(g, "sms")'
       /\ r["ext"] = 3 + (IF r["ims"] > 0 THEN 1 ELSE 0)
  <2>1. /\ refs[g]["ims"] \in Nat /\ refs[g]["ext"] = 3 + (IF refs[g]["ims"] > 0 THEN 1 ELSE 0)
        /\ r["ext"] = refs[g]["ext"] /\ (refs[g]["ims"] > 0 <=> r["ims"] > 0)
    BY <1>1, <1>3, <1>4, <1>11 DEF CountedAt, Refs, Obj
  <2>2. r["ims"] = (IF slotIms'[g] THEN 1 ELSE 0) + Held(g, "ims")'
                      + Cardinality(Pending(g, "ims")')
    BY <1>3, <1>4, <1>6, <1>7, <1>8, <1>9, <1>10, <1>11 DEF CountedAt, Obj
  <2>3. r["call"] = 1 + Held(g, "call")' + dials'[g]
    BY <1>3, <1>4, <1>8, <1>9, <1>10, <1>11 DEF CountedAt, Obj
  <2>4. r["sms"] = 1 + Held(g, "sms")'
    BY <1>3, <1>4, <1>8, <1>10, <1>11 DEF CountedAt, Obj
  <2> QED BY <2>1, <2>2, <2>3, <2>4
<1>13. IsFiniteSet(pending')
  BY <1>1 DEF Counted
<1>14. refs' \in [Gen -> Refs] /\ Counted' /\ \A h \in Gen : Made(h) <=> Made(h)'
  BY <1>2, <1>4, <1>5, <1>6, <1>7, <1>9, <1>12, <1>13, OneSlotCounted
<1> QED BY <1>1, <1>2, <1>14 DEF RefsSound, TypeOK

LEMMA DropInterfaceRefs ==
  ASSUME IInv, NEW g \in Gen, NEW o \in Obj, DropInterface(g, o)
  PROVE  RefsSound' /\ Made(g) /\ \A h \in Gen : Made(h) <=> Made(h)'
<1> USE DEF IInv
<1>1. /\ refs' = [refs EXCEPT ![g] = Unref(@, o)] /\ ofono' = [ofono EXCEPT ![g] = @ \ {o}]
      /\ o \in ofono[g] /\ UNCHANGED <<slotIms, dials, pending>>
  BY DEF DropInterface
<1>2. Made(g)
  BY <1>1 DEF SlotsMade
<1>3. /\ refs[g] \in Refs /\ CountedAt(g) /\ refs[g][o] >= 1 /\ (o # "ims" => refs[g][o] >= 2)
      /\ refs[g]["ext"] = 3 + (IF refs[g]["ims"] > 0 THEN 1 ELSE 0)
  BY <1>1, <1>2, CountedFacts DEF CountedAt, Refs, Obj
<1> DEFINE r == Unref(refs[g], o)
<1>4. /\ r \in Refs /\ r[o] = refs[g][o] - 1 /\ \A p \in Obj \ {o} : r[p] = refs[g][p]
      /\ r["ext"] = 3 + (IF r["ims"] > 0 THEN 1 ELSE 0)
  BY <1>3, UnrefSound
<1>5. refs' = [refs EXCEPT ![g] = r]
  BY <1>1 DEF TypeOK
<1>6. /\ \A h \in Gen \ {g} : /\ slotIms'[h] = slotIms[h] /\ ofono'[h] = ofono[h]
                              /\ dials'[h] = dials[h]
      /\ ofono'[g] = ofono[g] \ {o} /\ slotIms'[g] = slotIms[g]
  BY <1>1 DEF TypeOK
<1>7. \A h, p : Pending(h, p)' = Pending(h, p)
  BY <1>1 DEF Pending
<1>8. /\ Held(g, o)' = Held(g, o) - 1
      /\ \A p \in Obj \ {o} : Held(g, p)' = Held(g, p)
  BY <1>1, <1>6 DEF Held
<1> HIDE DEF r
<1>9. Cardinality(Pending(g, "ims")) \in Nat /\ dials'[g] = dials[g] /\ dials[g] \in Nat
  BY <1>1, <1>2, CountedFacts, PendingFinite DEF Counted
<1>10. /\ Held(g, "ims") \in 0 .. 1 /\ Held(g, "call") \in 0 .. 1 /\ Held(g, "sms") \in 0 .. 1
  BY DEF Held
<1>11. r["ims"] = (IF slotIms'[g] THEN 1 ELSE 0) + Held(g, "ims")'
                     + Cardinality(Pending(g, "ims")')
  BY <1>3, <1>4, <1>6, <1>7, <1>8, <1>9, <1>10 DEF CountedAt, Obj
<1>12. r["call"] = 1 + Held(g, "call")' + dials'[g]
  BY <1>3, <1>4, <1>8, <1>9, <1>10 DEF CountedAt, Obj
<1>13. r["sms"] = 1 + Held(g, "sms")'
  BY <1>3, <1>4, <1>8, <1>10 DEF CountedAt, Obj
<1>14. IsFiniteSet(pending')
  BY <1>1 DEF Counted
<1>15. refs' \in [Gen -> Refs] /\ Counted' /\ \A h \in Gen : Made(h) <=> Made(h)'
  BY <1>2, <1>4, <1>5, <1>6, <1>7, <1>9, <1>11, <1>12, <1>13, <1>14, OneSlotCounted
<1> QED BY <1>1, <1>2, <1>15 DEF RefsSound, TypeOK

LEMMA TerminateRefs ==
  ASSUME IInv, NEW g \in Gen, Terminate(g), UNCHANGED <<ofono, dials, pending>>
  PROVE  RefsSound' /\ \A h \in Gen : Made(h) <=> Made(h)'
<1> USE DEF IInv
<1>1. slotIms' = [slotIms EXCEPT ![g] = FALSE] /\ slotIms[g] \in BOOLEAN
  BY DEF Terminate, TypeOK
<1>2. CASE ~slotIms[g]
  <2>1. slotIms' = slotIms /\ refs' = refs
    BY <1>1, <1>2 DEF Terminate, TypeOK
  <2> QED BY <2>1, SameRefs DEF RefsSound, TypeOK
<1>3. CASE slotIms[g]
  <2>1. refs' = [refs EXCEPT ![g] = Unref(@, "ims")] /\ Made(g)
    BY <1>3 DEF Terminate, SlotsMade
  <2>2. /\ refs[g] \in Refs /\ CountedAt(g) /\ refs[g]["ims"] >= 1
        /\ refs[g]["ext"] = 3 + (IF refs[g]["ims"] > 0 THEN 1 ELSE 0)
    BY <1>3, <2>1, CountedFacts DEF CountedAt
  <2> DEFINE r == Unref(refs[g], "ims")
  <2>3. /\ r \in Refs /\ r["ims"] = refs[g]["ims"] - 1
        /\ \A p \in Obj \ {"ims"} : r[p] = refs[g][p]
        /\ r["ext"] = 3 + (IF r["ims"] > 0 THEN 1 ELSE 0)
    BY <2>2, UnrefSound DEF Obj
  <2>4. refs' = [refs EXCEPT ![g] = r]
    BY <2>1 DEF TypeOK
  <2>5. /\ \A h \in Gen \ {g} : /\ slotIms'[h] = slotIms[h] /\ ofono'[h] = ofono[h]
                                /\ dials'[h] = dials[h]
        /\ slotIms'[g] = FALSE
    BY <1>1 DEF TypeOK
  <2>6. /\ \A h, p : Pending(h, p)' = Pending(h, p)
        /\ \A h, p : Held(h, p)' = Held(h, p)
    BY DEF Pending, Held
  <2> HIDE DEF r
  <2>7. /\ Cardinality(Pending(g, "ims")) \in Nat /\ Held(g, "ims") \in 0 .. 1
        /\ dials'[g] = dials[g] /\ dials[g] \in Nat
    BY <2>1, CountedFacts, PendingFinite DEF Counted, Held
  <2>8. r["ims"] = (IF slotIms'[g] THEN 1 ELSE 0) + Held(g, "ims")'
                     + Cardinality(Pending(g, "ims")')
    BY <1>3, <2>2, <2>3, <2>5, <2>6, <2>7 DEF CountedAt
  <2>9. /\ r["call"] = 1 + Held(g, "call")' + dials'[g]
        /\ r["sms"] = 1 + Held(g, "sms")'
    BY <2>2, <2>3, <2>6, <2>7 DEF CountedAt, Obj
  <2>10. IsFiniteSet(pending')
    BY DEF Counted
  <2>11. refs' \in [Gen -> Refs] /\ Counted' /\ \A h \in Gen : Made(h) <=> Made(h)'
    BY <2>1, <2>3, <2>4, <2>5, <2>6, <2>7, <2>8, <2>9, <2>10, OneSlotCounted
  <2> QED BY <1>1, <2>11 DEF RefsSound, TypeOK
<1> QED BY <1>1, <1>2, <1>3

LEMMA SubmitRefs ==
  ASSUME IInv, NEW g \in Gen, NEW o \in Obj, Submit(g, o)
  PROVE  /\ RefsSound' /\ Made(g) /\ \A h \in Gen : Made(h) <=> Made(h)'
         /\ \E r \in Request : /\ r = [serial |-> lastId + 1, gen |-> g, obj |-> o]
                               /\ r \notin Known
                               /\ pending' = pending \cup {r} /\ atModem' = atModem \cup {r}
<1> USE DEF IInv
<1> DEFINE n == [serial |-> lastId + 1, gen |-> g, obj |-> o]
<1>1. /\ refs' = IF o = "ims" THEN [refs EXCEPT ![g]["ims"] = @ + 1] ELSE refs
      /\ UNCHANGED <<slotIms, ofono, dials>>
      /\ pending' = pending \cup {n} /\ atModem' = atModem \cup {n}
      /\ o \in ofono[g] /\ o \in {"ims", "sms"}
  BY DEF Submit, NewReqId, Sent, Obj
<1>2. n \in Request
  BY <1>1, BoundAssumption DEF Submit, Request, Serial, TypeOK, BoundAssumption
<1>3. lastId \in Nat /\ n.serial = lastId + 1
  BY BoundAssumption DEF TypeOK, BoundAssumption
<1>4. n \notin Known
  <2>1. SUFFICES ASSUME n \in Known PROVE FALSE
    OBVIOUS
  <2>2. n.serial <= lastId
    BY <2>1 DEF SerialsOnce
  <2> QED BY <1>3, <2>2
<1>5. Made(g)
  BY <1>1 DEF SlotsMade
<1>6. /\ refs[g] \in Refs /\ CountedAt(g) /\ dials[g] \in Nat
      /\ o = "ims" => refs[g]["ims"] >= 1
  BY <1>1, <1>5, CountedFacts DEF Refs, Obj
<1> DEFINE r == IF o = "ims" THEN [refs[g] EXCEPT !["ims"] = @ + 1] ELSE refs[g]
<1>7. /\ r \in Refs /\ r["ims"] = refs[g]["ims"] + (IF o = "ims" THEN 1 ELSE 0)
      /\ \A p \in {"call", "sms", "ext"} : r[p] = refs[g][p]
  BY <1>6 DEF Refs, Obj
<1>8. refs' = [refs EXCEPT ![g] = r]
  BY <1>1 DEF TypeOK
<1>9. /\ IsFiniteSet(pending')
      /\ \A h, p : Cardinality(Pending(h, p)') =
           Cardinality(Pending(h, p)) + (IF n.gen = h /\ n.obj = p THEN 1 ELSE 0)
  <2>1. n \notin pending
    BY <1>4 DEF Known
  <2> HIDE DEF n
  <2> QED BY <1>1, <2>1, PendingAdded DEF Counted
<1>10. \A h, p : Held(h, p)' = Held(h, p)
  BY <1>1 DEF Held
<1>11. n.gen = g /\ n.obj = o
  OBVIOUS
<1> HIDE DEF r, n
<1>12. /\ \A h \in Gen, p \in Obj : Cardinality(Pending(h, p)) \in Nat
       /\ \A h \in Gen \ {g}, p \in Obj : Cardinality(Pending(h, p)') = Cardinality(Pending(h, p))
       /\ Cardinality(Pending(g, "ims")') =
            Cardinality(Pending(g, "ims")) + (IF o = "ims" THEN 1 ELSE 0)
  <2>1. \A h \in Gen, p \in Obj : Cardinality(Pending(h, p)) \in Nat
    BY PendingFinite DEF Counted
  <2> QED BY <1>9, <1>11, <2>1
<1>13. Held(g, "ims") \in 0 .. 1 /\ Held(g, "call") \in 0 .. 1 /\ Held(g, "sms") \in 0 .. 1
  BY DEF Held
<1>14. r["ims"] = (IF slotIms'[g] THEN 1 ELSE 0) + Held(g, "ims")'
                      + Cardinality(Pending(g, "ims")')
  BY <1>1, <1>6, <1>7, <1>10, <1>12, <1>13 DEF CountedAt, Obj
<1>15. r["call"] = 1 + Held(g, "call")' + dials'[g] /\ dials'[g] \in Nat
  BY <1>1, <1>6, <1>7, <1>10 DEF CountedAt
<1>16. r["sms"] = 1 + Held(g, "sms")'
  BY <1>6, <1>7, <1>10 DEF CountedAt
<1>17. r["ext"] = 3 + (IF r["ims"] > 0 THEN 1 ELSE 0)
  <2>1. r["ext"] = refs[g]["ext"] /\ (refs[g]["ims"] > 0 <=> r["ims"] > 0)
    BY <1>1, <1>6, <1>7 DEF Refs, Obj
  <2> QED BY <1>6, <2>1 DEF CountedAt
<1>18. \A h \in Gen \ {g} : slotIms'[h] = slotIms[h] /\ ofono'[h] = ofono[h] /\ dials'[h] = dials[h]
  BY <1>1
<1>19. refs' \in [Gen -> Refs] /\ Counted' /\ \A h \in Gen : Made(h) <=> Made(h)'
  BY <1>5, <1>7, <1>8, <1>9, <1>12, <1>14, <1>15, <1>16, <1>17, <1>18, OneSlotCounted
<1>20. \E x \in Request : /\ x = [serial |-> lastId + 1, gen |-> g, obj |-> o]
                          /\ x \notin Known
                          /\ pending' = pending \cup {x} /\ atModem' = atModem \cup {x}
  <2>1. n = [serial |-> lastId + 1, gen |-> g, obj |-> o]
    BY DEF n
  <2> QED BY <1>1, <1>2, <1>4, <2>1
<1> QED BY <1>1, <1>5, <1>19, <1>20 DEF RefsSound, TypeOK

(* A dial begins or ends: only the MtkImsCall's references change, and it  *)
(* never loses the slot's.                                                 *)
LEMMA DialRefs ==
  ASSUME IInv, NEW g \in Gen, Dial(g) \/ DialEnds(g)
  PROVE  /\ RefsSound' /\ Made(g) /\ \A h \in Gen : Made(h) <=> Made(h)'
         /\ dials' \in [Gen -> 0 .. MaxDials]
         /\ \A h \in Gen \ {g} : dials'[h] = dials[h]
         /\ \A h \in Gen : refs'[h]["ims"] = refs[h]["ims"]
<1> USE DEF IInv
<1>1. UNCHANGED <<slotIms, ofono, pending>> /\ dials[g] \in 0 .. MaxDials /\ MaxDials \in Nat
  BY BoundAssumption DEF Dial, DialEnds, TypeOK, BoundAssumption
<1>2. Made(g)
  BY <1>1 DEF Dial, DialEnds, SlotsMade
<1>3. /\ refs[g] \in Refs /\ CountedAt(g) /\ refs[g]["call"] >= 1 + dials[g]
      /\ refs[g]["ext"] = 3 + (IF refs[g]["ims"] > 0 THEN 1 ELSE 0)
  BY <1>2, CountedFacts DEF CountedAt
<1>4. PICK r \in Refs, d \in 0 .. MaxDials :
        /\ refs' = [refs EXCEPT ![g] = r] /\ dials' = [dials EXCEPT ![g] = d]
        /\ r["call"] - d = refs[g]["call"] - dials[g]
        /\ r["ims"] = refs[g]["ims"] /\ r["sms"] = refs[g]["sms"]
        /\ r["ext"] = 3 + (IF r["ims"] > 0 THEN 1 ELSE 0)
  <2>1. CASE Dial(g)
    <3> DEFINE r == [refs[g] EXCEPT !["call"] = @ + 1]
    <3>1. /\ r \in Refs /\ r["call"] = refs[g]["call"] + 1
          /\ \A p \in {"ims", "sms", "ext"} : r[p] = refs[g][p]
      BY <1>3 DEF Refs, Obj
    <3>2. /\ refs' = [refs EXCEPT ![g] = r] /\ dials' = [dials EXCEPT ![g] = dials[g] + 1]
          /\ dials[g] + 1 \in 0 .. MaxDials
      BY <1>1, <2>1 DEF Dial, TypeOK
    <3> HIDE DEF r
    <3>3. r["call"] - (dials[g] + 1) = refs[g]["call"] - dials[g]
      BY <1>1, <1>3, <3>1 DEF Refs, Obj
    <3> QED BY <1>3, <3>1, <3>2, <3>3
  <2>2. CASE DialEnds(g)
    <3> DEFINE r == Unref(refs[g], "call")
    <3>1. dials[g] > 0 /\ refs[g]["call"] >= 1 /\ refs[g]["call"] >= 2 /\ "call" \in Obj
      BY <1>1, <1>3, <2>2 DEF DialEnds, Refs, Obj
    <3>2. /\ r \in Refs /\ r["call"] = refs[g]["call"] - 1
          /\ \A p \in Obj \ {"call"} : r[p] = refs[g][p]
          /\ r["ext"] = 3 + (IF r["ims"] > 0 THEN 1 ELSE 0)
      BY <1>3, <3>1, UnrefSound DEF Obj
    <3>3. /\ refs' = [refs EXCEPT ![g] = r] /\ dials' = [dials EXCEPT ![g] = dials[g] - 1]
          /\ dials[g] - 1 \in 0 .. MaxDials
      BY <1>1, <2>2, <3>1 DEF DialEnds, TypeOK
    <3> HIDE DEF r
    <3>4. r["call"] - (dials[g] - 1) = refs[g]["call"] - dials[g]
      BY <1>1, <1>3, <3>2 DEF Refs, Obj
    <3> QED BY <3>2, <3>3, <3>4 DEF Obj
  <2> QED BY <2>1, <2>2
<1>5. /\ dials' \in [Gen -> 0 .. MaxDials] /\ dials'[g] = d
      /\ \A h \in Gen \ {g} : dials'[h] = dials[h]
  BY <1>4 DEF TypeOK
<1>6. (\A h, p : Pending(h, p)' = Pending(h, p)) /\ (\A h, p : Held(h, p)' = Held(h, p))
  BY <1>1 DEF Pending, Held
<1>7. Held(g, "call") \in 0 .. 1 /\ d \in Nat /\ dials[g] \in Nat /\ r["call"] \in Nat
  BY <1>1, <1>4 DEF Held, Refs, Obj
<1>8. r["ims"] = (IF slotIms'[g] THEN 1 ELSE 0) + Held(g, "ims")'
                   + Cardinality(Pending(g, "ims")')
  BY <1>1, <1>3, <1>4, <1>6 DEF CountedAt
<1>9. r["call"] = 1 + Held(g, "call")' + dials'[g] /\ dials'[g] \in Nat
  BY <1>3, <1>4, <1>5, <1>6, <1>7 DEF CountedAt
<1>10. r["sms"] = 1 + Held(g, "sms")'
  BY <1>3, <1>4, <1>6 DEF CountedAt
<1>11. \A h \in Gen \ {g} : slotIms'[h] = slotIms[h] /\ ofono'[h] = ofono[h] /\ dials'[h] = dials[h]
  BY <1>1, <1>5
<1>12. IsFiniteSet(pending')
  BY <1>1 DEF Counted
<1>13. refs' \in [Gen -> Refs] /\ Counted' /\ \A h \in Gen : Made(h) <=> Made(h)'
  BY <1>2, <1>4, <1>6, <1>8, <1>9, <1>10, <1>11, <1>12, OneSlotCounted
<1>14. \A h \in Gen : refs'[h]["ims"] = refs[h]["ims"]
  BY <1>4 DEF TypeOK
<1> QED BY <1>1, <1>2, <1>5, <1>13, <1>14 DEF RefsSound, TypeOK

(* A request leaves the table: a registration's gives back its reference.  *)
LEMMA RequestGone ==
  ASSUME IInv, NEW r \in pending, pending' = pending \ {r},
         refs' = IF r.obj = "ims" THEN [refs EXCEPT ![r.gen] = Unref(@, "ims")] ELSE refs,
         UNCHANGED <<slotIms, ofono, dials>>
  PROVE  RefsSound' /\ \A h \in Gen : Made(h) <=> Made(h)'
<1> USE DEF IInv
<1> DEFINE g == r.gen
           o == r.obj
           s == IF o = "ims" THEN Unref(refs[g], "ims") ELSE refs[g]
<1>1. g \in Gen /\ Made(g) /\ o \in {"ims", "sms"}
  BY DEF TypeOK, Request, SlotsMade
<1>2. /\ IsFiniteSet(pending')
      /\ Cardinality(Pending(g, o)) >= 1
      /\ \A h, p : Cardinality(Pending(h, p)') =
           Cardinality(Pending(h, p)) - (IF g = h /\ o = p THEN 1 ELSE 0)
  BY PendingRemoved DEF Counted
<1>3. \A h, p : Held(h, p)' = Held(h, p)
  BY DEF Held
<1>4. \A h \in Gen, p \in Obj : Cardinality(Pending(h, p)) \in Nat
  BY PendingFinite DEF Counted
<1>5. Held(g, "ims") \in 0 .. 1
  BY DEF Held
<1>6. refs' = [refs EXCEPT ![g] = s]
  BY <1>1 DEF TypeOK
<1> HIDE DEF g, o
<1>7. refs[g] \in Refs /\ CountedAt(g) /\ dials[g] \in Nat
  BY <1>1, CountedFacts
<1>8. /\ o = "ims" => refs[g]["ims"] >= 1
      /\ refs[g]["ext"] = 3 + (IF refs[g]["ims"] > 0 THEN 1 ELSE 0)
  BY <1>1, <1>2, <1>4, <1>5, <1>7 DEF CountedAt, Obj
<1>9. /\ s \in Refs /\ s["ims"] = refs[g]["ims"] - (IF o = "ims" THEN 1 ELSE 0)
      /\ s["call"] = refs[g]["call"] /\ s["sms"] = refs[g]["sms"]
      /\ s["ext"] = 3 + (IF s["ims"] > 0 THEN 1 ELSE 0)
  <2>1. CASE o = "ims"
    BY <1>7, <1>8, <2>1, UnrefSound DEF Obj
  <2>2. CASE o # "ims"
    BY <1>7, <1>8, <2>2 DEF Refs, Obj
  <2> QED BY <2>1, <2>2
<1> HIDE DEF s
<1>10. /\ \A h \in Gen \ {g}, p \in Obj : Cardinality(Pending(h, p)') = Cardinality(Pending(h, p))
       /\ Cardinality(Pending(g, "ims")') =
            Cardinality(Pending(g, "ims")) - (IF o = "ims" THEN 1 ELSE 0)
  <2>1. \A h \in Gen \ {g}, p \in Obj : Cardinality(Pending(h, p)') = Cardinality(Pending(h, p)) - 0
    BY <1>2
  <2> QED BY <1>2, <1>4, <2>1
<1>11. s["ims"] = (IF slotIms'[g] THEN 1 ELSE 0) + Held(g, "ims")'
                    + Cardinality(Pending(g, "ims")')
  BY <1>1, <1>3, <1>4, <1>5, <1>7, <1>9, <1>10 DEF CountedAt, Obj
<1>12. s["call"] = 1 + Held(g, "call")' + dials'[g] /\ dials'[g] \in Nat
  BY <1>3, <1>7, <1>9 DEF CountedAt
<1>13. s["sms"] = 1 + Held(g, "sms")'
  BY <1>3, <1>7, <1>9 DEF CountedAt
<1>14. \A h \in Gen \ {g} : slotIms'[h] = slotIms[h] /\ ofono'[h] = ofono[h] /\ dials'[h] = dials[h]
  OBVIOUS
<1>15. refs' \in [Gen -> Refs] /\ Counted' /\ \A h \in Gen : Made(h) <=> Made(h)'
  BY <1>1, <1>2, <1>6, <1>9, <1>10, <1>11, <1>12, <1>13, <1>14, OneSlotCounted
<1> QED BY <1>15 DEF RefsSound, TypeOK

(* The cancel of a dial finds at most one request, the one with serial 1.  *)
LEMMA CancelDialEffect ==
  ASSUME IInv, NEW g \in Gen, CancelDial(g)
  PROVE  /\ UNCHANGED <<slot, slotIms, ofono, dials, mail, broken>>
         /\ atModem' \subseteq atModem /\ atModem \ atModem' \subseteq pending \ pending'
         /\ dials[g] > 0
         /\ \/ UNCHANGED <<refs, pending>>
            \/ \E r \in pending :
                 /\ r.gen = g /\ r.serial = 1 /\ pending' = pending \ {r}
                 /\ refs' = IF r.obj = "ims" THEN [refs EXCEPT ![g] = Unref(@, "ims")] ELSE refs
<1> USE DEF IInv
<1> DEFINE found == {r \in pending : r.gen = g /\ r.serial = 1}
<1>1. /\ UNCHANGED <<slot, slotIms, ofono, dials, mail, broken>> /\ dials[g] > 0
      /\ pending' = pending \ found /\ atModem' \in {atModem, atModem \ found}
      /\ refs' = IF \E r \in found : r.obj = "ims" THEN [refs EXCEPT ![g] = Unref(@, "ims")]
                 ELSE refs
  BY DEF CancelDial
<1>2. CASE found = {}
  BY <1>1, <1>2
<1>3. CASE found # {}
  <2>1. PICK r \in found : TRUE
    BY <1>3
  <2>2. \A x \in found : x = r
    BY <2>1 DEF SerialsOnce, Known
  <2>3. found = {r} /\ r \in pending /\ r.gen = g /\ r.serial = 1
    BY <2>1, <2>2
  <2> HIDE DEF found
  <2>4. /\ pending' = pending \ {r}
        /\ refs' = IF r.obj = "ims" THEN [refs EXCEPT ![g] = Unref(@, "ims")] ELSE refs
    BY <1>1, <2>3
  <2> QED BY <1>1, <2>3, <2>4
<1> QED BY <1>2, <1>3

LEMMA CancelDialRefs ==
  ASSUME IInv, NEW g \in Gen, CancelDial(g)
  PROVE  RefsSound' /\ \A h \in Gen : Made(h) <=> Made(h)'
<1> USE DEF IInv
<1>1. CASE UNCHANGED <<refs, pending>>
  BY <1>1, CancelDialEffect, SameRefs DEF RefsSound, TypeOK
<1>2. ASSUME NEW r \in pending, r.gen = g, pending' = pending \ {r},
             refs' = IF r.obj = "ims" THEN [refs EXCEPT ![g] = Unref(@, "ims")] ELSE refs
      PROVE  RefsSound' /\ \A h \in Gen : Made(h) <=> Made(h)'
  BY <1>2, CancelDialEffect, RequestGone
<1> QED BY <1>1, <1>2, CancelDialEffect

(***************************************************************************)
(* Answers.                                                                *)
(***************************************************************************)
LEMMA MailTyped ==
  ASSUME TypeOK, NEW m \in mail
  PROVE  /\ m.to \in Gen /\ m.kind \in {"answer", "registration", "callInfo"}
         /\ m.kind = "answer" => m.request \in Request
BY DEF TypeOK, Mail

(* An answer finds its own request, or none. *)
LEMMA FoundIsOwn ==
  ASSUME TypeOK, SerialsOnce, NEW m \in mail, m.kind = "answer"
  PROVE  /\ m.request \in Known
         /\ \A r \in Found(m) : r = m.request
<1>1. m.request \in Known
  BY DEF Known
<1>2. ASSUME NEW r \in Found(m) PROVE r = m.request
  <2>1. r \in Known /\ r.serial = m.request.serial
    BY DEF Found, Known
  <2> QED BY <1>1, <2>1 DEF SerialsOnce
<1> QED BY <1>1, <1>2

(* What the dispatch of an answer does: the objects it leads to are there, *)
(* and at most the request that was answered goes.                         *)
LEMMA DeliverAnswerEffect ==
  ASSUME IInv, NEW m \in mail, DeliverAnswer(m)
  PROVE  /\ mail' = mail \ {m} /\ m.kind = "answer" /\ broken' = broken
         /\ UNCHANGED <<slotIms, ofono, dials>>
         /\ \/ Found(m) = {} /\ UNCHANGED <<refs, pending>>
            \/ /\ Found(m) = {m.request} /\ m.request \in pending /\ m.request.gen = m.to
               /\ pending' = pending \ {m.request}
               /\ refs' = IF m.request.obj = "ims" THEN [refs EXCEPT ![m.to] = Unref(@, "ims")]
                          ELSE refs
<1> USE DEF IInv
<1>1. mail' = mail \ {m} /\ m.kind = "answer" /\ UNCHANGED <<slotIms, ofono, dials>>
  BY DEF DeliverAnswer
<1>2. m.to \in Gen /\ m.request \in Request
  BY <1>1, MailTyped
<1>3. Made(m.to)
  BY DEF Targets
<1>4. ~Dangling(m)
  BY <1>2, <1>3, CountedFacts DEF Refs, Dangling
<1>5. /\ broken' = broken /\ pending' = pending \ Found(m)
      /\ refs' = IF \E r \in Found(m) : r.obj = "ims"
                 THEN [refs EXCEPT ![m.to] = Unref(@, "ims")] ELSE refs
  BY <1>4 DEF DeliverAnswer
<1>6. CASE Found(m) = {}
  BY <1>1, <1>5, <1>6
<1>7. CASE Found(m) # {}
  <2>1. Found(m) = {m.request}
    BY <1>1, <1>7, FoundIsOwn
  <2>2. m.request \in pending /\ m.request.gen = m.to
    BY <2>1 DEF Found
  <2> QED BY <1>1, <1>5, <2>1, <2>2
<1> QED BY <1>6, <1>7

LEMMA DeliverAnswerRefs ==
  ASSUME IInv, NEW m \in mail, DeliverAnswer(m)
  PROVE  RefsSound' /\ \A h \in Gen : Made(h) <=> Made(h)'
<1>1. CASE UNCHANGED <<refs, pending>>
  BY <1>1, DeliverAnswerEffect, SameRefs DEF IInv, RefsSound, TypeOK
<1>2. CASE /\ m.request \in pending /\ m.request.gen = m.to
           /\ pending' = pending \ {m.request}
           /\ refs' = IF m.request.obj = "ims" THEN [refs EXCEPT ![m.to] = Unref(@, "ims")]
                      ELSE refs
  BY <1>2, DeliverAnswerEffect, RequestGone
<1> QED BY <1>1, <1>2, DeliverAnswerEffect

(***************************************************************************)
(* Every step.                                                             *)
(***************************************************************************)
LEMMA RefsStep ==
  ASSUME IInv, [Next]_vars
  PROVE  RefsSound' /\ \A h \in Gen : Made(h) => Made(h)'
<1>1. CASE UNCHANGED <<refs, slotIms, ofono, dials, pending>>
  BY <1>1, SameRefs DEF IInv, RefsSound, TypeOK
<1>2. ASSUME NEW g \in Gen, Shutdown(g) \/ FreeSlot(g)
      PROVE  RefsSound' /\ \A h \in Gen : Made(h) => Made(h)'
  BY <1>2, TerminateRefs DEF Shutdown, FreeSlot
<1>3. ASSUME NEW m \in mail, DeliverIndication(m)
      PROVE  UNCHANGED <<refs, slotIms, ofono, dials, pending>>
  BY <1>3 DEF DeliverIndication
<1>4. CASE \/ PluginInit \/ PluginExit \/ AnyAnswer
           \/ \E kind \in {"registration", "callInfo"} : Indicate(kind)
           \/ ServiceDies \/ ServiceStarts \/ UNCHANGED vars
  BY <1>1, <1>4 DEF PluginInit, PluginExit, AnyAnswer, Answer, Indicate, ServiceDies,
                    ServiceStarts, vars
<1> QED BY <1>1, <1>2, <1>3, <1>4, NewSlotRefs, TakeInterfaceRefs, DropInterfaceRefs,
           SubmitRefs, DialRefs, CancelDialRefs, DeliverAnswerRefs DEF Next, AnyAnswerDelivered

LEMMA BookTyped ==
  ASSUME IInv, [Next]_vars
  PROVE  TypeOK'
<1> USE DEF IInv
<1>1. RefsSound'
  BY RefsStep
<1> DEFINE Rest == /\ plugin' \in 0 .. 1
                   /\ slot' \in [Gen -> {"none", "open", "shut", "freed"}]
                   /\ ofono' \in [Gen -> SUBSET Obj]
                   /\ lastId' \in 0 .. MaxSerial
                   /\ dials' \in [Gen -> 0 .. MaxDials]
                   /\ pending' \subseteq Request
                   /\ service' \in BOOLEAN
                   /\ subscriber' \in [Callbacks -> Gen \cup {0}]
                   /\ atModem' \subseteq Request
                   /\ mail' \subseteq Mail
                   /\ broken' \in Gen \cup {0}
<1>2. CASE PluginInit \/ PluginExit \/ ServiceDies \/ ServiceStarts \/ UNCHANGED vars
  <2>1. /\ plugin' \in 0 .. 1 /\ service' \in BOOLEAN /\ atModem' \subseteq Request
        /\ UNCHANGED <<slot, ofono, lastId, dials, pending, mail, broken>>
    <3>1. plugin' \in {plugin, 0, 1} /\ atModem' \in {atModem, {}}
      BY <1>2 DEF PluginInit, PluginExit, ServiceDies, ServiceStarts, vars
    <3>2. service' = service \/ service' = TRUE \/ service' = FALSE
      BY <1>2, Zenon DEF PluginInit, PluginExit, ServiceDies, ServiceStarts, vars
    <3>3. UNCHANGED <<slot, ofono, lastId, dials, pending, mail, broken>>
      BY <1>2 DEF PluginInit, PluginExit, ServiceDies, ServiceStarts, vars
    <3>4. plugin' \in 0 .. 1 /\ atModem' \subseteq Request
      BY <3>1 DEF TypeOK
    <3>5. service' \in BOOLEAN
      <4>1. service \in BOOLEAN
        BY DEF TypeOK
      <4> QED BY <3>2, <4>1, Zenon
    <3> QED BY <3>3, <3>4, <3>5
  <2>2. subscriber' = subscriber \/ subscriber' = [i \in Callbacks |-> 0]
    BY <1>2 DEF PluginInit, PluginExit, ServiceDies, ServiceStarts, vars
  <2>3. subscriber' \in [Callbacks -> Gen \cup {0}]
    BY <2>2 DEF TypeOK
  <2>4. Rest
    BY <2>1, <2>3 DEF TypeOK
  <2> QED BY <1>1, <2>4 DEF TypeOK, RefsSound
<1>3. ASSUME NEW g \in Gen, NewSlot(g) PROVE Rest
  <2>1. subscriber' \in [Callbacks -> Gen \cup {0}]
    BY <1>3 DEF NewSlot, Subscribed, TypeOK
  <2> QED BY <1>3, <2>1 DEF NewSlot, TypeOK
<1>4. ASSUME NEW g \in Gen, Shutdown(g) \/ FreeSlot(g) PROVE Rest
  BY <1>4 DEF Shutdown, FreeSlot, TypeOK
<1>5. ASSUME NEW g \in Gen, NEW o \in Obj, TakeInterface(g, o) \/ DropInterface(g, o) PROVE Rest
  BY <1>5 DEF TakeInterface, DropInterface, TypeOK
<1>6. ASSUME NEW g \in Gen, NEW o \in Obj, Submit(g, o) PROVE Rest
  <2>1. lastId' \in 0 .. MaxSerial
    BY <1>6, BoundAssumption DEF Submit, TypeOK, BoundAssumption
  <2>2. pending' \subseteq Request /\ atModem' \subseteq Request
    BY <1>6, SubmitRefs DEF TypeOK
  <2>3. UNCHANGED <<plugin, slot, ofono, dials, service, subscriber, mail, broken>>
    BY <1>6 DEF Submit
  <2> QED BY <2>1, <2>2, <2>3 DEF TypeOK
<1>7. ASSUME NEW r \in atModem, Answer(r) PROVE Rest
  <2>1. r \in Request /\ subscriber["ims"] \in Gen \cup {0}
    BY CallbacksAssumption DEF TypeOK
  <2>2. mail' \subseteq Mail
    BY <1>7, <2>1 DEF Answer, TypeOK, Mail
  <2> QED BY <1>7, <2>2 DEF Answer, TypeOK
<1>8. ASSUME NEW kind \in {"registration", "callInfo"}, Indicate(kind) PROVE Rest
  <2>1. subscriber["ims"] \in Gen
    BY <1>8, CallbacksAssumption DEF Indicate, TypeOK
  <2>2. [kind |-> kind, to |-> subscriber["ims"]] \in Mail
    BY <2>1 DEF Mail
  <2>3. mail' \subseteq Mail
    BY <1>8, <2>2 DEF Indicate, TypeOK
  <2> QED BY <1>8, <2>3 DEF Indicate, TypeOK
<1>9. ASSUME NEW m \in mail, DeliverAnswer(m) PROVE Rest
  <2>1. pending' \subseteq Request /\ mail' \subseteq Mail /\ broken' \in Gen \cup {0}
    BY <1>9, DeliverAnswerEffect DEF TypeOK
  <2> QED BY <1>9, <2>1 DEF DeliverAnswer, TypeOK
<1>10. ASSUME NEW m \in mail, DeliverIndication(m) PROVE Rest
  <2>1. broken' \in Gen \cup {0}
    BY <1>10, MailTyped DEF DeliverIndication, TypeOK
  <2> QED BY <1>10, <2>1 DEF DeliverIndication, TypeOK
<1>11. ASSUME NEW g \in Gen, Dial(g) \/ DialEnds(g) PROVE Rest
  BY <1>11, DialRefs DEF Dial, DialEnds, TypeOK
<1>12. ASSUME NEW g \in Gen, CancelDial(g) PROVE Rest
  <2>1. pending' \subseteq Request /\ atModem' \subseteq Request
    BY <1>12 DEF CancelDial, TypeOK
  <2> QED BY <1>12, <2>1 DEF CancelDial, TypeOK
<1>13. ASSUME Rest PROVE TypeOK'
  BY <1>1, <1>13 DEF TypeOK, RefsSound
<1> HIDE DEF Rest
<1> QED BY <1>2, <1>3, <1>4, <1>5, <1>6, <1>7, <1>8, <1>9, <1>10, <1>11,
           <1>12, <1>13 DEF Next, AnyAnswer, AnyAnswerDelivered

(* The serials of the requests: they are taken from one counter. *)
LEMMA SerialsStep ==
  ASSUME IInv, [Next]_vars
  PROVE  SerialsOnce'
<1> USE DEF IInv
<1>1. ASSUME Known' \subseteq Known, lastId' = lastId PROVE SerialsOnce'
  BY <1>1 DEF SerialsOnce
<1>2. ASSUME UNCHANGED <<pending, mail>>, atModem' \subseteq atModem, lastId' = lastId
      PROVE  SerialsOnce'
  BY <1>1, <1>2 DEF Known
<1>3. ASSUME NEW g \in Gen, NEW o \in Obj, Submit(g, o) PROVE SerialsOnce'
  <2>1. PICK r \in Request : /\ r = [serial |-> lastId + 1, gen |-> g, obj |-> o]
                             /\ pending' = pending \cup {r} /\ atModem' = atModem \cup {r}
    BY <1>3, SubmitRefs
  <2>2. Known' = Known \cup {r} /\ lastId' = lastId + 1 /\ r.serial = lastId + 1
    BY <1>3, <2>1 DEF Submit, Known
  <2>3. lastId \in Nat /\ \A x \in Known : x.serial <= lastId /\ x.serial \in Nat
    <3>1. \A x \in Known : x \in Request
      BY DEF Known, TypeOK, Mail
    <3> QED BY <3>1, BoundAssumption DEF TypeOK, BoundAssumption, SerialsOnce, Request, Serial
  <2>4. \A x \in Known' : x.serial <= lastId'
    BY <2>2, <2>3
  <2>5. \A x, y \in Known' : x.serial = y.serial => x = y
    BY <2>2, <2>3 DEF SerialsOnce
  <2> QED BY <2>4, <2>5 DEF SerialsOnce
<1>4. ASSUME NEW r \in atModem, Answer(r) PROVE SerialsOnce'
  <2>1. Known' \subseteq Known
    BY <1>4 DEF Answer, Known
  <2> QED BY <1>1, <1>4, <2>1 DEF Answer
<1>5. ASSUME NEW kind \in {"registration", "callInfo"}, Indicate(kind) PROVE SerialsOnce'
  <2>1. Known' \subseteq Known
    BY <1>5 DEF Indicate, Known
  <2> QED BY <1>1, <1>5, <2>1 DEF Indicate
<1>6. ASSUME NEW m \in mail, DeliverAnswer(m) \/ DeliverIndication(m) PROVE SerialsOnce'
  <2>1. pending' \subseteq pending /\ mail' \subseteq mail /\ UNCHANGED <<atModem, lastId>>
    BY <1>6, DeliverAnswerEffect DEF DeliverAnswer, DeliverIndication
  <2>2. Known' \subseteq Known
    BY <2>1 DEF Known
  <2> QED BY <1>1, <2>1, <2>2
<1>7. ASSUME NEW g \in Gen, CancelDial(g) PROVE SerialsOnce'
  <2>1. Known' \subseteq Known /\ lastId' = lastId
    BY <1>7 DEF CancelDial, Known
  <2> QED BY <1>1, <2>1
<1> QED BY <1>2, <1>3, <1>4, <1>5, <1>6, <1>7
        DEF Next, vars, PluginInit, PluginExit, NewSlot, Shutdown, FreeSlot, TakeInterface,
            DropInterface, Dial, DialEnds, AnyAnswer, AnyAnswerDelivered, ServiceDies, ServiceStarts

(* Whom the service calls back, and what a slot without objects has.       *)
LEMMA TargetsStep ==
  ASSUME IInv, [Next]_vars
  PROVE  Targets' /\ SlotsMade'
<1> USE DEF IInv
<1>1. \A h \in Gen : Made(h) => Made(h)'
  BY RefsStep
<1>2. \A m \in mail : m.to \in Gen
  BY MailTyped
<1>3. ASSUME mail' \subseteq mail,
             \A i \in Callbacks : subscriber'[i] \in {subscriber[i], 0}
      PROVE  Targets'
  BY <1>1, <1>2, <1>3 DEF Targets, TypeOK
<1>4. ASSUME NEW g \in Gen, NewSlot(g) PROVE Targets'
  <2>1. Made(g)' \/ subscriber' = subscriber
    BY <1>4, NewSlotRefs
  <2>2. \A i \in Callbacks : subscriber'[i] \in {subscriber[i], g}
    BY <1>4 DEF NewSlot, Subscribed, TypeOK
  <2> QED BY <1>1, <1>2, <1>4, <2>1, <2>2 DEF NewSlot, Targets, TypeOK
<1>5. ASSUME UNCHANGED subscriber, NEW m, m.to = subscriber["ims"], subscriber["ims"] # 0,
             mail' = mail \cup {m}
      PROVE  Targets'
  BY <1>1, <1>2, <1>5, CallbacksAssumption DEF Targets, TypeOK
<1>6. ASSUME NEW r \in atModem, Answer(r) PROVE Targets'
  BY <1>3, <1>5, <1>6 DEF Answer
<1>7. ASSUME NEW kind \in {"registration", "callInfo"}, Indicate(kind) PROVE Targets'
  BY <1>5, <1>7 DEF Indicate
<1>8. Targets'
  BY <1>3, <1>4, <1>6, <1>7
     DEF Next, vars, PluginInit, PluginExit, Shutdown, FreeSlot, TakeInterface, DropInterface,
         Submit, Dial, DialEnds, CancelDial, AnyAnswer, AnyAnswerDelivered, DeliverAnswer,
         DeliverIndication, ServiceDies, ServiceStarts, TypeOK
<1>9. ASSUME \A g \in Gen : slot'[g] # "none" \/ slot'[g] = slot[g],
             \A g \in Gen : slotIms'[g] => slotIms[g],
             \A g \in Gen : ofono'[g] \subseteq ofono[g],
             pending' \subseteq pending, dials' = dials,
             \A g \in Gen : slot[g] = "none" => refs'[g] = refs[g]
      PROVE  SlotsMade'
  <2>1. ASSUME NEW g \in Gen, slot'[g] = "none" PROVE ~Made(g)'
    BY <1>9, <2>1 DEF SlotsMade, Made, NoRefs
  <2>2. ASSUME NEW g \in Gen, ~Made(g)'
        PROVE  ~slotIms'[g] /\ ofono'[g] = {} /\ dials'[g] = 0 /\ \A r \in pending' : r.gen # g
    BY <1>1, <1>9, <2>2 DEF SlotsMade
  <2> QED BY <2>1, <2>2 DEF SlotsMade
<1>10. ASSUME NEW g \in Gen, NewSlot(g) PROVE SlotsMade'
  <2>1. /\ slot'[g] = "open" /\ \A h \in Gen \ {g} : slot'[h] = slot[h]
        /\ slotIms'[g] => Made(g)'
        /\ \A h \in Gen \ {g} : slotIms'[h] = slotIms[h] /\ refs'[h] = refs[h]
        /\ ~Made(g)
        /\ UNCHANGED <<ofono, dials, pending>>
    BY <1>10, NewSlotRefs DEF NewSlot, TypeOK, SlotsMade
  <2>2. ASSUME NEW h \in Gen, slot'[h] = "none" PROVE ~Made(h)'
    BY <2>1, <2>2 DEF SlotsMade, Made, NoRefs
  <2>3. ASSUME NEW h \in Gen, ~Made(h)'
        PROVE  ~slotIms'[h] /\ ofono'[h] = {} /\ dials'[h] = 0 /\ \A r \in pending' : r.gen # h
    BY <1>1, <2>1, <2>3 DEF SlotsMade
  <2> QED BY <2>2, <2>3 DEF SlotsMade
<1>11. ASSUME NEW g \in Gen, Shutdown(g) \/ FreeSlot(g) PROVE SlotsMade'
  <2>1. /\ slot[g] # "none" /\ slot'[g] # "none"
        /\ \A h \in Gen \ {g} : slot'[h] = slot[h] /\ refs'[h] = refs[h]
        /\ \A h \in Gen : slotIms'[h] => slotIms[h]
        /\ UNCHANGED <<ofono, dials, pending>>
    BY <1>11 DEF Shutdown, FreeSlot, Terminate, TypeOK
  <2> QED BY <1>9, <2>1
<1>12. ASSUME NEW g \in Gen, NEW o \in Obj,
              \/ TakeInterface(g, o) \/ DropInterface(g, o) \/ Submit(g, o)
              \/ Dial(g) \/ DialEnds(g)
       PROVE  SlotsMade'
  <2>1. /\ Made(g) /\ \A h \in Gen : Made(h) <=> Made(h)'
    BY <1>12, TakeInterfaceRefs, DropInterfaceRefs, SubmitRefs, DialRefs
  <2>2. /\ slot' = slot /\ slotIms' = slotIms
        /\ \A h \in Gen \ {g} : ofono'[h] = ofono[h] /\ dials'[h] = dials[h]
        /\ \A r \in pending' : r \in pending \/ r.gen = g
    BY <1>12, DialRefs
       DEF TakeInterface, DropInterface, Submit, Dial, DialEnds, NewReqId, TypeOK
  <2>3. ASSUME NEW h \in Gen, slot'[h] = "none" PROVE ~Made(h)'
    BY <2>1, <2>2, <2>3 DEF SlotsMade
  <2>4. ASSUME NEW h \in Gen, ~Made(h)'
        PROVE  ~slotIms'[h] /\ ofono'[h] = {} /\ dials'[h] = 0 /\ \A r \in pending' : r.gen # h
    BY <2>1, <2>2, <2>4 DEF SlotsMade
  <2> QED BY <2>3, <2>4 DEF SlotsMade
<1>13. ASSUME (\E m \in mail : DeliverAnswer(m)) \/ (\E g \in Gen : CancelDial(g))
       PROVE  SlotsMade'
  <2>1. /\ \A h \in Gen : Made(h) <=> Made(h)'
        /\ pending' \subseteq pending /\ UNCHANGED <<slot, slotIms, ofono, dials>>
    BY <1>13, DeliverAnswerRefs, DeliverAnswerEffect, CancelDialRefs, CancelDialEffect
       DEF DeliverAnswer
  <2>2. ASSUME NEW h \in Gen, slot'[h] = "none" PROVE ~Made(h)'
    BY <2>1, <2>2 DEF SlotsMade
  <2>3. ASSUME NEW h \in Gen, ~Made(h)'
        PROVE  ~slotIms'[h] /\ ofono'[h] = {} /\ dials'[h] = 0 /\ \A r \in pending' : r.gen # h
    BY <2>1, <2>3 DEF SlotsMade
  <2> QED BY <2>2, <2>3 DEF SlotsMade
<1>14. ASSUME UNCHANGED <<slot, slotIms, ofono, dials, pending, refs>> PROVE SlotsMade'
  BY <1>9, <1>14
<1>15. ASSUME NEW g \in Gen, Dial(g) \/ DialEnds(g) PROVE SlotsMade'
  BY <1>12, <1>15 DEF Obj
<1>16. SlotsMade'
  BY <1>10, <1>11, <1>12, <1>13, <1>14, <1>15
     DEF Next, vars, PluginInit, PluginExit, AnyAnswer, Answer, Indicate, AnyAnswerDelivered,
         DeliverIndication, ServiceDies, ServiceStarts
<1> QED BY <1>8, <1>16

(* A request nobody will answer lost its callbacks. *)
LEMMA StrandedStep ==
  ASSUME IInv, [Next]_vars
  PROVE  StrandedOnlyByTakeover'
<1> USE DEF IInv
<1>1. ASSUME pending' \subseteq pending, atModem \subseteq atModem',
             \A m \in mail : m.kind = "answer" => m \in mail',
             subscriber'["ims"] = subscriber["ims"]
      PROVE  StrandedOnlyByTakeover'
  <2>1. SUFFICES ASSUME NEW r \in pending', Stranded(r)' PROVE subscriber'["ims"] # r.gen
    BY DEF StrandedOnlyByTakeover
  <2>2. r \in pending /\ Stranded(r)
    BY <1>1, <2>1 DEF Stranded
  <2> QED BY <1>1, <2>2 DEF StrandedOnlyByTakeover
<1>2. ASSUME NEW g \in Gen, NewSlot(g) PROVE StrandedOnlyByTakeover'
  <2>1. UNCHANGED <<pending, atModem, mail>> /\ subscriber'["ims"] \in {subscriber["ims"], g}
    BY <1>2, CallbacksAssumption DEF NewSlot, Subscribed, TypeOK
  <2>2. \A r \in pending : r.gen # g
    BY <1>2 DEF NewSlot, SlotsMade
  <2>3. \A r \in pending : Stranded(r)' <=> Stranded(r)
    BY <2>1 DEF Stranded
  <2> QED BY <2>1, <2>2, <2>3 DEF StrandedOnlyByTakeover
<1>3. ASSUME NEW g \in Gen, NEW o \in Obj, Submit(g, o) PROVE StrandedOnlyByTakeover'
  <2>1. PICK n \in Request : pending' = pending \cup {n} /\ atModem' = atModem \cup {n}
    BY <1>3, SubmitRefs
  <2>2. UNCHANGED <<mail, subscriber>>
    BY <1>3 DEF Submit
  <2>3. ASSUME NEW r \in pending', Stranded(r)' PROVE subscriber'["ims"] # r.gen
    <3>1. r \in pending /\ Stranded(r)
      BY <2>1, <2>2, <2>3 DEF Stranded
    <3> QED BY <2>2, <3>1 DEF StrandedOnlyByTakeover
  <2> QED BY <2>3 DEF StrandedOnlyByTakeover
<1>4. ASSUME NEW n \in atModem, Answer(n) PROVE StrandedOnlyByTakeover'
  <2>1. /\ UNCHANGED <<pending, subscriber>> /\ atModem' = atModem \ {n} /\ mail \subseteq mail'
        /\ subscriber["ims"] # 0 =>
             [kind |-> "answer", to |-> subscriber["ims"], request |-> n] \in mail'
    BY <1>4 DEF Answer
  <2>2. \A r \in pending : r.gen # 0
    BY DEF TypeOK, Request, Gen
  <2>3. ASSUME NEW r \in pending', Stranded(r)' PROVE subscriber'["ims"] # r.gen
    <3>1. r \in pending
      BY <2>1
    <3>2. CASE r = n
      BY <2>1, <2>2, <2>3, <3>1, <3>2 DEF Stranded
    <3>3. CASE r # n
      <4>1. Stranded(r)
        BY <2>1, <2>3, <3>1, <3>3 DEF Stranded
      <4> QED BY <2>1, <3>1, <4>1 DEF StrandedOnlyByTakeover
    <3> QED BY <3>2, <3>3
  <2> QED BY <2>3 DEF StrandedOnlyByTakeover
<1>5. ASSUME NEW m \in mail, DeliverAnswer(m) PROVE StrandedOnlyByTakeover'
  <2>1. /\ mail' = mail \ {m} /\ m.kind = "answer" /\ pending' \subseteq pending
        /\ Found(m) = {} \/ (Found(m) = {m.request} /\ pending' = pending \ {m.request})
    BY <1>5, DeliverAnswerEffect
  <2>2. UNCHANGED <<atModem, subscriber>>
    BY <1>5 DEF DeliverAnswer
  <2>3. ASSUME NEW r \in pending', Stranded(r)' PROVE subscriber'["ims"] # r.gen
    <3> DEFINE own == [kind |-> "answer", to |-> r.gen, request |-> r]
    <3>1. r \in pending
      BY <2>1
    <3>2. m # own
      <4>1. SUFFICES ASSUME m = own PROVE FALSE
        OBVIOUS
      <4>2. m.to = r.gen /\ m.request = r
        BY <4>1
      <4>3. r \in Found(m)
        BY <3>1, <4>2 DEF Found
      <4> QED BY <2>1, <4>2, <4>3
    <3>3. Stranded(r)
      BY <2>1, <2>2, <2>3, <3>1, <3>2 DEF Stranded
    <3> QED BY <2>2, <3>1, <3>3 DEF StrandedOnlyByTakeover
  <2> QED BY <2>3 DEF StrandedOnlyByTakeover
<1>6. CASE ServiceDies
  <2>1. pending' = pending /\ subscriber'["ims"] = 0 /\ \A r \in pending : r.gen # 0
    BY <1>6, CallbacksAssumption DEF ServiceDies, TypeOK, Request, Gen
  <2> QED BY <2>1 DEF StrandedOnlyByTakeover
<1>7. ASSUME NEW m \in mail, DeliverIndication(m) PROVE StrandedOnlyByTakeover'
  BY <1>1, <1>7 DEF DeliverIndication
<1>8. ASSUME NEW kind \in {"registration", "callInfo"}, Indicate(kind)
      PROVE  StrandedOnlyByTakeover'
  BY <1>1, <1>8 DEF Indicate
<1>9. ASSUME NEW g \in Gen, CancelDial(g) PROVE StrandedOnlyByTakeover'
  <2>1. /\ pending' \subseteq pending /\ atModem \ atModem' \subseteq pending \ pending'
        /\ UNCHANGED <<mail, subscriber>>
    BY <1>9, CancelDialEffect DEF CancelDial
  <2>2. ASSUME NEW r \in pending', Stranded(r)' PROVE subscriber'["ims"] # r.gen
    <3>1. r \in pending /\ Stranded(r)
      BY <2>1, <2>2 DEF Stranded
    <3> QED BY <2>1, <3>1 DEF StrandedOnlyByTakeover
  <2> QED BY <2>2 DEF StrandedOnlyByTakeover
<1> QED BY <1>1, <1>2, <1>3, <1>4, <1>5, <1>6, <1>7, <1>8, <1>9
        DEF Next, vars, PluginInit, PluginExit, Shutdown, FreeSlot, TakeInterface,
            DropInterface, Dial, DialEnds, AnyAnswer, AnyAnswerDelivered, ServiceStarts

(***************************************************************************)
(* The theorems.                                                           *)
(***************************************************************************)
LEMMA InitSound == Init => IInv
<1> SUFFICES ASSUME Init PROVE IInv
  OBVIOUS
<1>1. TypeOK
  BY BoundAssumption DEF Init, TypeOK, BoundAssumption, NoRefs, Refs, Obj
<1>2. \A g \in Gen : ~Made(g)
  BY DEF Init, Made
<1>3. SlotsMade /\ Counted /\ Targets
  BY <1>2, FS_EmptySet DEF Init, SlotsMade, Counted, Targets
<1>4. Known = {}
  BY DEF Init, Known
<1>5. SerialsOnce /\ StrandedOnlyByTakeover
  BY <1>4 DEF Init, SerialsOnce, StrandedOnlyByTakeover
<1> QED BY <1>1, <1>3, <1>5 DEF IInv

LEMMA IInvAlways == Spec => []IInv
<1>1. IInv /\ [Next]_vars => IInv'
  BY RefsStep, BookTyped, SerialsStep, TargetsStep, StrandedStep DEF IInv, RefsSound
<1> QED BY <1>1, InitSound, PTL DEF Spec

(* Every variable keeps its type; no count of references goes below zero.  *)
THEOREM TypeCorrect == Spec => []TypeOK
<1>1. IInv => TypeOK
  BY DEF IInv
<1> QED BY <1>1, IInvAlways, PTL

(* mtk_slot.c, the finalizers and the answers release what was taken, and  *)
(* nothing twice, in every interleaving of any number of slots.            *)
THEOREM RefsAccountedAlways == Spec => []RefsAccounted
<1>1. IInv => RefsAccounted
  <2>1. SUFFICES ASSUME IInv, NEW g \in Gen, Made(g)
                 PROVE  /\ refs[g]["ims"] = (IF slotIms[g] THEN 1 ELSE 0) + Held(g, "ims")
                                              + Requests(g, "ims")
                        /\ refs[g]["call"] = 1 + Held(g, "call") + dials[g]
                        /\ refs[g]["sms"] = 1 + Held(g, "sms")
                        /\ refs[g]["ext"] = 1 + Cardinality({o \in Obj : refs[g][o] > 0})
    BY DEF RefsAccounted, Made
  <2>2. CountedAt(g) /\ refs[g] \in Refs /\ refs[g]["call"] >= 1 /\ refs[g]["sms"] >= 1
    BY <2>1, CountedFacts DEF IInv
  <2>3. refs[g]["ims"] \in Nat /\ refs[g]["call"] \in Nat /\ refs[g]["sms"] \in Nat
    BY <2>2 DEF Refs, Obj
  <2>4. \A o : Requests(g, o) = Cardinality(Pending(g, o))
    BY DEF Requests, Pending
  <2> DEFINE alive == {o \in Obj : refs[g][o] > 0}
  <2>5. Cardinality(alive) = 2 + (IF refs[g]["ims"] > 0 THEN 1 ELSE 0)
    <3>1. Cardinality({"call"}) = 1 /\ IsFiniteSet({"call"})
      BY FS_Singleton
    <3>2. /\ Cardinality({"call"} \cup {"sms"}) = 2
          /\ IsFiniteSet({"call"} \cup {"sms"})
      BY <3>1, FS_AddElement
    <3>3. Cardinality(({"call"} \cup {"sms"}) \cup {"ims"}) = 3
      BY <3>2, FS_AddElement
    <3>4. CASE refs[g]["ims"] > 0
      <4>1. alive = ({"call"} \cup {"sms"}) \cup {"ims"}
        BY <2>2, <2>3, <3>4 DEF Obj
      <4> QED BY <3>3, <3>4, <4>1
    <3>5. CASE ~(refs[g]["ims"] > 0)
      <4>1. alive = {"call"} \cup {"sms"}
        BY <2>2, <2>3, <3>5 DEF Obj
      <4> QED BY <3>2, <3>5, <4>1
    <3> QED BY <3>4, <3>5
  <2> QED BY <2>2, <2>4, <2>5 DEF CountedAt
<1> QED BY <1>1, IInvAlways, PTL

(* The callback objects that outlive a slot keep a living MtkRadioExt.     *)
THEOREM CallbacksHaveTargetAlways == Spec => []CallbacksHaveTarget
<1>1. IInv => CallbacksHaveTarget
  <2>1. ASSUME IInv, NEW g \in Gen, Made(g) PROVE refs[g]["ext"] > 0
    BY <2>1, CountedFacts DEF IInv, Refs
  <2> QED BY <2>1, MailTyped DEF IInv, Targets, CallbacksHaveTarget, TypeOK
<1> QED BY <1>1, IInvAlways, PTL

(* One counter of serials for all slots keeps late answers apart.          *)
THEOREM AnswersStay == Spec => []AnswersStayInTheirSlot
<1>1. IInv => AnswersStayInTheirSlot
  BY FoundIsOwn DEF IInv, AnswersStayInTheirSlot
<1> QED BY <1>1, IInvAlways, PTL

(* A request is lost only with the callbacks of its slot.                  *)
THEOREM StrandedAlways == Spec => []StrandedOnlyByTakeover
<1>1. IInv => StrandedOnlyByTakeover
  BY DEF IInv
<1> QED BY <1>1, IInvAlways, PTL

(***************************************************************************)
(* What is lost, and what is freed, stays so.                              *)
(***************************************************************************)
(* The slot's own reference to its MtkIms: it has one from mtk_slot_new    *)
(* until mtk_slot_terminate.                                               *)
SlotHolds ==
  \A g \in Gen :
    /\ slotIms[g] => slot[g] = "open"
    /\ slot[g] = "open" /\ Made(g) => slotIms[g]

LEMMA SlotHoldsAlways == Spec => []SlotHolds
<1>1. Init => SlotHolds
  BY DEF Init, SlotHolds
<1>2. IInv /\ SlotHolds /\ [Next]_vars => SlotHolds'
  <2> SUFFICES ASSUME IInv, SlotHolds, [Next]_vars PROVE SlotHolds'
    OBVIOUS
  <2> USE DEF IInv
  <2>1. ASSUME NEW g \in Gen, NewSlot(g) PROVE SlotHolds'
    <3>1. /\ slot' = [slot EXCEPT ![g] = "open"] /\ ~Made(g)
          /\ \A h \in Gen \ {g} : slotIms'[h] = slotIms[h] /\ refs'[h] = refs[h]
          /\ slotIms'[g] \/ refs'[g] = refs[g]
      BY <2>1 DEF NewSlot, SlotsMade, TypeOK
    <3>2. \A h \in Gen \ {g} : slot'[h] = slot[h] /\ (Made(h)' <=> Made(h))
      BY <3>1 DEF TypeOK, Made, NoRefs
    <3>3. slot'[g] = "open" /\ (Made(g)' => slotIms'[g])
      BY <3>1 DEF TypeOK, Made, NoRefs
    <3> QED BY <3>1, <3>2, <3>3 DEF SlotHolds
  <2>2. ASSUME NEW g \in Gen, Shutdown(g) \/ FreeSlot(g) PROVE SlotHolds'
    <3>1. \A h \in Gen : Made(h) <=> Made(h)'
      BY <2>2, TerminateRefs DEF Shutdown, FreeSlot
    <3>2. /\ slot'[g] # "open" /\ ~slotIms'[g]
          /\ \A h \in Gen \ {g} : slot'[h] = slot[h] /\ slotIms'[h] = slotIms[h]
      BY <2>2 DEF Shutdown, FreeSlot, Terminate, TypeOK
    <3> QED BY <3>1, <3>2 DEF SlotHolds
  <2>3. ASSUME UNCHANGED <<slot, slotIms>>, \A h \in Gen : Made(h) <=> Made(h)' PROVE SlotHolds'
    BY <2>3 DEF SlotHolds
  <2>4. ASSUME UNCHANGED <<slot, slotIms, refs>> PROVE SlotHolds'
    BY <2>4 DEF SlotHolds, Made, NoRefs
  <2>5. ASSUME NEW g \in Gen, NEW o \in Obj,
               TakeInterface(g, o) \/ DropInterface(g, o) \/ Submit(g, o)
        PROVE  SlotHolds'
    BY <2>3, <2>5, TakeInterfaceRefs, DropInterfaceRefs, SubmitRefs
       DEF TakeInterface, DropInterface, Submit
  <2>6. ASSUME NEW m \in mail, DeliverAnswer(m) PROVE SlotHolds'
    BY <2>3, <2>6, DeliverAnswerRefs DEF DeliverAnswer
  <2>7. ASSUME NEW g \in Gen, Dial(g) \/ DialEnds(g) \/ CancelDial(g) PROVE SlotHolds'
    BY <2>3, <2>7, DialRefs, CancelDialRefs DEF Dial, DialEnds, CancelDial
  <2> QED BY <2>1, <2>2, <2>4, <2>5, <2>6, <2>7
          DEF Next, vars, PluginInit, PluginExit, AnyAnswer, Answer, Indicate,
              AnyAnswerDelivered, DeliverIndication, ServiceDies, ServiceStarts
<1> QED BY <1>1, <1>2, IInvAlways, PTL DEF Spec

(* A freed object of a slot is its MtkIms, and nothing holds it. *)
LEMMA FreedHasNoHolder ==
  ASSUME IInv, NEW g \in Gen, Made(g), NEW o \in Obj, refs[g][o] = 0
  PROVE  /\ o = "ims" /\ ~slotIms[g] /\ "ims" \notin ofono[g]
         /\ \A r \in pending : ~(r.gen = g /\ r.obj = "ims")
<1> USE DEF IInv
<1>1. CountedAt(g) /\ o = "ims"
  BY CountedFacts DEF Refs, Obj
<1>2. Cardinality(Pending(g, "ims")) \in Nat /\ IsFiniteSet(Pending(g, "ims"))
  BY PendingFinite DEF Counted
<1>3. Held(g, "ims") \in Nat /\ refs[g]["ims"] = 0
  BY <1>1 DEF Held
<1>4. Cardinality(Pending(g, "ims")) = 0 /\ Held(g, "ims") = 0 /\ ~slotIms[g]
  <2>1. 0 = (IF slotIms[g] THEN 1 ELSE 0) + Held(g, "ims") + Cardinality(Pending(g, "ims"))
    BY <1>1, <1>3 DEF CountedAt
  <2>2. (IF slotIms[g] THEN 1 ELSE 0) \in 0 .. 1
    OBVIOUS
  <2>3. (IF slotIms[g] THEN 1 ELSE 0) = 0 /\ Held(g, "ims") = 0 /\ Cardinality(Pending(g, "ims")) = 0
    BY <1>2, <1>3, <2>1, <2>2
  <2> QED BY <2>3
<1>5. Pending(g, "ims") = {}
  BY <1>2, <1>4, FS_EmptySet
<1> QED BY <1>1, <1>4, <1>5 DEF Held, Pending

(* A registration and a dial keep what they point to by their reference;   *)
(* an SMS finds its MtkImsSms because the slot keeps its own.              *)
THEOREM RequestsKeepTheirObject == Spec => []RequestsHaveTarget
<1>1. ASSUME IInv, NEW r \in pending PROVE refs[r.gen][r.obj] > 0 /\ refs[r.gen]["ext"] > 0
  <2>1. r.gen \in Gen /\ r.obj \in Obj /\ Made(r.gen)
    BY <1>1 DEF IInv, TypeOK, Request, SlotsMade, Obj
  <2>2. refs[r.gen] \in Refs /\ refs[r.gen]["ext"] >= 3
    BY <1>1, <2>1, CountedFacts DEF IInv
  <2>3. refs[r.gen][r.obj] # 0
    BY <1>1, <2>1, FreedHasNoHolder
  <2> QED BY <2>1, <2>2, <2>3 DEF Refs
<1>2. ASSUME IInv, NEW g \in Gen, dials[g] > 0 PROVE refs[g]["call"] > 0
  <2>1. Made(g)
    BY <1>2 DEF IInv, SlotsMade
  <2>2. refs[g] \in Refs /\ refs[g]["call"] >= 1
    BY <1>2, <2>1, CountedFacts DEF IInv
  <2> QED BY <2>2 DEF Refs, Obj
<1>3. IInv => RequestsHaveTarget
  BY <1>1, <1>2 DEF RequestsHaveTarget
<1> QED BY <1>3, IInvAlways, PTL

(* The safety half of GivenUpImsFreed: once the slot is freed and ofono    *)
(* has given the interface up, the references left to an MtkIms are those  *)
(* of its unanswered requests, so that the last answer frees it.           *)
THEOREM GivenUpImsHeldByRequests ==
  Spec => [](\A g \in Gen : slot[g] = "freed" /\ "ims" \notin ofono[g] =>
               refs[g]["ims"] = Requests(g, "ims"))
<1>1. ASSUME IInv, SlotHolds, NEW g \in Gen, slot[g] = "freed", "ims" \notin ofono[g]
      PROVE  refs[g]["ims"] = Requests(g, "ims")
  <2>1. ~slotIms[g] /\ Held(g, "ims") = 0
    BY <1>1 DEF SlotHolds, Held
  <2>2. Requests(g, "ims") = Cardinality(Pending(g, "ims"))
    BY DEF Requests, Pending
  <2>3. CASE Made(g)
    <3>1. CountedAt(g) /\ Cardinality(Pending(g, "ims")) \in Nat
      BY <1>1, <2>3, CountedFacts, PendingFinite DEF IInv, Counted
    <3> QED BY <2>1, <2>2, <3>1 DEF CountedAt
  <2>4. CASE ~Made(g)
    <3>1. Pending(g, "ims") = {}
      BY <1>1, <2>4 DEF IInv, SlotsMade, Pending
    <3>2. refs[g]["ims"] = 0
      BY <2>4 DEF Made, NoRefs, Obj
    <3> QED BY <2>2, <3>1, <3>2, FS_EmptySet
  <2> QED BY <2>3, <2>4
<1>2. IInv /\ SlotHolds =>
        \A g \in Gen : slot[g] = "freed" /\ "ims" \notin ofono[g] =>
          refs[g]["ims"] = Requests(g, "ims")
  BY <1>1
<1> QED BY <1>2, IInvAlways, SlotHoldsAlways, PTL

(* The one way out of the table of a request that nobody answers: the      *)
(* cancel of a dial of its slot takes it for the dial.                     *)
Lost(r) == r.serial = 1 /\ dials[r.gen] > 0 /\ r \notin pending'

(* A request that lost its callbacks is never answered.  Except for the    *)
(* cancel of a dial, which may hit the first request of all, it stays in   *)
(* the table, and a registration then keeps its MtkIms from being freed.   *)
THEOREM StrandedForGood ==
  Spec => [][\A r \in pending : Stranded(r) =>
               \/ Stranded(r)' /\ (r.obj = "ims" => refs'[r.gen]["ims"] > 0)
               \/ Lost(r)]_vars
<1>1. ASSUME IInv, [Next]_vars, NEW r \in pending, Stranded(r)
      PROVE  Stranded(r)' \/ Lost(r)
  <2> USE <1>1 DEF IInv
  <2> DEFINE own == [kind |-> "answer", to |-> r.gen, request |-> r]
  <2>1. r \in pending /\ r \notin atModem /\ own \notin mail /\ r.gen \in Gen
    BY DEF Stranded, TypeOK, Request
  <2>2. ASSUME pending \subseteq pending', atModem' \subseteq atModem, mail' \subseteq mail
        PROVE  Stranded(r)'
    BY <2>1, <2>2 DEF Stranded
  <2>3. ASSUME NEW g \in Gen, NEW o \in Obj, Submit(g, o) PROVE Stranded(r)'
    <3>1. PICK n \in Request : /\ n \notin Known
                               /\ pending' = pending \cup {n} /\ atModem' = atModem \cup {n}
      BY <2>3, SubmitRefs
    <3>2. n # r /\ mail' = mail
      BY <2>1, <2>3, <3>1 DEF Known, Submit
    <3> QED BY <2>1, <3>1, <3>2 DEF Stranded
  <2>4. ASSUME NEW n \in atModem, Answer(n) PROVE Stranded(r)'
    <3>1. n # r /\ pending' = pending /\ atModem' \subseteq atModem
      BY <2>1, <2>4 DEF Answer
    <3>2. own \notin mail'
      <4>1. [kind |-> "answer", to |-> subscriber["ims"], request |-> n].request = n
        OBVIOUS
      <4>2. own.request = r
        OBVIOUS
      <4> QED BY <2>1, <2>4, <3>1, <4>1, <4>2 DEF Answer
    <3> QED BY <2>1, <3>1, <3>2 DEF Stranded
  <2>5. ASSUME NEW kind \in {"registration", "callInfo"}, Indicate(kind) PROVE Stranded(r)'
    <3>1. own.kind = "answer" /\ [kind |-> kind, to |-> subscriber["ims"]].kind = kind
      OBVIOUS
    <3>2. own \notin mail'
      BY <2>1, <2>5, <3>1 DEF Indicate
    <3> QED BY <2>1, <2>5, <3>2 DEF Indicate, Stranded
  <2>6. ASSUME NEW m \in mail, DeliverAnswer(m) PROVE Stranded(r)'
    <3>1. /\ mail' \subseteq mail /\ m.kind = "answer"
          /\ pending' = pending \/ (pending' = pending \ {m.request} /\ m.request.gen = m.to)
      BY <2>6, DeliverAnswerEffect
    <3>2. m = [kind |-> "answer", to |-> m.to, request |-> m.request]
      BY <3>1 DEF TypeOK, Mail
    <3>3. r \in pending'
      BY <2>1, <3>1, <3>2
    <3> QED BY <2>1, <2>6, <3>1, <3>3 DEF DeliverAnswer, Stranded
  <2>7. ASSUME NEW m \in mail, DeliverIndication(m) PROVE Stranded(r)'
    BY <2>2, <2>7 DEF DeliverIndication
  <2>8. ASSUME NEW g \in Gen, CancelDial(g) PROVE Stranded(r)' \/ Lost(r)
    <3>1. /\ mail' = mail /\ atModem' \subseteq atModem /\ dials[g] > 0
          /\ \/ pending' = pending
             \/ \E x \in pending : x.gen = g /\ x.serial = 1 /\ pending' = pending \ {x}
      BY <2>8, CancelDialEffect
    <3>2. CASE r \in pending'
      BY <2>1, <3>1, <3>2 DEF Stranded
    <3>3. CASE r \notin pending'
      BY <2>1, <3>1, <3>3 DEF Lost
    <3> QED BY <3>2, <3>3
  <2> QED BY <2>2, <2>3, <2>4, <2>5, <2>6, <2>7, <2>8
          DEF Next, vars, PluginInit, PluginExit, NewSlot, Shutdown, FreeSlot, TakeInterface,
              DropInterface, Dial, DialEnds, AnyAnswer, AnyAnswerDelivered, ServiceDies, ServiceStarts
<1>2. ASSUME IInv', NEW r \in Request, Stranded(r)', r.obj = "ims" PROVE refs'[r.gen]["ims"] > 0
  <2>1. r \in pending' /\ r.gen \in Gen
    BY <1>2 DEF Stranded, Request
  <2>2. Made(r.gen)' /\ refs'[r.gen] \in Refs
    BY <1>2, <2>1 DEF IInv, SlotsMade, TypeOK
  <2>3. IsFiniteSet(Pending(r.gen, "ims")') /\ r \in Pending(r.gen, "ims")'
    <3>1. Pending(r.gen, "ims")' \subseteq pending' /\ IsFiniteSet(pending')
      BY <1>2 DEF IInv, Counted, Pending
    <3> QED BY <1>2, <2>1, <3>1, FS_Subset DEF Pending
  <2>4. Cardinality(Pending(r.gen, "ims")') \in Nat /\ Cardinality(Pending(r.gen, "ims")') # 0
    BY <2>3, FS_CardinalityType, FS_EmptySet
  <2>5. Held(r.gen, "ims")' \in 0 .. 1
    BY DEF Held
  <2>6. refs'[r.gen]["ims"] = (IF slotIms'[r.gen] THEN 1 ELSE 0) + Held(r.gen, "ims")'
                                + Cardinality(Pending(r.gen, "ims")')
    BY <1>2, <2>1, <2>2 DEF IInv, Counted, CountedAt
  <2> QED BY <2>4, <2>5, <2>6
<1>3. IInv /\ IInv' /\ [Next]_vars =>
        [\A r \in pending : Stranded(r) =>
           \/ Stranded(r)' /\ (r.obj = "ims" => refs'[r.gen]["ims"] > 0)
           \/ Lost(r)]_vars
  BY <1>1, <1>2 DEF IInv, TypeOK
<1> QED BY <1>3, IInvAlways, PTL DEF Spec

(* No step takes a reference to an object that was freed, nor drops one:   *)
(* its count stays at zero.                                                *)
THEOREM FreedForGood ==
  Spec => [][\A g \in Gen, o \in Obj : Made(g) /\ refs[g][o] = 0 => refs'[g][o] = 0]_vars
<1>1. ASSUME IInv, [Next]_vars, NEW g \in Gen, Made(g), NEW o \in Obj, refs[g][o] = 0
      PROVE  refs'[g][o] = 0
  <2> USE <1>1 DEF IInv
  <2>1. /\ o = "ims" /\ ~slotIms[g] /\ "ims" \notin ofono[g]
        /\ \A r \in pending : ~(r.gen = g /\ r.obj = "ims")
    BY FreedHasNoHolder
  <2>2. refs \in [Gen -> Refs] /\ refs[g] \in Refs
    BY DEF TypeOK
  <2>3. ASSUME NEW h \in Gen, NewSlot(h) PROVE refs'[g][o] = 0
    <3>1. h # g
      BY <2>3 DEF NewSlot, SlotsMade
    <3> QED BY <2>2, <2>3, <3>1 DEF NewSlot
  <2>4. ASSUME NEW h \in Gen, Shutdown(h) \/ FreeSlot(h) PROVE refs'[g][o] = 0
    <3>1. refs' = refs \/ (h # g /\ refs' = [refs EXCEPT ![h] = Unref(@, "ims")])
      BY <2>1, <2>4 DEF Shutdown, FreeSlot, Terminate
    <3> QED BY <2>2, <3>1
  <2>5. ASSUME NEW h \in Gen, NEW p \in Obj, refs' = [refs EXCEPT ![h][p] = @ + 1], p # "ims" \/ h # g
        PROVE  refs'[g][o] = 0
    BY <2>1, <2>2, <2>5 DEF Refs
  <2>6. ASSUME NEW h \in Gen, NEW p \in Obj, TakeInterface(h, p) PROVE refs'[g][o] = 0
    BY <2>1, <2>5, <2>6 DEF TakeInterface
  <2>7. ASSUME NEW h \in Gen, NEW p \in Obj, Submit(h, p) PROVE refs'[g][o] = 0
    <3>1. refs' = refs \/ (h # g /\ refs' = [refs EXCEPT ![h]["ims"] = @ + 1])
      BY <2>1, <2>7 DEF Submit
    <3> QED BY <2>2, <3>1
  <2>8. ASSUME NEW h \in Gen, NEW p \in {"call", "sms"}, refs' = [refs EXCEPT ![h] = Unref(@, p)]
        PROVE  refs'[g][o] = 0
    <3>1. Unref(refs[g], p)["ims"] = refs[g]["ims"]
      <4>1. /\ refs[g][p] >= 1 /\ p \in Obj /\ p # "ims"
            /\ refs[g]["ext"] = 3 + (IF refs[g]["ims"] > 0 THEN 1 ELSE 0)
        BY CountedFacts DEF CountedAt, Obj
      <4> QED BY <2>2, <4>1 DEF Unref, Refs, Obj
    <3> QED BY <2>1, <2>2, <2>8, <3>1
  <2>9. ASSUME NEW h \in Gen, refs' = [refs EXCEPT ![h] = Unref(@, "ims")], h # g
        PROVE  refs'[g][o] = 0
    BY <2>2, <2>9
  <2>10. ASSUME NEW h \in Gen, NEW p \in Obj, DropInterface(h, p) PROVE refs'[g][o] = 0
    <3>1. refs' = [refs EXCEPT ![h] = Unref(@, p)] /\ (p = "ims" => h # g)
      BY <2>1, <2>10 DEF DropInterface
    <3>2. p = "ims" \/ p \in {"call", "sms"}
      BY DEF Obj
    <3> QED BY <2>8, <2>9, <3>1, <3>2
  <2>11. ASSUME NEW r \in pending, refs' = IF r.obj = "ims"
                                           THEN [refs EXCEPT ![r.gen] = Unref(@, "ims")] ELSE refs
         PROVE  refs'[g][o] = 0
    <3>1. r.gen \in Gen /\ (r.obj = "ims" => r.gen # g)
      BY <2>1 DEF TypeOK, Request
    <3> QED BY <2>9, <2>11, <3>1
  <2>12. ASSUME NEW m \in mail, DeliverAnswer(m) PROVE refs'[g][o] = 0
    BY <2>11, <2>12, DeliverAnswerEffect
  <2>13. ASSUME NEW h \in Gen, CancelDial(h) PROVE refs'[g][o] = 0
    BY <2>11, <2>13, CancelDialEffect
  <2>14. ASSUME NEW h \in Gen, Dial(h) \/ DialEnds(h) PROVE refs'[g][o] = 0
    BY <2>1, <2>14, DialRefs
  <2> QED BY <2>3, <2>4, <2>6, <2>7, <2>10, <2>12, <2>13, <2>14
          DEF Next, vars, PluginInit, PluginExit, AnyAnswer, Answer, Indicate,
              AnyAnswerDelivered, DeliverIndication, ServiceDies, ServiceStarts
<1>2. IInv /\ [Next]_vars =>
        [\A g \in Gen, o \in Obj : Made(g) /\ refs[g][o] = 0 => refs'[g][o] = 0]_vars
  BY <1>1
<1> QED BY <1>2, IInvAlways, PTL DEF Spec

(* The extent of the use after free: the only object that is used after it *)
(* was freed is the MtkIms of a slot that was shut down or freed, whose    *)
(* interface ofono has given up; never one that a slot in service has, and *)
(* never the MtkImsCall or the MtkRadioExt.                                *)
THEOREM OnlyGivenUpImsUsed ==
  Spec => [](broken # 0 => /\ slot[broken] \in {"shut", "freed"}
                           /\ refs[broken]["ims"] = 0 /\ "ims" \notin ofono[broken]
                           /\ refs[broken]["call"] > 0 /\ refs[broken]["ext"] > 0)
<1> DEFINE Extent ==
      broken # 0 =>
        /\ slot[broken] \in {"shut", "freed"}
        /\ refs[broken]["ims"] = 0 /\ "ims" \notin ofono[broken]
        /\ refs[broken]["call"] > 0 /\ refs[broken]["ext"] > 0
<1>1. Init => Extent
  BY DEF Init
<1>2. IInv /\ SlotHolds /\ Extent /\ [Next]_vars => Extent'
  <2> SUFFICES ASSUME IInv, SlotHolds, Extent, [Next]_vars, broken' # 0 PROVE Extent'
    OBVIOUS
  <2> USE DEF IInv
  <2>1. CASE UNCHANGED vars
    BY <2>1 DEF vars
  <2>2. ASSUME NEW m \in mail, DeliverIndication(m), broken = 0 PROVE Extent'
    <3> DEFINE g == m.to
    <3>1. g \in Gen /\ Made(g)
      BY MailTyped DEF Targets
    <3>2. refs[g] \in Refs /\ refs[g]["call"] >= 1 /\ refs[g]["sms"] >= 1 /\ refs[g]["ext"] >= 3
      BY <3>1, CountedFacts
    <3>3. broken' = g /\ refs[g]["ims"] = 0 /\ UNCHANGED <<slot, refs, ofono>>
      BY <2>2, <3>2 DEF DeliverIndication
    <3>4. ~slotIms[g] /\ "ims" \notin ofono[g]
      BY <3>1, <3>3, FreedHasNoHolder DEF Obj
    <3>5. slot[g] \in {"shut", "freed"}
      BY <3>1, <3>4 DEF SlotHolds, SlotsMade, TypeOK
    <3> HIDE DEF g
    <3> QED BY <3>2, <3>3, <3>4, <3>5 DEF Refs, Obj
  <2>3. ASSUME NEW m \in mail, DeliverAnswer(m) PROVE broken' = broken
    BY <2>3, DeliverAnswerEffect
  <2> QED BY <2>1, <2>2, <2>3
          DEF Next, PluginInit, PluginExit, NewSlot, Shutdown, FreeSlot, TakeInterface,
              DropInterface, Submit, Dial, DialEnds, CancelDial, AnyAnswer, Answer, Indicate,
              AnyAnswerDelivered, ServiceDies, ServiceStarts
<1> HIDE DEF Extent
<1>3. Spec => []Extent
  BY <1>1, <1>2, IInvAlways, SlotHoldsAlways, PTL DEF Spec
<1> QED BY <1>3 DEF Extent
=============================================================================
