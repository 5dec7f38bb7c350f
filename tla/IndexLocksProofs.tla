-------------------------- MODULE IndexLocksProofs --------------------------
(***************************************************************************)
(* For any number of sectors, file types, calls and lock objects: the      *)
(* locks granted by IndexLocks never conflict.  The inductive invariant    *)
(* ties the counters of a sectorLock to the calls they stand for.          *)
(***************************************************************************)
EXTENDS IndexLocks, FiniteSetTheorems, TLAPS

\* The calls a reference count stands for: the ones that took a reference and
\* did not give it back, failed calls included.
Referrers(o) == {c \in Calls : obj[c] = o /\ pc[c] # "released"}

\* The calls a reader count stands for.
Readers(o, t) == {c \in Calls : Holds(c, o) /\ t \in req[c].read}

ObjInv ==
    /\ \A c \in Calls : Active(c) => obj[c] \in Objs
    /\ \A c \in Calls : pc[c] = "idle" => obj[c] = NoObj
    /\ \A c \in Calls : obj[c] \notin fresh
    /\ \A s \in Sectors : locks[s] \notin fresh
    /\ \A s, u \in Sectors : locks[s] = locks[u] /\ locks[s] # NoObj => s = u

CountInv ==
    /\ \A o \in Objs : refs[o] = Cardinality(Referrers(o))
    /\ \A o \in Objs, t \in FileTypes : r[o][t] = Cardinality(Readers(o, t))
    /\ \A o \in Objs, t \in FileTypes :
          t \in w[o] <=> \E c \in Calls : Holds(c, o) /\ t \in req[c].write

\* Calls that hold one and the same object do not conflict.
ExclusiveObj ==
    \A c, d \in Calls :
        /\ c # d
        /\ pc[c] = "held" /\ pc[d] = "held"
        /\ obj[c] = obj[d]
        => req[c].write \cap (req[d].read \cup req[d].write) = {}

IInv == TypeOK /\ ObjInv /\ ReferencedIsMapped /\ CountInv /\ ExclusiveObj /\ NoLostWakeup

-----------------------------------------------------------------------------
USE IndexLocksAssumption

\* The parts of a request have their types.
LEMMA RequestType ==
    ASSUME NEW q \in Requests
    PROVE  /\ q.sector \in Sectors
           /\ q.read \in SUBSET FileTypes
           /\ q.write \in SUBSET FileTypes
           /\ q.blocking \in BOOLEAN
OBVIOUS

\* The calls counted by refs and r form finite sets, whatever the state.
LEMMA CountedFinite ==
    ASSUME NEW o, NEW t
    PROVE  /\ IsFiniteSet(Referrers(o)) /\ Cardinality(Referrers(o)) \in Nat
           /\ IsFiniteSet(Readers(o, t)) /\ Cardinality(Readers(o, t)) \in Nat
<1>1. Referrers(o) \in SUBSET Calls /\ Readers(o, t) \in SUBSET Calls
  BY DEF Referrers, Readers
<1>2. QED
  BY <1>1, FS_Subset, FS_CardinalityType

\* The empty indexLocks that NewIndex builds satisfies the inductive invariant.
THEOREM InitIInv == Init => IInv
<1> SUFFICES ASSUME Init PROVE IInv
  OBVIOUS
<1>1. TypeOK
  BY DEF Init, TypeOK, PC
<1>2. ObjInv /\ ReferencedIsMapped /\ ExclusiveObj /\ NoLostWakeup
  BY DEF Init, ObjInv, ReferencedIsMapped, ExclusiveObj, NoLostWakeup, Active
<1>3. CountInv
  <2>1. ASSUME NEW o \in Objs PROVE Referrers(o) = {}
    BY DEF Init, Referrers
  <2>2. ASSUME NEW o \in Objs, NEW t \in FileTypes PROVE Readers(o, t) = {}
    BY DEF Init, Readers, Holds
  <2>3. QED
    BY Zenon, <2>1, <2>2, FS_EmptySet DEF Init, CountInv, Holds
<1>4. QED
  BY <1>1, <1>2, <1>3 DEF IInv

\* A step in which no call moves in or out of "held" and none takes or gives
\* back a reference keeps what the counters stand for.
LEMMA QuietStep ==
    ASSUME IInv, NEW c \in Calls, NEW p \in {"trying", "waiting", "failed"},
           pc[c] \in {"trying", "waiting", "woken"},
           pc' = [pc EXCEPT ![c] = p],
           p = "waiting" => ~ canLock(obj[c], req[c].read, req[c].write),
           UNCHANGED <<locks, fresh, r, w, refs, req, obj>>, ctxDone' = ctxDone
    PROVE  IInv'
<1>1. TypeOK'
  BY DEF IInv, TypeOK, PC
<1>2. ObjInv' /\ ReferencedIsMapped' /\ ExclusiveObj'
  BY DEF IInv, TypeOK, PC, ObjInv, ReferencedIsMapped, ExclusiveObj, Active
<1>3. NoLostWakeup'
  BY DEF IInv, TypeOK, PC, NoLostWakeup, canLock
<1>4. CountInv'
  <2>1. ASSUME NEW o PROVE Referrers(o)' = Referrers(o)
    BY DEF IInv, TypeOK, PC, Referrers
  <2>2. ASSUME NEW x \in Calls, NEW o PROVE Holds(x, o)' <=> Holds(x, o)
    BY DEF IInv, TypeOK, PC, Holds
  <2>3. ASSUME NEW o, NEW t PROVE Readers(o, t)' = Readers(o, t)
    BY <2>2 DEF Readers
  <2>4. QED
    BY <2>1, <2>2, <2>3 DEF IInv, CountInv
<1>5. QED
  BY <1>1, <1>2, <1>3, <1>4 DEF IInv

\* An empty request (lockWith's first early return) keeps the invariant.
LEMMA EmptyIInv ==
    ASSUME IInv, NEW c \in Calls, lockWithEmpty(c)
    PROVE  IInv'
<1> USE DEF lockWithEmpty
<1>1. TypeOK'
  BY DEF IInv, TypeOK, PC
<1>2. ObjInv' /\ ReferencedIsMapped' /\ ExclusiveObj'
  BY DEF IInv, TypeOK, PC, ObjInv, ReferencedIsMapped, ExclusiveObj, Active
<1>3. NoLostWakeup'
  BY DEF IInv, TypeOK, PC, NoLostWakeup, canLock
<1>4. CountInv'
  <2>1. ASSUME NEW o PROVE Referrers(o)' = Referrers(o)
    BY DEF IInv, TypeOK, PC, Referrers
  <2>2. ASSUME NEW x \in Calls, NEW o PROVE Holds(x, o)' <=> Holds(x, o)
    BY DEF IInv, TypeOK, PC, Holds
  <2>3. ASSUME NEW o, NEW t PROVE Readers(o, t)' = Readers(o, t)
    BY <2>2 DEF Readers
  <2>4. QED
    BY <2>1, <2>2, <2>3 DEF IInv, CountInv
<1>5. QED
  BY <1>1, <1>2, <1>3, <1>4 DEF IInv

\* Taking a reference, on the mapped lock or on a new one, keeps the invariant.
LEMMA RefIInv ==
    ASSUME IInv, NEW c \in Calls, lockWithRef(c)
    PROVE  IInv'
<1>1. PICK o \in Objs :
        /\ \/ locks[req[c].sector] = o /\ UNCHANGED <<locks, fresh>>
           \/ /\ locks[req[c].sector] = NoObj
              /\ o \in fresh
              /\ fresh' = fresh \ {o}
              /\ locks' = [locks EXCEPT ![req[c].sector] = o]
        /\ refs' = [refs EXCEPT ![o] = @ + 1]
        /\ obj' = [obj EXCEPT ![c] = o]
  BY Zenon DEF lockWithRef
<1>2. /\ pc[c] = "idle" /\ pc' = [pc EXCEPT ![c] = "trying"]
      /\ UNCHANGED <<r, w, ctxDone, req>>
      /\ req[c] \in Requests /\ req[c].sector \in Sectors
      /\ obj[c] = NoObj /\ o # NoObj
  BY DEF lockWithRef, IInv, TypeOK, ObjInv
<1>3. TypeOK'
  BY SMTT(30), <1>1, <1>2 DEF IInv, TypeOK, PC
<1>4. ObjInv'
  <2>1. CASE locks[req[c].sector] = o /\ UNCHANGED <<locks, fresh>>
    BY <1>1, <1>2, <2>1 DEF IInv, TypeOK, PC, ObjInv, Active
  <2>2. CASE /\ locks[req[c].sector] = NoObj /\ o \in fresh
             /\ fresh' = fresh \ {o}
             /\ locks' = [locks EXCEPT ![req[c].sector] = o]
    <3>1. \A s \in Sectors : locks[s] # o
      BY <2>2 DEF IInv, ObjInv
    <3>2. \A s, u \in Sectors : locks'[s] = locks'[u] /\ locks'[s] # NoObj => s = u
      BY <1>2, <2>2, <3>1 DEF IInv, TypeOK, ObjInv
    <3>3. \A s \in Sectors : locks'[s] \notin fresh'
      BY <1>2, <2>2 DEF IInv, TypeOK, ObjInv
    <3>4. QED
      BY <1>1, <1>2, <2>2, <3>2, <3>3 DEF IInv, TypeOK, PC, ObjInv, Active
  <2>3. QED
    BY <1>1, <2>1, <2>2
<1>5. ReferencedIsMapped'
  BY SMTT(30), <1>1, <1>2 DEF IInv, TypeOK, PC, ObjInv, ReferencedIsMapped, Active
<1>6. ExclusiveObj' /\ NoLostWakeup'
  <2>1. \A x \in Calls : pc'[x] # "trying" => x # c /\ pc'[x] = pc[x] /\ obj'[x] = obj[x]
    BY <1>1, <1>2 DEF IInv, TypeOK
  <2>2. ExclusiveObj'
    BY <1>2, <2>1 DEF IInv, ExclusiveObj
  <2>3. NoLostWakeup'
    BY Zenon, <1>2, <2>1 DEF IInv, NoLostWakeup, canLock
  <2>4. QED
    BY <2>2, <2>3
<1>7. CountInv'
  <2>1. Referrers(o)' = Referrers(o) \cup {c} /\ c \notin Referrers(o)
    BY <1>1, <1>2 DEF IInv, TypeOK, PC, Referrers
  <2>2. ASSUME NEW x, x # o, x # NoObj PROVE Referrers(x)' = Referrers(x)
    BY <1>1, <1>2, <2>2 DEF IInv, TypeOK, PC, Referrers
  <2>3. ASSUME NEW x \in Calls, NEW y \in Objs PROVE Holds(x, y)' <=> Holds(x, y)
    BY <1>1, <1>2 DEF IInv, TypeOK, PC, Holds
  <2>4. ASSUME NEW y \in Objs, NEW t PROVE Readers(y, t)' = Readers(y, t)
    BY <1>2, <2>3 DEF Readers
  <2>5. Cardinality(Referrers(o)') = Cardinality(Referrers(o)) + 1
    BY Zenon, <2>1, CountedFinite, FS_AddElement
  <2>6. \A y \in Objs : refs'[y] = Cardinality(Referrers(y)')
    BY <1>1, <2>2, <2>5 DEF IInv, TypeOK, CountInv
  <2>7. QED
    BY <1>2, <2>3, <2>4, <2>6 DEF IInv, CountInv
<1>8. QED
  BY <1>3, <1>4, <1>5, <1>6, <1>7 DEF IInv

\* A granted tryLock keeps the counters exact and grants no conflict.
LEMMA TryLockIInv ==
    ASSUME IInv, NEW c \in Calls, tryLock(c)
    PROVE  IInv'
<1> DEFINE o == obj[c]
           q == req[c]
<1>1. /\ pc[c] = "trying" /\ pc' = [pc EXCEPT ![c] = "held"]
      /\ UNCHANGED <<locks, fresh, refs, ctxDone, req, obj>>
      /\ o \in Objs /\ q \in Requests /\ q.read \in SUBSET FileTypes
      /\ q.write \in SUBSET FileTypes
  BY SMTT(30) DEF tryLock, IInv, TypeOK, ObjInv, Active
<1>2. r' = [r EXCEPT ![o] = [t \in FileTypes |-> r[o][t] + IF t \in q.read THEN 1 ELSE 0]]
  BY DEF tryLock, IInv, TypeOK
<1>3. w' = [w EXCEPT ![o] = w[o] \cup q.write]
  BY DEF tryLock, IInv, TypeOK
<1>4. canLock(o, q.read, q.write)
  BY DEF tryLock
<1> HIDE DEF o, q
<1>5. TypeOK'
  <2>1. r' \in [Objs -> [FileTypes -> Nat]]
    BY <1>1, <1>2 DEF IInv, TypeOK
  <2>2. w' \in [Objs -> SUBSET FileTypes]
    BY SMTT(30), <1>1, <1>3 DEF IInv, TypeOK
  <2>3. QED
    BY <1>1, <2>1, <2>2 DEF IInv, TypeOK, PC
<1>6. ObjInv' /\ ReferencedIsMapped'
  BY <1>1 DEF IInv, TypeOK, PC, ObjInv, ReferencedIsMapped, Active
<1>7. \A x \in Calls, y \in Objs :
        Holds(x, y)' <=> Holds(x, y) \/ (x = c /\ y = o)
  BY <1>1 DEF IInv, TypeOK, PC, Holds, o
<1>8. ~ Holds(c, o)
  BY Zenon, <1>1 DEF Holds
<1>9. CountInv'
  <2>1. ASSUME NEW y \in Objs PROVE Referrers(y)' = Referrers(y)
    BY <1>1 DEF IInv, TypeOK, PC, Referrers
  <2>2. ASSUME NEW y \in Objs, NEW t \in FileTypes
        PROVE  r'[y][t] = Cardinality(Readers(y, t)')
    <3>1. CASE y = o /\ t \in q.read
      <4>1. Readers(y, t)' = Readers(y, t) \cup {c} /\ c \notin Readers(y, t)
        BY <1>1, <1>7, <1>8, <3>1 DEF Readers, q
      <4>2. Cardinality(Readers(y, t)') = Cardinality(Readers(y, t)) + 1
        BY Zenon, <4>1, CountedFinite, FS_AddElement
      <4>3. r'[y][t] = r[y][t] + 1
        BY <1>1, <1>2, <3>1 DEF IInv, TypeOK
      <4>4. QED
        BY Zenon, <4>2, <4>3 DEF IInv, CountInv
    <3>2. CASE ~(y = o /\ t \in q.read)
      <4>1. Readers(y, t)' = Readers(y, t)
        BY <1>1, <1>7, <3>2 DEF Readers, q
      <4>2. r'[y][t] = r[y][t]
        BY <1>1, <1>2, <3>2 DEF IInv, TypeOK
      <4>3. QED
        BY <4>1, <4>2 DEF IInv, CountInv
    <3>3. QED
      BY <3>1, <3>2
  <2>3. ASSUME NEW y \in Objs, NEW t \in FileTypes
        PROVE  t \in w'[y] <=> \E x \in Calls : Holds(x, y)' /\ t \in req'[x].write
    <3>1. t \in w'[y] <=> t \in w[y] \/ (y = o /\ t \in q.write)
      BY Zenon, <1>1, <1>3 DEF IInv, TypeOK
    <3>2. t \in w[y] <=> \E x \in Calls : Holds(x, y) /\ t \in req[x].write
      BY DEF IInv, CountInv
    <3>3. req' = req
      BY Zenon, <1>1
    <3>4. QED
      BY <1>7, <3>1, <3>2, <3>3 DEF q
  <2>4. QED
    BY <1>1, <2>1, <2>2, <2>3 DEF IInv, CountInv
<1>10. ExclusiveObj'
  <2>1. ASSUME NEW d \in Calls, Holds(d, o)
        PROVE  /\ q.write \cap (req[d].read \cup req[d].write) = {}
               /\ req[d].write \cap (q.read \cup q.write) = {}
    <3>1. \A t \in q.write : Readers(o, t) = {}
      BY SMTT(30), <1>1, <1>4, CountedFinite, FS_EmptySet DEF IInv, CountInv, canLock
    <3>2. q.write \cap req[d].read = {}
      BY SMTT(30), <2>1, <3>1 DEF Readers
    <3>3. req[d].write \subseteq w[o]
      BY Zenon, <1>1, <2>1, RequestType DEF IInv, TypeOK, CountInv
    <3>4. QED
      BY Zenon, <1>4, <3>2, <3>3 DEF canLock
  <2>2. QED
    BY SMTT(30), <1>1, <2>1 DEF IInv, TypeOK, PC, ExclusiveObj, Holds, o, q
<1>11. NoLostWakeup'
  <2> SUFFICES ASSUME NEW x \in Calls, pc'[x] = "waiting",
                      canLock(obj[x], req[x].read, req[x].write)'
               PROVE  FALSE
    BY <1>1 DEF NoLostWakeup, canLock
  <2>1. pc[x] = "waiting" /\ obj[x] \in Objs /\ req[x] \in Requests
    BY <1>1 DEF IInv, TypeOK, PC, ObjInv, Active
  <2>2. \A y \in Objs, t \in FileTypes : r[y][t] <= r'[y][t]
    BY <1>1, <1>2 DEF IInv, TypeOK
  <2>3. \A y \in Objs : w[y] \subseteq w'[y]
    BY <1>1, <1>3 DEF IInv, TypeOK
  <2>4. req'[x] = req[x] /\ obj'[x] = obj[x]
    BY Zenon, <1>1
  <2>5. \A t \in req[x].write : r[obj[x]][t] = 0
    BY <2>1, <2>2, <2>4, RequestType DEF IInv, TypeOK, canLock
  <2>6. w[obj[x]] \cap (req[x].read \cup req[x].write) = {}
    BY <2>1, <2>3, <2>4 DEF canLock
  <2>7. QED
    BY Zenon, <2>1, <2>5, <2>6 DEF IInv, NoLostWakeup, canLock
<1>12. QED
  BY <1>5, <1>6, <1>9, <1>10, <1>11 DEF IInv

\* The release goroutine gives back exactly what its call took: w is a set of
\* bits, so w \ write is right only because no other holder shares them.
LEMMA ReleaseIInv ==
    ASSUME IInv, NEW c \in Calls, Release(c)
    PROVE  IInv'
<1> DEFINE o == obj[c]
           q == req[c]
<1>1. /\ pc[c] = "held"
      /\ pc' = [x \in Calls |-> IF x = c THEN "released"
                               ELSE IF pc[x] = "waiting" /\ obj[x] = o THEN "woken"
                               ELSE pc[x]]
      /\ UNCHANGED <<fresh, ctxDone, req, obj>>
      /\ o \in Objs /\ q \in Requests /\ q.read \in SUBSET FileTypes
      /\ q.write \in SUBSET FileTypes /\ q.sector \in Sectors
      /\ locks[q.sector] = o
  BY DEF Release, unlock, Broadcast, IInv, TypeOK, ObjInv, ReferencedIsMapped, Active
<1>2. r' = [r EXCEPT ![o] = [t \in FileTypes |-> r[o][t] - IF t \in q.read THEN 1 ELSE 0]]
  BY DEF Release, unlock, IInv, TypeOK
<1>3. w' = [w EXCEPT ![o] = w[o] \ q.write]
  BY DEF Release, unlock, IInv, TypeOK
<1>4. refs' = [refs EXCEPT ![o] = refs[o] - 1]
  BY DEF Release, unref, IInv, TypeOK
<1>5. locks' = IF refs'[o] = 0 THEN [locks EXCEPT ![q.sector] = NoObj] ELSE locks
  BY DEF Release, unref
<1>6. \A x \in Calls, y \in Objs :
        Holds(x, y)' <=> Holds(x, y) /\ x # c
  BY <1>1 DEF IInv, TypeOK, PC, Holds
<1>7. Holds(c, o) /\ \A y \in Objs : Holds(c, y) => y = o
  BY SMTT(30), <1>1 DEF Holds
<1>8. Referrers(o)' = Referrers(o) \ {c} /\ c \in Referrers(o)
  BY <1>1 DEF IInv, TypeOK, PC, Referrers
<1>9. \A y \in Objs : y # o => Referrers(y)' = Referrers(y)
  BY SMTT(30), <1>1 DEF IInv, TypeOK, PC, Referrers
<1>10. \A x \in Calls : pc'[x] = "held" <=> pc[x] = "held" /\ x # c
  BY <1>1 DEF IInv, TypeOK, PC
<1>o. o' = o
  BY <1>1
<1> HIDE DEF o, q
<1>11. Cardinality(Referrers(o)') = refs[o] - 1
  <2>1. IsFiniteSet(Referrers(o)) /\ Cardinality(Referrers(o)) = refs[o]
    BY Zenon, <1>1, CountedFinite DEF IInv, CountInv
  <2>2. QED
    BY Zenon, <1>8, <2>1, FS_RemoveElement
<1>12. Cardinality(Referrers(o)') \in Nat /\ IsFiniteSet(Referrers(o)')
  BY ZenonT(40), <1>8, CountedFinite, FS_RemoveElement, FS_CardinalityType
<1>13. \A y \in Objs, t \in FileTypes :
          r'[y][t] = Cardinality(Readers(y, t)') /\ r'[y][t] \in Nat
  <2> SUFFICES ASSUME NEW y \in Objs, NEW t \in FileTypes
               PROVE  r'[y][t] = Cardinality(Readers(y, t)') /\ r'[y][t] \in Nat
    OBVIOUS
  <2>1. CASE y = o /\ t \in q.read
    <3>1. Readers(y, t)' = Readers(y, t) \ {c} /\ c \in Readers(y, t)
      BY Zenon, <1>1, <1>6, <1>7, <2>1 DEF Readers, q
    <3>2. IsFiniteSet(Readers(y, t)) /\ Cardinality(Readers(y, t)) \in Nat
      BY CountedFinite
    <3>3. /\ Cardinality(Readers(y, t)') = Cardinality(Readers(y, t)) - 1
          /\ Cardinality(Readers(y, t)') \in Nat
      BY <3>1, <3>2, FS_RemoveElement, FS_CardinalityType
    <3>4. r'[y][t] = r[y][t] - 1
      BY Zenon, <1>1, <1>2, <2>1 DEF IInv, TypeOK
    <3>5. QED
      BY <3>3, <3>4 DEF IInv, CountInv
  <2>2. CASE ~(y = o /\ t \in q.read)
    <3>1. Readers(y, t)' = Readers(y, t)
      BY <1>1, <1>6, <1>7, <2>2 DEF Readers, q
    <3>2. r'[y][t] = r[y][t]
      BY SMTT(30), <1>1, <1>2, <2>2 DEF IInv, TypeOK
    <3>3. QED
      BY <3>1, <3>2, CountedFinite DEF IInv, CountInv
  <2>3. QED
    BY <2>1, <2>2
<1>14. TypeOK'
  <2>1. r' \in [Objs -> [FileTypes -> Nat]]
    BY SMTT(30), <1>1, <1>2, <1>13 DEF IInv, TypeOK
  <2>2. w' \in [Objs -> SUBSET FileTypes]
    BY SMTT(30), <1>1, <1>3 DEF IInv, TypeOK
  <2>3. refs' \in [Objs -> Nat]
    BY <1>1, <1>4, <1>11, <1>12 DEF IInv, TypeOK
  <2>4. locks' \in [Sectors -> Objs \cup {NoObj}]
    BY Zenon, <1>5 DEF IInv, TypeOK
  <2>5. pc' \in [Calls -> PC]
    BY <1>1 DEF IInv, TypeOK, PC
  <2>6. QED
    BY Zenon, <1>1, <2>1, <2>2, <2>3, <2>4, <2>5 DEF IInv, TypeOK
<1>15. \A x \in Calls : Active(x)' => Active(x) /\ x # c
  BY Zenon, <1>1 DEF IInv, TypeOK, PC, Active
<1>16. ObjInv'
  <2>1. \A s \in Sectors : locks'[s] = locks[s] \/ locks'[s] = NoObj
    BY <1>5 DEF IInv, TypeOK
  <2>2. \A x \in Calls : pc'[x] = "idle" => pc[x] = "idle"
    BY SMTT(30), <1>1 DEF IInv, TypeOK
  <2>3. \A s \in Sectors : locks'[s] \notin fresh'
    BY ZenonT(40), <1>1, <2>1 DEF IInv, TypeOK, ObjInv
  <2>4. \A s, u \in Sectors : locks'[s] = locks'[u] /\ locks'[s] # NoObj => s = u
    BY <2>1 DEF IInv, ObjInv
  <2>5. QED
    BY <1>1, <1>15, <2>2, <2>3, <2>4 DEF IInv, ObjInv
<1>17. ReferencedIsMapped'
  <2> SUFFICES ASSUME NEW x \in Calls, Active(x)'
               PROVE  locks'[req[x].sector] = obj[x]
    BY <1>1 DEF ReferencedIsMapped
  <2>1. Active(x) /\ x # c /\ locks[req[x].sector] = obj[x] /\ req[x].sector \in Sectors
    BY <1>15 DEF IInv, TypeOK, ReferencedIsMapped
  <2>2. CASE refs'[o] = 0
    <3>1. Referrers(o)' = {}
      BY Zenon, <1>1, <1>4, <1>11, <1>12, <2>2, FS_EmptySet DEF IInv, TypeOK
    <3>2. obj[x] # o
      BY Zenon, <1>8, <2>1, <3>1 DEF Referrers, Active
    <3>3. req[x].sector # q.sector
      BY SMTT(30), <1>1, <2>1, <3>2
    <3>4. QED
      BY Zenon, <1>5, <2>1, <2>2, <3>3 DEF IInv, TypeOK
  <2>3. CASE refs'[o] # 0
    BY Zenon, <1>5, <2>1, <2>3
  <2>4. QED
    BY Zenon, <2>2, <2>3
<1>18. ExclusiveObj'
  BY Zenon, <1>1, <1>10 DEF IInv, ExclusiveObj
<1>19. CountInv'
  <2>1. \A y \in Objs : refs'[y] = Cardinality(Referrers(y)')
    <3>1. \A y \in Objs : y # o => refs'[y] = refs[y]
      BY Zenon, <1>4 DEF IInv, TypeOK
    <3>2. refs'[o] = refs[o] - 1
      BY Zenon, <1>1, <1>4 DEF IInv, TypeOK
    <3>3. QED
      BY SMTT(30), <1>o, <1>9, <1>11, <3>1, <3>2 DEF IInv, CountInv
  <2>2. ASSUME NEW y \in Objs, NEW t \in FileTypes
        PROVE  t \in w'[y] <=> \E x \in Calls : Holds(x, y)' /\ t \in req'[x].write
    <3>1. t \in w'[y] <=> t \in w[y] /\ ~(y = o /\ t \in q.write)
      BY <1>1, <1>3 DEF IInv, TypeOK
    <3>2. t \in w[y] <=> \E x \in Calls : Holds(x, y) /\ t \in req[x].write
      BY DEF IInv, CountInv
    <3>3. req' = req
      BY Zenon, <1>1
    <3>4. \A x \in Calls : x # c /\ Holds(x, o) /\ t \in req[x].write => t \notin q.write
      BY Zenon, <1>1, <1>7 DEF IInv, ExclusiveObj, Holds, o, q
    <3>5. QED
      BY Zenon, <1>6, <1>7, <3>1, <3>2, <3>3, <3>4 DEF q
  <2>3. QED
    BY Zenon, <1>13, <2>1, <2>2 DEF CountInv
<1>20. NoLostWakeup'
  <2> SUFFICES ASSUME NEW x \in Calls, pc'[x] = "waiting"
               PROVE  ~ canLock(obj[x], req[x].read, req[x].write)'
    BY Zenon, <1>1 DEF NoLostWakeup
  <2>1. pc[x] = "waiting" /\ obj[x] # o /\ obj[x] \in Objs /\ req[x] \in Requests
    BY Zenon, <1>1 DEF IInv, TypeOK, PC, ObjInv, Active
  <2>2. r'[obj[x]] = r[obj[x]] /\ w'[obj[x]] = w[obj[x]]
    BY Zenon, <1>2, <1>3, <2>1 DEF IInv, TypeOK
  <2>3. QED
    BY Zenon, <1>1, <2>1, <2>2 DEF IInv, NoLostWakeup, canLock
<1>21. QED
  BY Zenon, <1>14, <1>16, <1>17, <1>18, <1>19, <1>20 DEF IInv

\* Contexts may end at any moment.
LEMMA CtxIInv ==
    ASSUME IInv, UNCHANGED <<locks, fresh, r, w, refs, pc, req, obj>>,
           ctxDone' \in SUBSET Calls
    PROVE  IInv'
<1>1. TypeOK' /\ ObjInv' /\ ReferencedIsMapped' /\ ExclusiveObj' /\ NoLostWakeup'
  BY SMTT(30) DEF IInv, TypeOK, ObjInv, ReferencedIsMapped, ExclusiveObj, NoLostWakeup, Active, canLock
<1>2. CountInv'
  BY DEF IInv, CountInv, Referrers, Readers, Holds
<1>3. QED
  BY Zenon, <1>1, <1>2 DEF IInv

\* Every step of the specification preserves the inductive invariant.
THEOREM NextIInv == IInv /\ [Next]_vars => IInv'
<1> SUFFICES ASSUME IInv, [Next]_vars PROVE IInv'
  OBVIOUS
<1>1. ASSUME NEW c \in Calls, lockWithEmpty(c) PROVE IInv'
  BY <1>1, EmptyIInv
<1>2. ASSUME NEW c \in Calls, lockWithRef(c) PROVE IInv'
  BY SMTT(30), <1>2, RefIInv
<1>3. ASSUME NEW c \in Calls, tryLock(c) PROVE IInv'
  BY <1>3, TryLockIInv
<1>4. ASSUME NEW c \in Calls, tryLockFails(c) PROVE IInv'
  BY Zenon, <1>4, QuietStep DEF tryLockFails
<1>5. ASSUME NEW c \in Calls, Wake(c) PROVE IInv'
  BY Zenon, <1>5, QuietStep DEF Wake
<1>6. ASSUME NEW c \in Calls, WaitFails(c) PROVE IInv'
  BY Zenon, <1>6, QuietStep DEF WaitFails
<1>7. ASSUME NEW c \in Calls, Release(c) PROVE IInv'
  BY <1>7, ReleaseIInv
<1>8. ASSUME NEW c \in Calls, CtxDone(c) PROVE IInv'
  BY Zenon, <1>8, CtxIInv DEF CtxDone, IInv, TypeOK
<1>9. CASE UNCHANGED vars
  BY <1>9, CtxIInv DEF vars, IInv, TypeOK
<1>10. QED
  BY <1>1, <1>2, <1>3, <1>4, <1>5, <1>6, <1>7, <1>8, <1>9 DEF Next, CallStep

\* The invariant holds in every state indexLocks can reach.
THEOREM Invariance == Spec => []IInv
  BY InitIInv, NextIInv, PTL DEF Spec

\* The counters of a sectorLock stay within their types: in particular no
\* reader count and no reference count is taken below zero by unlock.
THEOREM TypesHold == Spec => []TypeOK
<1>1. IInv => TypeOK
  BY Zenon DEF IInv
<1>2. QED
  BY <1>1, Invariance, PTL

\* indexLocks never grants conflicting locks of one sector, whatever the number
\* of calls, contexts that end at any moment included.
THEOREM LocksExclude == Spec => []MutualExclusion
<1>1. IInv => MutualExclusion
  BY DEF IInv, ReferencedIsMapped, ExclusiveObj, MutualExclusion, Active
<1>2. QED
  BY <1>1, Invariance, PTL

\* A lock in use is never dropped from the map by delete(i.locks, sector).
THEOREM LocksStayMapped == Spec => []ReferencedIsMapped
<1>1. IInv => ReferencedIsMapped
  BY DEF IInv
<1>2. QED
  BY <1>1, Invariance, PTL

\* ctxCond loses no wake-up: a call that sleeps unnotified could not be granted.
THEOREM WakeupsReach == Spec => []NoLostWakeup
<1>1. IInv => NoLostWakeup
  BY Zenon DEF IInv
<1>2. QED
  BY <1>1, Invariance, PTL

-----------------------------------------------------------------------------
(* The refinement of SectorLocks. *)

Statuses == [c \in Calls |-> statusOf(pc[c])]

\* Calls that use one object are calls for one sector: locks is injective on
\* the objects in use.
LEMMA SameSector ==
    ASSUME IInv, NEW c \in Calls, NEW d \in Calls, Active(c), Active(d)
    PROVE  obj[c] = obj[d] <=> req[c].sector = req[d].sector
<1>1. /\ req[c].sector \in Sectors /\ req[d].sector \in Sectors
      /\ locks[req[c].sector] = obj[c] /\ locks[req[d].sector] = obj[d]
      /\ obj[c] \in Objs /\ obj[c] # NoObj
  BY Zenon, RequestType DEF IInv, TypeOK, ReferencedIsMapped, ObjInv
<1>2. QED
  BY Zenon, <1>1 DEF IInv, ObjInv

\* canLock tells exactly whether a granted call stands in the way: the counters
\* and the write bits stand for the calls that hold the object.
LEMMA CanLockExact ==
    ASSUME IInv, NEW c \in Calls, pc[c] \in {"trying", "waiting", "woken"}
    PROVE  canLock(obj[c], req[c].read, req[c].write) <=> SL!Blockers(c) = {}
<1> DEFINE o == obj[c]
           q == req[c]
<1>1. /\ o \in Objs /\ q \in Requests /\ Active(c)
      /\ q.read \subseteq FileTypes /\ q.write \subseteq FileTypes
  BY Zenon, RequestType DEF IInv, TypeOK, ObjInv, Active
<1>2. \A d \in Calls : Holds(d, o) <=> pc[d] = "held" /\ req[d].sector = q.sector
  BY Zenon, <1>1, SameSector DEF Holds, Active
<1>3. \A d \in Calls : statusOf(pc[d]) = "granted" <=> pc[d] = "held"
  BY Zenon DEF IInv, TypeOK, PC, statusOf
<1>4. SL!Blockers(c) = {d \in Calls : Holds(d, o) /\ SL!conflict(q, req[d])}
  BY SMTT(30), <1>2, <1>3 DEF SL!Blockers, SL!conflict
<1>5. \A t \in FileTypes : r[o][t] = 0 <=> ~ \E d \in Calls : Holds(d, o) /\ t \in req[d].read
  <2>1. \A t \in FileTypes : r[o][t] = 0 <=> Readers(o, t) = {}
    BY Zenon, <1>1, CountedFinite, FS_EmptySet DEF IInv, CountInv
  <2>2. QED
    BY Zenon, <2>1 DEF Readers
<1>6. \A t \in FileTypes : t \in w[o] <=> \E d \in Calls : Holds(d, o) /\ t \in req[d].write
  BY <1>1 DEF IInv, CountInv
<1>7. \A d \in Calls : Holds(d, o) => req[d].sector = q.sector
  BY Zenon, <1>2
<1> HIDE DEF o, q
<1>8. canLock(o, q.read, q.write) <=>
        \A d \in Calls : Holds(d, o) => /\ q.write \cap (req[d].read \cup req[d].write) = {}
                                       /\ req[d].write \cap (q.read \cup q.write) = {}
  BY <1>1, <1>5, <1>6 DEF canLock
<1>9. QED
  BY Zenon, <1>4, <1>7, <1>8 DEF SL!conflict, o, q

\* Only a StorageLock waits.
OnlyBlockingWait == \A c \in Calls : pc[c] \in {"waiting", "woken"} => req[c].blocking

\* StorageTryLock passes tryLockSafe, which does not wait.
LEMMA BlockingWaits == Spec => []OnlyBlockingWait
<1>1. Init => OnlyBlockingWait
  BY DEF Init, OnlyBlockingWait
<1>2. ASSUME IInv, OnlyBlockingWait, [Next]_vars PROVE OnlyBlockingWait'
  <2>1. ASSUME NEW c \in Calls, lockWithEmpty(c) \/ lockWithRef(c) \/ tryLock(c) \/ tryLockFails(c)
                                \/ Wake(c) \/ WaitFails(c)
        PROVE  OnlyBlockingWait'
    BY SMTT(30), <1>2, <2>1 DEF IInv, TypeOK, OnlyBlockingWait, lockWithEmpty, lockWithRef, tryLock,
                      tryLockFails, Wake, WaitFails
  <2>2. ASSUME NEW c \in Calls, Release(c) PROVE OnlyBlockingWait'
    BY ZenonT(40), <1>2, <2>2 DEF OnlyBlockingWait, Release, unlock, Broadcast
  <2>3. ASSUME NEW c \in Calls, CtxDone(c) PROVE OnlyBlockingWait'
    BY Zenon, <1>2, <2>3 DEF OnlyBlockingWait, CtxDone
  <2>4. CASE UNCHANGED vars
    BY SMTT(30), <1>2, <2>4 DEF OnlyBlockingWait, vars
  <2>5. QED
    BY Zenon, <1>2, <2>1, <2>2, <2>3, <2>4 DEF Next, CallStep
<1>3. QED
  BY <1>1, <1>2, Invariance, PTL DEF Spec

\* A step that moves only call c, from what a caller sees as x to y.
LEMMA BecomeStep ==
    ASSUME IInv, NEW c \in Calls, NEW p \in PC, pc' = [pc EXCEPT ![c] = p],
           ctxDone' = ctxDone, req' = req
    PROVE  /\ Statuses' = [Statuses EXCEPT ![c] = statusOf(p)]
           /\ statusOf(p) = statusOf(pc[c]) => Statuses' = Statuses
  BY ZenonT(40) DEF IInv, TypeOK, Statuses

\* Every step of indexLocks is one of SectorLocks, or one no caller sees.
LEMMA StepRefines ==
    ASSUME IInv, OnlyBlockingWait, [Next]_vars
    PROVE  [SL!Next]_(SL!vars)
<1> USE DEF SL!vars, SL!become
<1>1. ASSUME NEW c \in Calls, lockWithEmpty(c) PROVE SL!Refuse(c)
  BY ZenonT(40), <1>1, BecomeStep DEF lockWithEmpty, SL!Refuse, SL!empty, Statuses, statusOf, PC
<1>2. ASSUME NEW c \in Calls, lockWithRef(c) PROVE SL!Ask(c)
  BY ZenonT(40), <1>2, BecomeStep DEF lockWithRef, SL!Ask, SL!empty, Statuses, statusOf, PC
<1>3. ASSUME NEW c \in Calls, tryLock(c) PROVE SL!Grant(c)
  BY ZenonT(40), <1>3, BecomeStep, CanLockExact DEF tryLock, SL!Grant, Statuses, statusOf, PC
<1>4. ASSUME NEW c \in Calls, tryLockFails(c) PROVE SL!Refuse(c) \/ UNCHANGED SL!vars
  BY ZenonT(40), <1>4, BecomeStep, CanLockExact DEF tryLockFails, SL!Refuse, Statuses, statusOf, PC
<1>5. ASSUME NEW c \in Calls, Wake(c) PROVE UNCHANGED SL!vars
  BY ZenonT(40), <1>5, BecomeStep DEF Wake, Statuses, statusOf, PC
<1>6. ASSUME NEW c \in Calls, WaitFails(c) PROVE SL!Refuse(c)
  BY ZenonT(40), <1>6, BecomeStep DEF OnlyBlockingWait, WaitFails, SL!Refuse, Statuses, statusOf, PC
<1>7. ASSUME NEW c \in Calls, Release(c) PROVE SL!GiveBack(c)
  BY Zenon, <1>7 DEF Release, unlock, Broadcast, SL!GiveBack, statusOf, IInv, TypeOK, PC
<1>8. ASSUME NEW c \in Calls, CtxDone(c) PROVE SL!ContextEnds(c)
  BY Zenon, <1>8 DEF CtxDone, SL!ContextEnds
<1>9. CASE UNCHANGED vars
  BY <1>9 DEF vars
<1>10. QED
  BY Zenon, <1>1, <1>2, <1>3, <1>4, <1>5, <1>6, <1>7, <1>8, <1>9 DEF Next, CallStep, SL!Next

\* indexLocks implements the locks of SectorLocks, for any sectors, file types,
\* calls and lock objects: what StorageLock and StorageTryLock grant and refuse
\* is what a caller that knows nothing of objects and counters expects.
THEOREM LocksRefine == Spec => ImplementsSectorLocks
<1>1. Init => SL!Init
  BY DEF Init, SL!Init, statusOf
<1>2. IInv /\ OnlyBlockingWait /\ [Next]_vars => [SL!Next]_(SL!vars)
  BY StepRefines
<1>3. QED
  BY <1>1, <1>2, Invariance, BlockingWaits, PTL DEF Spec, ImplementsSectorLocks, SL!Spec
=============================================================================
