-------------------------- MODULE PalHandlesProofs --------------------------
(***************************************************************************)
(* Proofs about the PAL handle table, for any number of threads, slots,    *)
(* resource types and opens: the guards and generations that keep a        *)
(* resource to its owner, and the table of capabilities it implements.     *)
(***************************************************************************)
EXTENDS PalHandles, TLAPS

\* A bumped generation is still a generation.
LEMMA NextGenerationType ==
  ASSUME NEW g \in 0 .. GenMod - 1
  PROVE  NextGeneration(g) \in 0 .. GenMod - 1
  BY HandleAssumption DEF NextGeneration

\* Below the last generation the modulus does nothing.
LEMMA NextGenerationNoWrap ==
  ASSUME NEW g \in 0 .. GenMod - 1, g < GenMod - 1
  PROVE  NextGeneration(g) = g + 1
  BY HandleAssumption DEF NextGeneration

\* Every PAL call keeps the table, the calls and the history well-typed.
LEMMA TypeStep == TypeOK /\ [Next]_vars => TypeOK'
<1> SUFFICES ASSUME TypeOK, [Next]_vars PROVE TypeOK'
  OBVIOUS
<1>0. NoCall \in Call /\ 0 \in Slots
  BY HandleAssumption DEF NoCall, Call, Slots, NULL
<1> USE <1>0
<1>1. ASSUME NEW t \in Threads, Open(t) PROVE TypeOK'
  BY <1>1, HandleAssumption
  DEF TypeOK, Open, HostOpen, Call, Resources, Locations, NULL
<1>2. ASSUME NEW t \in Threads, Reserve(t) PROVE TypeOK'
  <2>1. PICK i \in Slots :
           /\ FirstFree(i)
           /\ slots' = [slots EXCEPT ![i] = ReservedSlot(i, t, call[t].type)]
           /\ call'  = [call EXCEPT ![t].index = i]
    BY <1>2 DEF Reserve
  <2>2. ReservedSlot(i, t, call[t].type) \in Slot
    BY NextGenerationType DEF TypeOK, ReservedSlot, Slot, Call, NULL
  <2>3. call' \in [Threads -> Call]
    BY <2>1 DEF TypeOK, Call
  <2>4. slots' \in [Slots -> Slot]
    BY <2>1, <2>2 DEF TypeOK
  <2>5. QED
    BY <1>2, <2>3, <2>4 DEF TypeOK, Reserve, Locations
<1>3. ASSUME NEW t \in Threads, ReserveFails(t) PROVE TypeOK'
  BY <1>3 DEF TypeOK, ReserveFails, Return, Locations
<1>4. ASSUME NEW t \in Threads, Publish(t) PROVE TypeOK'
  <2>1. /\ call[t].index \in Slots /\ call[t].type \in Types
        /\ call[t].internal \in Resources \union {NULL}
    BY DEF TypeOK, Call
  <2>2. slots' \in [Slots -> Slot]
    BY <1>4, <2>1 DEF TypeOK, Publish, Slot
  <2>3. issued' \subseteq IssuedHandle
    BY <1>4, <2>1 DEF TypeOK, Publish, IssuedHandle, Slot
  <2>4. QED
    BY <1>4, <2>2, <2>3 DEF TypeOK, Publish, Return, Locations
<1>5. ASSUME NEW t \in Threads, NEW h \in HandleArgs, NEW ty \in Types,
             NEW op \in {"use", "child", "transfer", "close"},
             Validate(t, h, ty, op)
      PROVE TypeOK'
  <2>1. h.index \in Slots
    BY DEF HandleArgs, PAL_NULL_HANDLE, TypeOK, IssuedHandle
  <2>2. Resolve(t, h, ty) \in Resources \union {NULL}
    BY <2>1 DEF Resolve, TypeOK, Slot, NULL
  <2>3. QED
    BY <1>5, <2>1, <2>2 DEF TypeOK, Validate, Call, Locations
<1>6. ASSUME NEW t \in Threads, UseHost(t) PROVE TypeOK'
  BY <1>6 DEF TypeOK, UseHost, Return, Locations
<1>7. ASSUME NEW t \in Threads, OpenChild(t) PROVE TypeOK'
  BY <1>7, HandleAssumption
  DEF TypeOK, OpenChild, HostOpen, Call, Resources, Locations, NULL
<1>8. ASSUME NEW t \in Threads, OpenChildFails(t) PROVE TypeOK'
  BY <1>8 DEF TypeOK, OpenChildFails, Return, Locations
<1>9. ASSUME NEW t \in Threads, Transfer(t) PROVE TypeOK'
  <2>1. call[t].index \in Slots
    BY DEF TypeOK, Call
  <2>2. slots' \in [Slots -> Slot]
    BY <1>9, <2>1 DEF TypeOK, Transfer, Slot
  <2>3. QED
    BY <1>9, <2>2 DEF TypeOK, Transfer, Return, Locations
<1>10. ASSUME NEW t \in Threads, CloseHost(t) PROVE TypeOK'
  BY <1>10 DEF TypeOK, CloseHost, Locations
<1>11. ASSUME NEW t \in Threads, Release(t) PROVE TypeOK'
  <2>1. call[t].index \in Slots
    BY DEF TypeOK, Call
  <2>2. ReleasedSlot(call[t].index) \in Slot
    BY <2>1, HandleAssumption
    DEF TypeOK, ReleasedSlot, Slot, NULL, NoThread
  <2>3. \/ slots' = slots
        \/ slots' = [slots EXCEPT ![call[t].index] = ReleasedSlot(call[t].index)]
    BY <1>11 DEF Release
  <2>4. slots' \in [Slots -> Slot]
    BY <2>1, <2>2, <2>3 DEF TypeOK
  <2>5. QED
    BY <1>11, <2>4 DEF TypeOK, Release, Return, Locations
<1>12. CASE UNCHANGED vars
  BY <1>12 DEF TypeOK, vars
<1>13. QED
  BY <1>1, <1>2, <1>3, <1>4, <1>5, <1>6, <1>7, <1>8, <1>9, <1>10, <1>11,
     <1>12 DEF Next

\* Type correctness of the table under every interleaving of PAL calls.
THEOREM TypeCorrect == Spec => []TypeOK
<1>1. Init => TypeOK
  BY HandleAssumption
  DEF Init, TypeOK, Slots, Slot, Resources, NULL, NoThread, Locations, Call,
      NoCall, IssuedHandle
<1>2. QED
  BY <1>1, TypeStep, PTL DEF Spec

\* The facts about the table and the calls in progress that every step keeps
\* while generations do not wrap.
LEMMA InvStep ==
  ASSUME IInv, TypeOK', NoWrap, [Next]_vars
  PROVE  IInv'
<1> DEFINE Others(t) ==
      \A u \in Threads \ {t} : pc'[u] = pc[u] /\ call'[u] = call[u]
<1> USE DEF NULL
<1>a. TypeOK
  BY DEF IInv
<1>0. /\ slots \in [Slots -> Slot] /\ slots' \in [Slots -> Slot]
      /\ resources \in [Resources -> {"unborn", "open", "closed"}]
      /\ opened \in 0 .. MaxOpens /\ opened \in Int
      /\ pc \in [Threads -> Locations] /\ call \in [Threads -> Call]
      /\ issued \subseteq IssuedHandle
      /\ \A u \in Threads : /\ call[u].index \in Slots
                            /\ call[u].internal \in Resources \union {0}
      /\ \A i \in Slots : /\ slots[i].generation \in Nat
                          /\ slots[i].internal \in Resources \union {0}
      /\ \A h \in issued : /\ h.index \in Slots /\ h.generation \in Int
                           /\ h.internal \in Resources \union {0}
  BY <1>a, HandleAssumption DEF TypeOK, Call, Slot, IssuedHandle
<1>1. ASSUME NEW t \in Threads, NEW ty \in Types,
             NEW onFull \in {"leak", "close"},
             pc[t] \in {"idle", "child"}, HostOpen(t, ty, onFull)
      PROVE IInv'
  <2>1. slots' = slots /\ issued' = issued /\ opened' = opened + 1
    BY <1>1 DEF HostOpen
  <2>2. opened + 1 \in Resources
    BY <1>0, <1>1, HandleAssumption DEF HostOpen, Resources
  <2>3. /\ resources'[opened + 1] = "open"
        /\ \A r \in Resources : r <= opened => resources'[r] = resources[r]
        /\ opened + 1 # 0 /\ opened + 1 <= opened + 1
    BY <1>0, <1>1, <2>2 DEF HostOpen, Resources
  <2>4. \A x \in Resources \union {0} : x <= opened =>
        x # opened + 1 /\ x <= opened + 1 /\ (x # 0 => resources'[x] = resources[x])
    BY <1>0, <2>3 DEF Resources
  <2>5. /\ pc'[t] = "reserve" /\ call'[t].internal = opened + 1
        /\ pc[t] \in {"idle", "child"} /\ Others(t)
    BY <1>0, <1>1 DEF HostOpen
  <2>6. OpenersHoldTheirResource'
    BY <1>0, <2>1, <2>2, <2>3, <2>4, <2>5 DEF IInv, OpenersHoldTheirResource, SlotsHoldOpen, IssuedBeforeNow
  <2>7. PublishersOwnTheirSlot'
    BY <1>0, <2>1, <2>2, <2>3, <2>4, <2>5 DEF IInv, PublishersOwnTheirSlot
  <2>8. SlotsHoldOpen'
    BY <1>0, <2>1, <2>2, <2>3, <2>4, <2>5 DEF IInv, SlotsHoldOpen
  <2>9. NoSharedResource'
    BY <1>0, <2>1, <2>2, <2>3, <2>4, <2>5 DEF IInv, NoSharedResource
  <2>10. IssuedBeforeNow'
    BY <1>0, <2>1, <2>2, <2>3, <2>4, <2>5 DEF IInv, IssuedBeforeNow
  <2>11. ReleasersHoldTheirSlot'
    BY <1>0, <2>1, <2>2, <2>3, <2>4, <2>5 DEF IInv, ReleasersHoldTheirSlot
  <2>12. InUseMeansReserved'
    BY <1>0, <2>1, <2>2, <2>3, <2>4, <2>5 DEF IInv, InUseMeansReserved
  <2>13. HandleIdentity'
    BY <1>0, <2>1, <2>2, <2>3, <2>4, <2>5 DEF IInv, HandleIdentity, Live
  <2>14. CallsLive'
    BY <1>0, <2>1, <2>2, <2>3, <2>4, <2>5 DEF IInv, CallsLive, SlotsHoldOpen
  <2>15. QED
    BY <2>6, <2>7, <2>8, <2>9, <2>10, <2>11, <2>12, <2>13, <2>14 DEF IInv
<1>2. ASSUME NEW t \in Threads, NEW i \in Slots, FirstFree(i), pc[t] = "reserve",
             slots' = [slots EXCEPT ![i] = ReservedSlot(i, t, call[t].type)],
             call' = [call EXCEPT ![t].index = i],
             pc' = [pc EXCEPT ![t] = "publish"],
             UNCHANGED <<resources, opened, issued>>
      PROVE IInv'
  <2>1. /\ slots[i].in_use = FALSE /\ slots[i].internal = 0 /\ pc[t] = "reserve"
        /\ resources' = resources /\ opened' = opened /\ issued' = issued
    BY <1>2 DEF FirstFree, FreeSlots, TypeOK, Slot
  <2>2. slots'[i] = ReservedSlot(i, t, call[t].type)
    BY <1>0, <1>2
  <2>3. NextGeneration(slots[i].generation) = slots[i].generation + 1
    BY <1>0, <1>2, NextGenerationNoWrap DEF NoWrap, Slot
  <2>4. /\ slots'[i].in_use = TRUE /\ slots'[i].internal = 0
        /\ slots'[i].generation = slots[i].generation + 1
        /\ slots'[i].type = call[t].type /\ slots'[i].owner = t
    BY <2>2, <2>3 DEF ReservedSlot
  <2>5. \A j \in Slots \ {i} : slots'[j] = slots[j]
    BY <1>0, <1>2
  <2>6. /\ pc'[t] = "publish" /\ call'[t].index = i /\ call'[t].type = call[t].type
        /\ call'[t].internal = call[t].internal /\ Others(t)
    BY <1>0, <1>2 DEF Call
  <2>7. OpenersHoldTheirResource'
    BY <1>0, <2>1, <2>2, <2>3, <2>4, <2>5, <2>6 DEF IInv, OpenersHoldTheirResource
  <2>8. PublishersOwnTheirSlot'
    BY <1>0, <2>1, <2>2, <2>3, <2>4, <2>5, <2>6 DEF IInv, PublishersOwnTheirSlot
  <2>9. SlotsHoldOpen'
    BY <1>0, <2>1, <2>2, <2>3, <2>4, <2>5, <2>6 DEF IInv, SlotsHoldOpen
  <2>10. NoSharedResource'
    BY <1>0, <2>1, <2>2, <2>3, <2>4, <2>5, <2>6 DEF IInv, NoSharedResource
  <2>11. IssuedBeforeNow'
    BY <1>0, <2>1, <2>2, <2>3, <2>4, <2>5, <2>6 DEF IInv, IssuedBeforeNow
  <2>12. ReleasersHoldTheirSlot'
    BY <1>0, <2>1, <2>2, <2>3, <2>4, <2>5, <2>6 DEF IInv, ReleasersHoldTheirSlot
  <2>13. InUseMeansReserved'
    BY <1>0, <2>1, <2>2, <2>3, <2>4, <2>5, <2>6 DEF IInv, InUseMeansReserved
  <2>14. HandleIdentity'
    BY <1>0, <2>1, <2>2, <2>3, <2>4, <2>5, <2>6 DEF IInv, HandleIdentity, IssuedBeforeNow, Live
  <2>15. CallsLive'
    BY <1>0, <2>1, <2>2, <2>3, <2>4, <2>5, <2>6 DEF IInv, CallsLive
  <2>16. QED
    BY <2>7, <2>8, <2>9, <2>10, <2>11, <2>12, <2>13, <2>14, <2>15 DEF IInv
<1>3. ASSUME NEW t \in Threads, ReserveFails(t)
      PROVE IInv'
  <2>1. /\ slots' = slots /\ issued' = issued /\ opened' = opened
        /\ pc[t] = "reserve" /\ call[t].internal \in Resources
    BY <1>0, <1>3 DEF ReserveFails, IInv, OpenersHoldTheirResource
  <2>2. \A r \in Resources : r # call[t].internal => resources'[r] = resources[r]
    BY <1>0, <1>3, <2>1 DEF ReserveFails
  <2>3. pc'[t] = "idle" /\ Others(t)
    BY <1>0, <1>3 DEF ReserveFails, Return
  <2>4. OpenersHoldTheirResource'
    BY <1>0, <2>1, <2>2, <2>3 DEF IInv, OpenersHoldTheirResource
  <2>5. PublishersOwnTheirSlot'
    BY <1>0, <2>1, <2>2, <2>3 DEF IInv, PublishersOwnTheirSlot
  <2>6. SlotsHoldOpen'
    BY <1>0, <2>1, <2>2, <2>3 DEF IInv, SlotsHoldOpen, OpenersHoldTheirResource
  <2>7. NoSharedResource'
    BY <1>0, <2>1, <2>2, <2>3 DEF IInv, NoSharedResource
  <2>8. IssuedBeforeNow'
    BY <1>0, <2>1, <2>2, <2>3 DEF IInv, IssuedBeforeNow
  <2>9. ReleasersHoldTheirSlot'
    BY <1>0, <2>1, <2>2, <2>3 DEF IInv, ReleasersHoldTheirSlot
  <2>10. InUseMeansReserved'
    BY <1>0, <2>1, <2>2, <2>3 DEF IInv, InUseMeansReserved
  <2>11. HandleIdentity'
    BY <1>0, <2>1, <2>2, <2>3 DEF IInv, HandleIdentity, Live
  <2>12. CallsLive'
    BY <1>0, <2>1, <2>2, <2>3 DEF IInv, CallsLive, OpenersHoldTheirResource
  <2>13. QED
    BY <2>4, <2>5, <2>6, <2>7, <2>8, <2>9, <2>10, <2>11, <2>12 DEF IInv
<1>4. ASSUME NEW t \in Threads, NEW i, NEW r, i = call[t].index,
             r = call[t].internal, Publish(t)
      PROVE IInv'
  <2>1. /\ resources' = resources /\ opened' = opened /\ pc[t] = "publish"
        /\ i \in Slots /\ r \in Resources /\ r # 0 /\ r <= opened
        /\ i = call[t].index /\ r = call[t].internal
    BY <1>0, <1>4 DEF Publish, IInv, OpenersHoldTheirResource, Resources
  <2>2. /\ slots'[i].internal = r /\ slots'[i].in_use = slots[i].in_use
        /\ slots'[i].generation = slots[i].generation
        /\ slots'[i].type = slots[i].type /\ slots'[i].owner = slots[i].owner
    BY <1>0, <1>4, <2>1 DEF Publish, Slot
  <2>3. \A j \in Slots \ {i} : slots'[j] = slots[j]
    BY <1>0, <1>4, <2>1 DEF Publish
  <2>4. pc'[t] = "idle" /\ Others(t)
    BY <1>0, <1>4 DEF Publish, Return
  <2>5. /\ slots[i].in_use /\ slots[i].owner = t /\ slots[i].internal = 0
        /\ slots[i].type = call[t].type
    BY <1>0, <2>1 DEF IInv, PublishersOwnTheirSlot
  <2>6. \A h \in issued' \ issued :
          /\ h.index = i /\ h.generation = slots[i].generation
          /\ h.type = call[t].type /\ h.internal = r /\ h.owner = t
    BY <1>4 DEF Publish
  <2>7. issued \subseteq issued' /\ issued' \subseteq IssuedHandle
    BY <1>4 DEF Publish, TypeOK
  <2>8. resources[r] = "open" /\ \A j \in Slots : slots[j].internal # r
    BY <1>0, <2>1 DEF IInv, OpenersHoldTheirResource
  <2>9. OpenersHoldTheirResource'
    BY <1>0, <2>1, <2>2, <2>3, <2>4, <2>5, <2>6, <2>7, <2>8 DEF IInv, OpenersHoldTheirResource, PublishersOwnTheirSlot, IssuedHandle
  <2>10. PublishersOwnTheirSlot'
    BY <1>0, <2>1, <2>2, <2>3, <2>4, <2>5, <2>6, <2>7, <2>8 DEF IInv, PublishersOwnTheirSlot
  <2>11. SlotsHoldOpen'
    <3>1. ASSUME NEW j \in Slots, slots'[j].internal # 0
          PROVE  /\ slots'[j].in_use /\ slots'[j].owner \in Threads
                 /\ slots'[j].internal <= opened'
                 /\ \/ resources'[slots'[j].internal] = "open"
                    \/ /\ pc'[slots'[j].owner] = "release"
                       /\ call'[slots'[j].owner].index = j
      <4>1. CASE j = i
        BY <2>1, <2>2, <2>5, <2>8, <4>1
      <4>2. CASE j # i
        <5>1. slots'[j] = slots[j]
          BY <2>3, <4>2
        <5>2. /\ slots[j].in_use /\ slots[j].owner \in Threads
              /\ slots[j].internal <= opened
              /\ \/ resources[slots[j].internal] = "open"
                 \/ /\ pc[slots[j].owner] = "release"
                    /\ call[slots[j].owner].index = j
          BY <3>1, <5>1 DEF IInv, SlotsHoldOpen
        <5>3. QED
          BY <2>1, <2>4, <5>1, <5>2
      <4>3. QED
        BY <4>1, <4>2
    <3>2. QED
      BY <3>1 DEF SlotsHoldOpen
  <2>12. NoSharedResource'
    BY <1>0, <2>1, <2>2, <2>3, <2>4, <2>5, <2>6, <2>7, <2>8 DEF IInv, NoSharedResource
  <2>13. IssuedBeforeNow'
    BY <1>0, <2>1, <2>2, <2>3, <2>4, <2>5, <2>6, <2>7, <2>8 DEF IInv, IssuedBeforeNow, PublishersOwnTheirSlot, IssuedHandle
  <2>14. ReleasersHoldTheirSlot'
    BY <1>0, <2>1, <2>2, <2>3, <2>4, <2>5, <2>6, <2>7, <2>8 DEF IInv, ReleasersHoldTheirSlot
  <2>15. InUseMeansReserved'
    BY <1>0, <2>1, <2>2, <2>3, <2>4, <2>5, <2>6, <2>7, <2>8 DEF IInv, InUseMeansReserved
  <2>16. HandleIdentity'
    BY <1>0, <2>1, <2>2, <2>3, <2>4, <2>5, <2>6, <2>7, <2>8 DEF IInv, HandleIdentity, Live, IssuedBeforeNow, IssuedHandle
  <2>17. CallsLive'
    BY <1>0, <2>1, <2>2, <2>3, <2>4, <2>5, <2>6, <2>7, <2>8 DEF IInv, CallsLive
  <2>18. QED
    BY <2>9, <2>10, <2>11, <2>12, <2>13, <2>14, <2>15, <2>16, <2>17 DEF IInv
<1>5. ASSUME NEW t \in Threads, NEW h \in HandleArgs, NEW ty \in Types,
             NEW op \in {"use", "child", "transfer", "close"}, Validate(t, h, ty, op)
      PROVE IInv'
  <2>1. /\ slots' = slots /\ issued' = issued /\ opened' = opened
        /\ resources' = resources /\ pc[t] = "idle"
    BY <1>5 DEF Validate
  <2>2. /\ pc'[t] \in {"use", "child", "transfer", "close"}
        /\ call'[t].index = h.index
        /\ call'[t].internal = Resolve(t, h, ty) /\ Others(t)
    BY <1>0, <1>5 DEF Validate
  <2>3. h.index \in Slots
    BY <1>0, <1>5, HandleAssumption DEF HandleArgs, PAL_NULL_HANDLE, Slots
  <2>4. /\ Resolve(t, h, ty) # 0 /\ slots[h.index].in_use
        /\ slots[h.index].owner = t /\ Resolve(t, h, ty) = slots[h.index].internal
    BY <1>5 DEF Validate, Resolve
  <2>5. OpenersHoldTheirResource'
    BY <1>0, <2>1, <2>2, <2>3, <2>4 DEF IInv, OpenersHoldTheirResource
  <2>6. PublishersOwnTheirSlot'
    BY <1>0, <2>1, <2>2, <2>3, <2>4 DEF IInv, PublishersOwnTheirSlot
  <2>7. SlotsHoldOpen'
    BY <1>0, <2>1, <2>2, <2>3, <2>4 DEF IInv, SlotsHoldOpen
  <2>8. NoSharedResource'
    BY <1>0, <2>1, <2>2, <2>3, <2>4 DEF IInv, NoSharedResource
  <2>9. IssuedBeforeNow'
    BY <1>0, <2>1, <2>2, <2>3, <2>4 DEF IInv, IssuedBeforeNow
  <2>10. ReleasersHoldTheirSlot'
    BY <1>0, <2>1, <2>2, <2>3, <2>4 DEF IInv, ReleasersHoldTheirSlot
  <2>11. InUseMeansReserved'
    BY <1>0, <2>1, <2>2, <2>3, <2>4 DEF IInv, InUseMeansReserved
  <2>12. HandleIdentity'
    BY <1>0, <2>1, <2>2, <2>3, <2>4 DEF IInv, HandleIdentity, Live
  <2>13. CallsLive'
    BY <1>0, <2>1, <2>2, <2>3, <2>4 DEF IInv, CallsLive, SlotsHoldOpen
  <2>14. QED
    BY <2>5, <2>6, <2>7, <2>8, <2>9, <2>10, <2>11, <2>12, <2>13 DEF IInv
<1>6. ASSUME NEW t \in Threads, UseHost(t)
      PROVE IInv'
  <2>1. /\ slots' = slots /\ issued' = issued /\ opened' = opened
        /\ resources' = resources
    BY <1>6 DEF UseHost
  <2>2. pc'[t] = "idle" /\ pc[t] \notin {"reserve", "publish", "release"} /\ Others(t)
    BY <1>0, <1>6 DEF UseHost, Return
  <2>3. OpenersHoldTheirResource'
    BY <1>0, <2>1, <2>2 DEF IInv, OpenersHoldTheirResource
  <2>4. PublishersOwnTheirSlot'
    BY <1>0, <2>1, <2>2 DEF IInv, PublishersOwnTheirSlot
  <2>5. SlotsHoldOpen'
    BY <1>0, <2>1, <2>2 DEF IInv, SlotsHoldOpen
  <2>6. NoSharedResource'
    BY <1>0, <2>1, <2>2 DEF IInv, NoSharedResource
  <2>7. IssuedBeforeNow'
    BY <1>0, <2>1, <2>2 DEF IInv, IssuedBeforeNow
  <2>8. ReleasersHoldTheirSlot'
    BY <1>0, <2>1, <2>2 DEF IInv, ReleasersHoldTheirSlot
  <2>9. InUseMeansReserved'
    BY <1>0, <2>1, <2>2 DEF IInv, InUseMeansReserved
  <2>10. HandleIdentity'
    BY <1>0, <2>1, <2>2 DEF IInv, HandleIdentity, Live
  <2>11. CallsLive'
    BY <1>0, <2>1, <2>2 DEF IInv, CallsLive
  <2>12. QED
    BY <2>3, <2>4, <2>5, <2>6, <2>7, <2>8, <2>9, <2>10, <2>11 DEF IInv
<1>7. ASSUME NEW t \in Threads, OpenChildFails(t)
      PROVE IInv'
  <2>1. /\ slots' = slots /\ issued' = issued /\ opened' = opened
        /\ resources' = resources
    BY <1>7 DEF OpenChildFails
  <2>2. pc'[t] = "idle" /\ pc[t] \notin {"reserve", "publish", "release"} /\ Others(t)
    BY <1>0, <1>7 DEF OpenChildFails, Return
  <2>3. OpenersHoldTheirResource'
    BY <1>0, <2>1, <2>2 DEF IInv, OpenersHoldTheirResource
  <2>4. PublishersOwnTheirSlot'
    BY <1>0, <2>1, <2>2 DEF IInv, PublishersOwnTheirSlot
  <2>5. SlotsHoldOpen'
    BY <1>0, <2>1, <2>2 DEF IInv, SlotsHoldOpen
  <2>6. NoSharedResource'
    BY <1>0, <2>1, <2>2 DEF IInv, NoSharedResource
  <2>7. IssuedBeforeNow'
    BY <1>0, <2>1, <2>2 DEF IInv, IssuedBeforeNow
  <2>8. ReleasersHoldTheirSlot'
    BY <1>0, <2>1, <2>2 DEF IInv, ReleasersHoldTheirSlot
  <2>9. InUseMeansReserved'
    BY <1>0, <2>1, <2>2 DEF IInv, InUseMeansReserved
  <2>10. HandleIdentity'
    BY <1>0, <2>1, <2>2 DEF IInv, HandleIdentity, Live
  <2>11. CallsLive'
    BY <1>0, <2>1, <2>2 DEF IInv, CallsLive
  <2>12. QED
    BY <2>3, <2>4, <2>5, <2>6, <2>7, <2>8, <2>9, <2>10, <2>11 DEF IInv
<1>8. ASSUME NEW t \in Threads, Transfer(t)
      PROVE IInv'
  <2>1. /\ slots' = slots /\ issued' = issued /\ opened' = opened
        /\ resources' = resources
    BY <1>0, <1>8 DEF Transfer, IInv, CallsLive, Slot
  <2>2. pc'[t] = "idle" /\ pc[t] \notin {"reserve", "publish", "release"} /\ Others(t)
    BY <1>0, <1>8 DEF Transfer, Return
  <2>3. OpenersHoldTheirResource'
    BY <1>0, <2>1, <2>2 DEF IInv, OpenersHoldTheirResource
  <2>4. PublishersOwnTheirSlot'
    BY <1>0, <2>1, <2>2 DEF IInv, PublishersOwnTheirSlot
  <2>5. SlotsHoldOpen'
    BY <1>0, <2>1, <2>2 DEF IInv, SlotsHoldOpen
  <2>6. NoSharedResource'
    BY <1>0, <2>1, <2>2 DEF IInv, NoSharedResource
  <2>7. IssuedBeforeNow'
    BY <1>0, <2>1, <2>2 DEF IInv, IssuedBeforeNow
  <2>8. ReleasersHoldTheirSlot'
    BY <1>0, <2>1, <2>2 DEF IInv, ReleasersHoldTheirSlot
  <2>9. InUseMeansReserved'
    BY <1>0, <2>1, <2>2 DEF IInv, InUseMeansReserved
  <2>10. HandleIdentity'
    BY <1>0, <2>1, <2>2 DEF IInv, HandleIdentity, Live
  <2>11. CallsLive'
    BY <1>0, <2>1, <2>2 DEF IInv, CallsLive
  <2>12. QED
    BY <2>3, <2>4, <2>5, <2>6, <2>7, <2>8, <2>9, <2>10, <2>11 DEF IInv
<1>9. ASSUME NEW t \in Threads, CloseHost(t)
      PROVE IInv'
  <2>1. /\ slots' = slots /\ issued' = issued /\ opened' = opened /\ call' = call
        /\ pc[t] = "close" /\ pc'[t] = "release" /\ Others(t)
    BY <1>0, <1>9 DEF CloseHost
  <2>2. /\ call[t].internal \in Resources /\ call[t].internal # 0
        /\ slots[call[t].index].in_use /\ slots[call[t].index].owner = t
        /\ slots[call[t].index].internal = call[t].internal
    BY <1>0, <2>1 DEF IInv, CallsLive
  <2>3. \A r \in Resources : r # call[t].internal => resources'[r] = resources[r]
    BY <1>0, <1>9, <2>2 DEF CloseHost
  <2>4. OpenersHoldTheirResource'
    BY <1>0, <2>1, <2>2, <2>3 DEF IInv, OpenersHoldTheirResource
  <2>5. PublishersOwnTheirSlot'
    BY <1>0, <2>1, <2>2, <2>3 DEF IInv, PublishersOwnTheirSlot
  <2>6. SlotsHoldOpen'
    BY <1>0, <2>1, <2>2, <2>3 DEF IInv, SlotsHoldOpen, NoSharedResource
  <2>7. NoSharedResource'
    BY <1>0, <2>1, <2>2, <2>3 DEF IInv, NoSharedResource
  <2>8. IssuedBeforeNow'
    BY <1>0, <2>1, <2>2, <2>3 DEF IInv, IssuedBeforeNow
  <2>9. ReleasersHoldTheirSlot'
    BY <1>0, <2>1, <2>2, <2>3 DEF IInv, ReleasersHoldTheirSlot
  <2>10. InUseMeansReserved'
    BY <1>0, <2>1, <2>2, <2>3 DEF IInv, InUseMeansReserved
  <2>11. HandleIdentity'
    BY <1>0, <2>1, <2>2, <2>3 DEF IInv, HandleIdentity, Live
  <2>12. CallsLive'
    BY <1>0, <2>1, <2>2, <2>3 DEF IInv, CallsLive, NoSharedResource
  <2>13. QED
    BY <2>4, <2>5, <2>6, <2>7, <2>8, <2>9, <2>10, <2>11, <2>12 DEF IInv
<1>10. ASSUME NEW t \in Threads, NEW i, i = call[t].index, Release(t)
      PROVE IInv'
  <2>1. /\ resources' = resources /\ opened' = opened /\ issued' = issued
        /\ pc[t] = "release" /\ i \in Slots /\ i = call[t].index
        /\ pc'[t] = "idle" /\ Others(t)
    BY <1>0, <1>10 DEF Release, Return
  <2>2. slots[i].in_use /\ slots[i].owner = t
    BY <1>0, <2>1 DEF IInv, ReleasersHoldTheirSlot
  <2>3. /\ slots'[i].in_use = FALSE /\ slots'[i].internal = 0
        /\ slots'[i].generation = slots[i].generation
    BY <1>0, <1>10, <2>1, <2>2 DEF Release, ReleasedSlot
  <2>4. \A j \in Slots \ {i} : slots'[j] = slots[j]
    BY <1>0, <1>10, <2>1, <2>2 DEF Release
  <2>5. OpenersHoldTheirResource'
    BY <1>0, <2>1, <2>2, <2>3, <2>4 DEF IInv, OpenersHoldTheirResource
  <2>6. PublishersOwnTheirSlot'
    BY <1>0, <2>1, <2>2, <2>3, <2>4 DEF IInv, PublishersOwnTheirSlot
  <2>7. SlotsHoldOpen'
    BY <1>0, <2>1, <2>2, <2>3, <2>4 DEF IInv, SlotsHoldOpen
  <2>8. NoSharedResource'
    BY <1>0, <2>1, <2>2, <2>3, <2>4 DEF IInv, NoSharedResource
  <2>9. IssuedBeforeNow'
    BY <1>0, <2>1, <2>2, <2>3, <2>4 DEF IInv, IssuedBeforeNow
  <2>10. ReleasersHoldTheirSlot'
    BY <1>0, <2>1, <2>2, <2>3, <2>4 DEF IInv, ReleasersHoldTheirSlot
  <2>11. InUseMeansReserved'
    BY <1>0, <2>1, <2>2, <2>3, <2>4 DEF IInv, InUseMeansReserved
  <2>12. HandleIdentity'
    BY <1>0, <2>1, <2>2, <2>3, <2>4 DEF IInv, HandleIdentity, Live
  <2>13. CallsLive'
    BY <1>0, <2>1, <2>2, <2>3, <2>4 DEF IInv, CallsLive
  <2>14. QED
    BY <2>5, <2>6, <2>7, <2>8, <2>9, <2>10, <2>11, <2>12, <2>13 DEF IInv
<1>11. CASE UNCHANGED vars
  BY <1>a, <1>11
  DEF IInv, vars, TypeOK, OpenersHoldTheirResource, PublishersOwnTheirSlot, SlotsHoldOpen,
      NoSharedResource, IssuedBeforeNow, ReleasersHoldTheirSlot,
      InUseMeansReserved, HandleIdentity, Live, CallsLive
<1>12. ASSUME NEW t \in Threads, Open(t) PROVE IInv'
  BY <1>1, <1>12 DEF Open
<1>13. ASSUME NEW t \in Threads, OpenChild(t) PROVE IInv'
  BY <1>1, <1>13 DEF OpenChild
<1>14. ASSUME NEW t \in Threads, Reserve(t) PROVE IInv'
  BY <1>2, <1>14 DEF Reserve
<1>15. ASSUME NEW t \in Threads, Publish(t) PROVE IInv'
  BY <1>4, <1>15
<1>16. ASSUME NEW t \in Threads, Release(t) PROVE IInv'
  BY <1>10, <1>16
<1>17. QED
  BY <1>3, <1>5, <1>6, <1>7, <1>8, <1>9, <1>11, <1>12, <1>13, <1>14, <1>15,
     <1>16 DEF Next

\* The invariant holds of the table pal_core_init leaves behind.
LEMMA InvInit == Init => IInv
  BY HandleAssumption
  DEF Init, IInv, TypeOK, Slots, Slot, Resources, NULL, NoThread, Locations,
      Call, NoCall, IssuedHandle, OpenersHoldTheirResource,
      PublishersOwnTheirSlot, SlotsHoldOpen, NoSharedResource, IssuedBeforeNow,
      ReleasersHoldTheirSlot, InUseMeansReserved, HandleIdentity, CallsLive

\* As long as no slot was reserved so often that its generation starts over,
\* the inductive invariant holds of every interleaving.
THEOREM TableInvariant == Spec /\ []NoWrap => []IInv
<1>1. IInv /\ NoWrap /\ [Next]_vars => IInv'
  <2>1. IInv /\ [Next]_vars => TypeOK'
    BY TypeStep DEF IInv
  <2>2. QED
    BY <2>1, InvStep
<1>2. QED
  BY InvInit, <1>1, PTL DEF Spec

\* A handle that validates names the resource, type and owner it was issued
\* for (pal_core_validate_and_get), for any table size and number of threads.
THEOREM HandlesIdentify == Spec /\ []NoWrap => []HandleIdentity
<1>1. IInv => HandleIdentity
  BY DEF IInv
<1>2. QED
  BY <1>1, TableInvariant, PTL

\* No host call made through a handle works on a closed resource or on a slot
\* of another thread.
THEOREM CallsStayLive == Spec /\ []NoWrap => []CallsLive
<1>1. IInv => CallsLive
  BY DEF IInv
<1>2. QED
  BY <1>1, TableInvariant, PTL

\* The null handle openers return on failure resolves for nobody.
THEOREM NullHandleStaysInvalid == Spec /\ []NoWrap => []NullHandleInvalid
<1>1. IInv => NullHandleInvalid
  <2> SUFFICES ASSUME IInv, NEW t \in Threads, NEW ty \in Types
               PROVE  Resolve(t, PAL_NULL_HANDLE, ty) = NULL
    BY DEF NullHandleInvalid
  <2>1. 0 \in Slots
    BY HandleAssumption DEF Slots
  <2>2. slots[0].in_use => slots[0].generation # 0
    BY <2>1 DEF IInv, InUseMeansReserved
  <2>3. QED
    BY <2>2 DEF Resolve, PAL_NULL_HANDLE
<1>2. QED
  BY <1>1, TableInvariant, PTL

----------------------------------------------------------------------------
(* The table implements PalCapabilities, and forgets an open resource only *)
(* when it is full, as long as no generation starts over.  What a          *)
(* capability is worth rests on the ledger of what was issued: one handle  *)
(* per resource, and whoever is in a host call has the handle of the       *)
(* resource it works on.                                                   *)

Serving == {"use", "child", "transfer", "close"}

Ledger ==
  /\ \A g, h \in issued : g.internal = h.internal => g = h
  /\ \A h \in issued : h.internal # NULL
  /\ \A t \in Threads : pc[t] \in Serving =>
       \E h \in issued : h.internal = call[t].internal /\ h.owner = t
  /\ \A t \in Threads : pc[t] = "release" => resources[call[t].internal] = "closed"

\* The kinds of what the table is made of.
LEMMA KindsOfTable ==
  ASSUME TypeOK
  PROVE  /\ slots \in [Slots -> Slot] /\ opened \in Int /\ opened + 1 # 0
         /\ resources \in [Resources -> {"unborn", "open", "closed"}]
         /\ pc \in [Threads -> Locations] /\ call \in [Threads -> Call]
         /\ issued \subseteq IssuedHandle
         /\ \A t \in Threads : /\ call[t].index \in Slots
                               /\ call[t].internal \in Resources \union {NULL}
         /\ \A h \in issued : /\ h.index \in Slots /\ h.owner \in Threads
                              /\ h.internal \in Resources \union {NULL}
         /\ NULL \notin Resources
  BY HandleAssumption DEF TypeOK, Call, IssuedHandle, Resources, NULL

\* A handle that resolves is one that was issued to the thread that holds it.
LEMMA ResolvedWasIssued ==
  ASSUME IInv, NEW t \in Threads, NEW h \in HandleArgs, NEW ty \in Types,
         Resolve(t, h, ty) # NULL
  PROVE  /\ h.index \in Slots
         /\ \E g \in issued : g.internal = Resolve(t, h, ty) /\ g.owner = t
<1>1. CASE h = PAL_NULL_HANDLE
  <2>1. 0 \in Slots
    BY HandleAssumption DEF Slots
  <2>2. slots[0].in_use => slots[0].generation # 0
    BY <2>1 DEF IInv, InUseMeansReserved
  <2> QED BY <1>1, <2>2 DEF Resolve, PAL_NULL_HANDLE
<1>2. CASE h # PAL_NULL_HANDLE
  <2>1. PICK g \in issued : h = [index |-> g.index, generation |-> g.generation]
    BY <1>2 DEF HandleArgs
  <2>2. g.index \in Slots
    BY KindsOfTable DEF IInv
  <2>3. Live(g) /\ slots[g.index].owner = t /\ Resolve(t, h, ty) = slots[g.index].internal
    BY <2>1 DEF Resolve, Live
  <2>4. g.internal = slots[g.index].internal /\ g.owner = slots[g.index].owner
    BY <2>3 DEF IInv, HandleIdentity
  <2> QED BY <2>1, <2>2, <2>3, <2>4
<1> QED BY <1>1, <1>2

LEMMA LedgerInit == Init => Ledger
  BY DEF Init, Ledger, Serving

\* Every call keeps the ledger.
LEMMA LedgerStep ==
  ASSUME IInv, Ledger, [Next]_vars
  PROVE  Ledger'
<1> USE KindsOfTable DEF Ledger, Serving
<1>a. TypeOK
  BY DEF IInv
<1>1. ASSUME NEW t \in Threads, NEW ty \in Types, NEW onFull \in {"leak", "close"},
             HostOpen(t, ty, onFull)
      PROVE  Ledger'
  <2>1. \A u \in Threads : pc[u] = "release" =>
          call[u].internal \in Resources /\ call[u].internal # opened + 1
    BY <1>a DEF IInv, ReleasersHoldTheirSlot, SlotsHoldOpen
  <2> QED BY <1>a, <1>1, <2>1 DEF HostOpen
<1>2. ASSUME NEW t \in Threads, Reserve(t) PROVE Ledger'
  <2>1. /\ \A u \in Threads : call'[u].internal = call[u].internal
        /\ \A u \in Threads : pc'[u] \in Serving \union {"release"} => pc[u] = pc'[u]
        /\ UNCHANGED <<issued, resources>>
    BY <1>a, <1>2 DEF Reserve, Call
  <2> QED BY <2>1
<1>3. ASSUME NEW t \in Threads, ReserveFails(t) PROVE Ledger'
  BY <1>a, <1>3 DEF ReserveFails, Return, IInv, ReleasersHoldTheirSlot
<1>4. ASSUME NEW t \in Threads, Publish(t) PROVE Ledger'
  <2>1. /\ call[t].internal # NULL
        /\ \A h \in issued : h.internal # call[t].internal
    BY <1>4 DEF Publish, IInv, OpenersHoldTheirResource
  <2>2. \A h \in issued' : h \in issued \/
          h = [index |-> call[t].index, generation |-> slots[call[t].index].generation,
               type |-> call[t].type, internal |-> call[t].internal, owner |-> t]
    BY <1>4 DEF Publish
  <2>3. /\ issued \subseteq issued' /\ resources' = resources
        /\ \A u \in Threads : pc'[u] # "idle" => pc'[u] = pc[u] /\ call'[u] = call[u]
    BY <1>a, <1>4 DEF Publish, Return
  <2> QED BY <2>1, <2>2, <2>3
<1>5. ASSUME NEW t \in Threads, NEW h \in HandleArgs, NEW ty \in Types,
             NEW op \in {"use", "child", "transfer", "close"}, Validate(t, h, ty, op)
      PROVE  Ledger'
  <2>1. \E g \in issued : g.internal = Resolve(t, h, ty) /\ g.owner = t
    BY <1>5, ResolvedWasIssued DEF Validate
  <2>2. /\ UNCHANGED <<issued, resources>>
        /\ call'[t].internal = Resolve(t, h, ty) /\ pc'[t] # "release"
        /\ \A u \in Threads \ {t} : pc'[u] = pc[u] /\ call'[u] = call[u]
    BY <1>a, <1>5 DEF Validate
  <2> QED BY <2>1, <2>2
<1>6. ASSUME NEW t \in Threads, UseHost(t) \/ OpenChildFails(t) \/ Transfer(t) PROVE Ledger'
  BY <1>a, <1>6 DEF UseHost, OpenChildFails, Transfer, Return
<1>7. ASSUME NEW t \in Threads, CloseHost(t) PROVE Ledger'
  BY <1>a, <1>7 DEF CloseHost, IInv, CallsLive
<1>8. ASSUME NEW t \in Threads, Release(t) PROVE Ledger'
  BY <1>a, <1>8 DEF Release, Return
<1>9. CASE UNCHANGED vars
  BY <1>9 DEF vars
<1>10. ASSUME NEW t \in Threads, Open(t) \/ OpenChild(t) PROVE Ledger'
  BY <1>1, <1>10 DEF Open, OpenChild
<1> QED
  BY <1>2, <1>3, <1>4, <1>5, <1>6, <1>7, <1>8, <1>9, <1>10 DEF Next

LEMMA LedgerInvariant == Spec /\ []NoWrap => []Ledger
  BY LedgerInit, LedgerStep, TableInvariant, PTL DEF Spec

----------------------------------------------------------------------------
\* What a caller sees of the table, in terms of the handles.

\* The owner of a resource is the thread its handle was issued to.
LEMMA OwnerOf ==
  ASSUME Ledger, NEW h \in issued, h.internal \in Resources
  PROVE  CapOwner[h.internal] = IF resources[h.internal] = "open" THEN h.owner ELSE NoThread
<1>1. (CHOOSE g \in issued : g.internal = h.internal) = h
  BY DEF Ledger
<1> QED BY <1>1 DEF CapOwner

\* Where neither the handles nor the life of the issued resources change, the
\* owners do not.
LEMMA OwnersStay ==
  ASSUME UNCHANGED issued,
         \A r \in Resources : \/ resources'[r] = resources[r]
                              \/ \A h \in issued : h.internal # r
  PROVE  UNCHANGED <<CapOwner, CapGranted>>
<1>1. \A r \in Resources : CapOwner'[r] = CapOwner[r]
  BY DEF CapOwner
<1>2. CapOwner' = CapOwner
  BY <1>1 DEF CapOwner
<1> QED BY <1>2 DEF CapGranted

\* Serving changes only for the thread that moves.
LEMMA ServingOf ==
  ASSUME TypeOK, NEW t \in Threads,
         \A u \in Threads \ {t} : pc'[u] = pc[u] /\ call'[u] = call[u]
  PROVE  CapServing' =
           [CapServing EXCEPT ![t] = IF pc'[t] \in Serving THEN call'[t].internal ELSE NULL]
  BY DEF CapServing, Serving

LEMMA RefinesInit == Init => Caps!AInit
  BY DEF Init, Caps!AInit, Caps!NoThread, Caps!NoResource, CapOwner, CapGranted, CapServing,
         NoThread, NULL

\* A step of the table is a step of the capabilities, or changes none.
LEMMA RefinesStep ==
  ASSUME IInv, Ledger, Ledger', [Next]_vars
  PROVE  [Caps!ANext]_(Caps!avars)
<1> DEFINE Others(t) == \A u \in Threads \ {t} : pc'[u] = pc[u] /\ call'[u] = call[u]
<1> USE KindsOfTable
<1>a. TypeOK
  BY DEF IInv
<1>b. SUFFICES \/ Caps!ANext
               \/ UNCHANGED <<CapOwner, CapGranted, CapServing>>
  BY DEF Caps!avars
<1>c. ASSUME NEW t \in Threads, Others(t), pc[t] \in Serving, pc'[t] \notin Serving,
             UNCHANGED <<CapOwner, CapGranted>>
      PROVE  Caps!ANext
  <2>1. CapServing[t] = call[t].internal /\ call[t].internal # NULL
    BY <1>c DEF CapServing, Serving, IInv, CallsLive
  <2>2. CapServing' = [CapServing EXCEPT ![t] = NULL]
    BY <1>a, <1>c, ServingOf
  <2>3. Caps!End(t)
    BY <1>c, <2>1, <2>2 DEF Caps!End, Caps!NoResource, NULL
  <2> QED BY <2>3 DEF Caps!ANext
<1>d. ASSUME NEW t \in Threads, Others(t), pc[t] \notin Serving, pc'[t] \notin Serving
      PROVE  CapServing' = CapServing
  BY <1>d DEF CapServing, Serving
<1>1. ASSUME NEW t \in Threads, Open(t) \/ OpenChild(t)
      PROVE  Caps!ANext \/ UNCHANGED <<CapOwner, CapGranted, CapServing>>
  <2>1. /\ UNCHANGED issued /\ Others(t) /\ pc'[t] \notin Serving
        /\ \A r \in Resources : r # opened + 1 => resources'[r] = resources[r]
    BY <1>a, <1>1 DEF Open, OpenChild, HostOpen, Serving
  <2>2. \A h \in issued : h.internal # opened + 1
    BY <1>a DEF IInv, IssuedBeforeNow
  <2>3. UNCHANGED <<CapOwner, CapGranted>>
    BY <2>1, <2>2, OwnersStay
  <2> QED BY <1>c, <1>d, <2>1, <2>3
<1>2. ASSUME NEW t \in Threads, Reserve(t)
      PROVE  UNCHANGED <<CapOwner, CapGranted, CapServing>>
  BY <1>a, <1>d, <1>2, OwnersStay DEF Reserve, Serving
<1>3. ASSUME NEW t \in Threads, ReserveFails(t)
      PROVE  UNCHANGED <<CapOwner, CapGranted, CapServing>>
  <2>1. /\ UNCHANGED issued /\ Others(t) /\ pc[t] \notin Serving /\ pc'[t] \notin Serving
        /\ \A r \in Resources : r # call[t].internal => resources'[r] = resources[r]
    BY <1>a, <1>3 DEF ReserveFails, Return, Serving
  <2>2. \A h \in issued : h.internal # call[t].internal
    BY <1>3 DEF ReserveFails, IInv, OpenersHoldTheirResource
  <2> QED BY <1>d, <2>1, <2>2, OwnersStay
<1>4. ASSUME NEW t \in Threads, Publish(t)
      PROVE  Caps!ANext
  <2> DEFINE r == call[t].internal
             new == [index |-> call[t].index, generation |-> slots[call[t].index].generation,
                     type |-> call[t].type, internal |-> r, owner |-> t]
  <2>1. /\ r \in Resources /\ resources[r] = "open" /\ resources' = resources
        /\ \A h \in issued : h.internal # r
    BY <1>a, <1>4 DEF Publish, IInv, OpenersHoldTheirResource
  <2>2. issued' = issued \union {new} /\ new.internal = r /\ new.owner = t
    BY <1>4 DEF Publish
  <2>3. Others(t) /\ pc[t] \notin Serving /\ pc'[t] \notin Serving
    BY <1>a, <1>4 DEF Publish, Return, Serving
  <2> HIDE DEF r, new
  <2>4. CapGranted' = CapGranted \union {r} /\ r \notin CapGranted
    BY <2>1, <2>2 DEF CapGranted
  <2>5. CapServing[t] = NULL /\ CapServing' = CapServing
    BY <1>d, <2>3 DEF CapServing, Serving
  <2>6. CapOwner' = [CapOwner EXCEPT ![r] = t]
    <3>1. (CHOOSE h \in issued' : h.internal = r) = new
      BY <2>1, <2>2
    <3>2. CapOwner'[r] = t
      BY <2>1, <2>2, <3>1 DEF CapOwner
    <3>3. ASSUME NEW x \in Resources, x # r PROVE CapOwner'[x] = CapOwner[x]
      <4>1. CASE \E h \in issued : h.internal = x
        <5>1. PICK h \in issued : h.internal = x
          BY <4>1
        <5>2. (CHOOSE g \in issued : g.internal = x) = h
          BY <5>1 DEF Ledger
        <5>3. (CHOOSE g \in issued' : g.internal = x) = h
          BY <5>1, <5>2, <2>2, <3>3 DEF Ledger
        <5> QED BY <2>1, <2>2, <5>1, <5>2, <5>3 DEF CapOwner
      <4>2. CASE ~\E h \in issued : h.internal = x
        BY <2>2, <3>3, <4>2 DEF CapOwner
      <4> QED BY <4>1, <4>2
    <3>4. /\ CapOwner = [x \in Resources |-> CapOwner[x]]
          /\ CapOwner' = [x \in Resources |-> CapOwner'[x]]
      BY DEF CapOwner
    <3> HIDE DEF CapOwner
    <3> QED BY <2>1, <3>2, <3>3, <3>4
  <2>7. Caps!Grant(t, r)
    BY <2>4, <2>5, <2>6 DEF Caps!Grant, Caps!NoResource, NULL
  <2> QED BY <2>1, <2>7 DEF Caps!ANext
<1>5. ASSUME NEW t \in Threads, NEW h \in HandleArgs, NEW ty \in Types,
             NEW op \in Serving, Validate(t, h, ty, op)
      PROVE  Caps!ANext
  <2> DEFINE r == Resolve(t, h, ty)
  <2>1. pc[t] = "idle" /\ r # NULL /\ UNCHANGED <<slots, resources, issued>> /\ Others(t)
    BY <1>a, <1>5 DEF Validate
  <2>2. pc'[t] = op /\ call'[t].internal = r
    BY <1>a, <1>5 DEF Validate
  <2>3. PICK g \in issued : g.internal = r /\ g.owner = t
    BY <1>5, <2>1, ResolvedWasIssued DEF Serving
  <2>4. r \in Resources /\ resources[r] = "open"
    <3>1. h.index \in Slots /\ r = slots[h.index].internal /\ slots[h.index].owner = t
      BY <1>5, <2>1, ResolvedWasIssued DEF Resolve, Serving
    <3>2. r \in Resources
      BY <1>a, <2>1, <2>3
    <3>3. resources[r] = "open"
      BY <2>1, <3>1 DEF IInv, SlotsHoldOpen
    <3> QED BY <3>2, <3>3
  <2> HIDE DEF r
  <2>5. CapOwner[r] = t
    BY <2>3, <2>4, OwnerOf
  <2>6. CapServing[t] = NULL /\ CapServing' = [CapServing EXCEPT ![t] = r]
    BY <1>a, <2>1, <2>2, ServingOf DEF CapServing, Serving
  <2>7. UNCHANGED <<CapOwner, CapGranted>>
    BY <2>1, OwnersStay
  <2>8. Caps!Begin(t, r)
    BY <2>5, <2>6, <2>7 DEF Caps!Begin, Caps!NoResource, NULL
  <2> QED BY <2>4, <2>8 DEF Caps!ANext
<1>6. ASSUME NEW t \in Threads, UseHost(t) \/ OpenChildFails(t) \/ Transfer(t)
      PROVE  Caps!ANext
  <2>1. /\ UNCHANGED <<issued, resources>> /\ Others(t)
        /\ pc[t] \in Serving /\ pc'[t] \notin Serving
    BY <1>a, <1>6 DEF UseHost, OpenChildFails, Transfer, Return, Serving
  <2> QED BY <1>c, <2>1, OwnersStay
<1>7. ASSUME NEW t \in Threads, CloseHost(t)
      PROVE  Caps!ANext
  <2> DEFINE r == call[t].internal
  <2>1. /\ pc[t] = "close" /\ pc'[t] = "release" /\ UNCHANGED <<issued, call>>
        /\ resources' = [resources EXCEPT ![r] = "closed"] /\ Others(t)
    BY <1>a, <1>7 DEF CloseHost
  <2>2. r \in Resources /\ r # NULL /\ resources[r] = "open"
    BY <1>a, <2>1 DEF IInv, CallsLive
  <2>3. PICK g \in issued : g.internal = r /\ g.owner = t
    BY <2>1 DEF Ledger, Serving
  <2> HIDE DEF r
  <2>4. CapServing[t] = r
    BY <2>1 DEF CapServing, r
  <2>5. CapServing' = [CapServing EXCEPT ![t] = NULL]
    BY <1>a, <2>1, ServingOf DEF Serving
  <2>6. CapOwner[r] = t
    BY <2>2, <2>3, OwnerOf
  <2>7. CapOwner' = [CapOwner EXCEPT ![r] = NoThread]
    <3>1. CapOwner'[r] = NoThread
      BY <1>a, <2>1, <2>2 DEF CapOwner
    <3>2. \A x \in Resources : x # r => CapOwner'[x] = CapOwner[x]
      BY <1>a, <2>1 DEF CapOwner
    <3> QED BY <3>1, <3>2 DEF CapOwner
  <2>8. CapGranted' = CapGranted
    BY <2>1 DEF CapGranted
  <2>9. Caps!Revoke(t)
    BY <2>2, <2>4, <2>5, <2>6, <2>7, <2>8
    DEF Caps!Revoke, Caps!NoResource, Caps!NoThread, NoThread, NULL
  <2> QED BY <2>9 DEF Caps!ANext
<1>8. ASSUME NEW t \in Threads, Release(t)
      PROVE  UNCHANGED <<CapOwner, CapGranted, CapServing>>
  BY <1>a, <1>d, <1>8, OwnersStay DEF Release, Return, Serving
<1>9. CASE UNCHANGED vars
  BY <1>9, OwnersStay DEF vars, CapServing
<1> QED
  BY <1>1, <1>2, <1>3, <1>4, <1>5, <1>6, <1>7, <1>8, <1>9 DEF Next, Serving

\* The table with its slots, generations and half-done calls does what the
\* capabilities promise: a resource is served only to the thread it was granted
\* to and only until it is closed, and is granted once (ImplementsCapabilities).
THEOREM TableImplementsCapabilities == Spec /\ []NoWrap => ImplementsCapabilities
<1>1. Init => Caps!AInit
  BY RefinesInit
<1>2. IInv /\ Ledger /\ Ledger' /\ [Next]_vars => [Caps!ANext]_(Caps!avars)
  BY RefinesStep
<1> QED BY <1>1, <1>2, TableInvariant, LedgerInvariant, PTL
        DEF Spec, ImplementsCapabilities, Caps!ASpec

----------------------------------------------------------------------------
\* An open resource that some slot or opener holds is held after every step,
\* closed by it, or turned away from a full table.
LEMMA LosesWhenFull ==
  ASSUME IInv, Ledger, Next, NEW r \in Resources, resources[r] = "open", Reachable(r),
         ~Reachable(r)'
  PROVE  resources'[r] = "closed" \/ FreeSlots = {}
<1> USE KindsOfTable
<1>a. TypeOK
  BY DEF IInv
<1>1. ASSUME NEW t \in Threads, Open(t) \/ OpenChild(t) PROVE FALSE
  BY <1>a, <1>1 DEF Open, OpenChild, HostOpen, Reachable
<1>2. ASSUME NEW t \in Threads, Reserve(t) PROVE FALSE
  <2>1. PICK i \in Slots : /\ slots[i].internal = NULL
                           /\ slots' = [slots EXCEPT ![i] = ReservedSlot(i, t, call[t].type)]
                           /\ call' = [call EXCEPT ![t].index = i]
    BY <1>2 DEF Reserve, FirstFree, FreeSlots
  <2>2. \A j \in Slots : slots[j].internal = r => slots'[j] = slots[j]
    BY <1>a, <2>1
  <2>3. \A u \in Threads : /\ call'[u].internal = call[u].internal
                           /\ pc[u] \in {"reserve", "publish"} => pc'[u] \in {"reserve", "publish"}
    BY <1>a, <1>2, <2>1 DEF Reserve, Call
  <2> QED BY <2>2, <2>3 DEF Reachable
<1>3. ASSUME NEW t \in Threads, ReserveFails(t) PROVE FreeSlots = {}
  BY <1>3 DEF ReserveFails
<1>4. ASSUME NEW t \in Threads, Publish(t) PROVE FALSE
  <2>1. /\ call[t].index \in Slots /\ slots[call[t].index].in_use
        /\ slots[call[t].index].internal = NULL
    BY <1>a, <1>4 DEF Publish, IInv, PublishersOwnTheirSlot
  <2>2. slots' = [slots EXCEPT ![call[t].index].internal = call[t].internal]
    BY <1>4 DEF Publish
  <2>3. \A j \in Slots : slots[j].internal = r => slots'[j] = slots[j]
    BY <1>a, <2>1, <2>2
  <2>4. slots'[call[t].index].in_use /\ slots'[call[t].index].internal = call[t].internal
    BY <1>a, <2>1, <2>2 DEF Slot
  <2>5. \A u \in Threads \ {t} : pc'[u] = pc[u] /\ call'[u] = call[u]
    BY <1>a, <1>4 DEF Publish, Return
  <2> QED BY <2>1, <2>3, <2>4, <2>5 DEF Reachable
<1>5. ASSUME NEW t \in Threads, NEW h \in HandleArgs, NEW ty \in Types,
             NEW op \in Serving, Validate(t, h, ty, op)
      PROVE  FALSE
  BY <1>a, <1>5 DEF Validate, Reachable
<1>6. ASSUME NEW t \in Threads, UseHost(t) \/ OpenChildFails(t) PROVE FALSE
  BY <1>a, <1>6 DEF UseHost, OpenChildFails, Return, Reachable
<1>7. ASSUME NEW t \in Threads, Transfer(t) PROVE FALSE
  <2>1. slots' = slots
    BY <1>a, <1>7 DEF Transfer, IInv, CallsLive, Slot
  <2> QED BY <1>a, <1>7, <2>1 DEF Transfer, Return, Reachable
<1>8. ASSUME NEW t \in Threads, CloseHost(t) PROVE FALSE
  BY <1>a, <1>8 DEF CloseHost, Reachable
<1>9. ASSUME NEW t \in Threads, Release(t) PROVE FALSE
  <2>1. slots[call[t].index].internal # r
    BY <1>9 DEF Release, Ledger, IInv, ReleasersHoldTheirSlot
  <2>2. \A j \in Slots : j # call[t].index => slots'[j] = slots[j]
    BY <1>a, <1>9 DEF Release
  <2> QED BY <1>a, <1>9, <2>1, <2>2 DEF Release, Return, Reachable
<1> QED BY <1>1, <1>2, <1>3, <1>4, <1>5, <1>6, <1>7, <1>8, <1>9 DEF Next, Serving

\* The table loses track of an open resource in one situation only: an opener
\* found every slot taken (LostOnlyWhenFull; pal_core_reserve, the openers).
THEOREM LosesOnlyWhenFull == Spec /\ []NoWrap => LostOnlyWhenFull
<1>1. IInv /\ Ledger /\ [Next]_vars =>
        [\A r \in Resources : resources[r] = "open" /\ Reachable(r) /\ ~Reachable(r)' =>
           resources'[r] = "closed" \/ FreeSlots = {}]_vars
  BY LosesWhenFull
<1> QED BY <1>1, TableInvariant, LedgerInvariant, PTL DEF Spec, LostOnlyWhenFull
=============================================================================
