---------------------------- MODULE PosetProofs ----------------------------
(***************************************************************************)
(* Proofs about the event DAG that Poset.InsertEvent builds: a creator    *)
(* has at most one root per frame, and a flag table holds roots of its   *)
(* event's frame by distinct creators, for every set of participants and *)
(* every bound.  They rest on the DAG part of the store only, which      *)
(* InsertEvent fixes once (its first SetEvent) and nothing changes later.*)
(***************************************************************************)
EXTENDS Poset, TLAPS

\* The events of creator c, the set InmemStore.LastEventFrom reads.
Mine(c) == {i \in Ids : events[i].creator = c}

HasMax(S) == \E x \in S : \A y \in S : x >= y

\* Every set of stored hashes the store takes a maximum of has one: the
\* last event of a creator, the last root of a (frame, creator) pair.
IdsWellOrdered == \A S \in SUBSET Ids : S # {} => HasMax(S)

\* Along a creator's chain frames never go down, and a root is in a
\* higher frame than every earlier event of its creator.
SelfChainFrames ==
    \A i, j \in Ids :
        i < j /\ events[i].creator = events[j].creator =>
            /\ events[i].frame <= events[j].frame
            /\ events[j].root => events[i].frame < events[j].frame

\* The inductive invariant.
IInv ==
    /\ events \in Seq(EventRec)
    /\ IdsWellOrdered
    /\ SelfChainFrames
    /\ FlagTableDistinctCreators
-----------------------------------------------------------------------------
(***************************************************************************)
(* Lemmas about the maxima the store takes (FiniteSetsExt's Max is a      *)
(* CHOOSE, so it is only known to be a maximum where one exists).         *)
(***************************************************************************)
LEMMA MaxIsMax ==
    ASSUME NEW S, HasMax(S)
    PROVE  Max(S) \in S /\ \A y \in S : Max(S) >= y
BY DEF HasMax, Max

LEMMA PairHasMax ==
    ASSUME NEW x \in Nat, NEW y \in Nat
    PROVE  HasMax({x, y})
BY DEF HasMax

\* InmemStore.LastEventFrom returns the creator's newest event, or its
\* Root (NoEvent) when the store holds none of its events.
LEMMA LastEventFromIsLast ==
    ASSUME IdsWellOrdered, NEW c
    PROVE  /\ Mine(c) = {} => LastEventFrom(events, c) = NoEvent
           /\ Mine(c) # {} => /\ LastEventFrom(events, c) \in Mine(c)
                              /\ \A y \in Mine(c) : LastEventFrom(events, c) >= y
<1>1. Mine(c) = {i \in 1 .. Len(events) : events[i].creator = c}
      BY DEF Mine, Ids
<1>2. Mine(c) \in SUBSET Ids
      BY DEF Mine
<1>3. Mine(c) # {} => HasMax(Mine(c))
      BY <1>2 DEF IdsWellOrdered
<1>4. QED BY <1>1, <1>3, MaxIsMax DEF LastEventFrom

\* The clotho-check entry of a (frame, creator) pair is a stored event
\* or NoEvent.
LEMMA ClothoCreatorCheckStored ==
    ASSUME IdsWellOrdered, NEW f, NEW d
    PROVE  ClothoCreatorCheck(events, f, d) \in {NoEvent} \cup Ids
<1> DEFINE rs == {i \in 1 .. Len(events) : events[i].root /\ events[i].frame = f
                                             /\ events[i].creator = d}
<1>1. rs \in SUBSET Ids
      BY DEF Ids
<1>2. rs # {} => Max(rs) \in rs
      BY <1>1, MaxIsMax DEF IdsWellOrdered
<1>3. QED BY <1>1, <1>2 DEF ClothoCreatorCheck

\* A parent as InsertEvent reads it (the zero event for a missing one).
LEMMA EvType ==
    ASSUME events \in Seq(EventRec), NEW i \in {NoEvent} \cup Ids
    PROVE  /\ Ev(events, i).frame \in Nat
           /\ Ev(events, i).ft \subseteq Nat
           /\ Ev(events, i).rt \subseteq Nat
           /\ Ev(events, i).lamport \in Nat
<1>1. CASE i = NoEvent
      BY <1>1 DEF Ev, ZeroEvent
<1>2. CASE i \in Ids
      <2>1. events[i] \in EventRec
            BY <1>2 DEF Ids
      <2>2. QED BY <1>2, <2>1 DEF Ev, EventRec, NoEvent, Ids
<1>3. QED BY <1>1, <1>2

\* The branches of InsertEvent's frame assignment, by how the parents'
\* frames compare: a root is a frame above its self-parent, or jumps to
\* the other parent's higher frame with that parent's flag table; a
\* non-root stays in its self-parent's frame.
LEMMA FrameAssignCases ==
    ASSUME events \in Seq(EventRec), IdsWellOrdered,
           NEW sp \in {NoEvent} \cup Ids, NEW op \in {NoEvent} \cup Ids
    PROVE  LET p == Ev(events, sp)
               o == Ev(events, op)
               fa == FrameAssign(events, sp, op)
           IN  /\ p.frame \in Nat /\ o.frame \in Nat
               /\ p.ft \subseteq Nat /\ o.ft \subseteq Nat
               /\ fa.frame \in Nat /\ fa.root \in BOOLEAN
               /\ fa.ft \subseteq Nat /\ fa.rt \subseteq Nat
               /\ \/ /\ sp = NoEvent /\ op = NoEvent
                     /\ fa.root = TRUE /\ fa.frame = 0 /\ fa.ft = {}
                  \/ /\ p.frame = o.frame
                     /\ fa.root = TRUE /\ fa.frame = p.frame + 1 /\ fa.ft = {}
                  \/ /\ p.frame = o.frame
                     /\ fa.root = FALSE /\ fa.frame = p.frame /\ fa.ft = p.ft \cup o.ft
                  \/ /\ p.frame > o.frame
                     /\ fa.root = FALSE /\ fa.frame = p.frame /\ fa.ft = p.ft
                  \/ /\ p.frame < o.frame
                     /\ fa.root = TRUE /\ fa.frame = o.frame /\ fa.ft = o.ft
<1> DEFINE p == Ev(events, sp)
           o == Ev(events, op)
           merged == p.ft \cup o.ft
           fa == FrameAssign(events, sp, op)
<1>1. p.frame \in Nat /\ o.frame \in Nat /\ p.ft \subseteq Nat /\ o.ft \subseteq Nat
      BY EvType
<1>2. CASE sp = NoEvent /\ op = NoEvent /\ SeedLeafRoots
      <2>1. fa = [root |-> TRUE, frame |-> 0, ft |-> {}, rt |-> {}]
            BY <1>2 DEF FrameAssign
      <2>2. QED BY <1>1, <1>2, <2>1
<1>3. CASE ~(sp = NoEvent /\ op = NoEvent /\ SeedLeafRoots)
           /\ p.frame = o.frame /\ Cardinality(merged) >= SuperMajority
      <2>1. fa = [root |-> TRUE, frame |-> p.frame + 1, ft |-> {}, rt |-> merged]
            BY <1>3 DEF FrameAssign
      <2>2. QED BY <1>1, <1>3, <2>1
<1>4. CASE ~(sp = NoEvent /\ op = NoEvent /\ SeedLeafRoots)
           /\ p.frame = o.frame /\ ~(Cardinality(merged) >= SuperMajority)
      <2>1. fa = [root |-> FALSE, frame |-> p.frame, ft |-> merged, rt |-> {}]
            BY <1>4 DEF FrameAssign
      <2>2. QED BY <1>1, <1>4, <2>1
<1>5. CASE ~(sp = NoEvent /\ op = NoEvent /\ SeedLeafRoots) /\ p.frame > o.frame
      <2>1. fa = [root |-> FALSE, frame |-> p.frame, ft |-> p.ft, rt |-> {}]
            BY <1>1, <1>5 DEF FrameAssign
      <2>2. QED BY <1>1, <1>5, <2>1
<1>6. CASE ~(sp = NoEvent /\ op = NoEvent /\ SeedLeafRoots) /\ p.frame < o.frame
      <2>1. ClothoCreatorCheck(events, o.frame, o.creator) \in {NoEvent} \cup Ids
            BY ClothoCreatorCheckStored
      <2>2. Ev(events, ClothoCreatorCheck(events, o.frame, o.creator)).rt \subseteq Nat
            BY <2>1, EvType
      <2>3. fa = [root |-> TRUE, frame |-> o.frame, ft |-> o.ft,
                  rt |-> p.ft \cup Ev(events, ClothoCreatorCheck(events, o.frame, o.creator)).rt]
            BY <1>1, <1>6 DEF FrameAssign
      <2>4. QED BY <1>1, <1>6, <2>2, <2>3
<1>7. \/ sp = NoEvent /\ op = NoEvent /\ SeedLeafRoots
      \/ p.frame = o.frame /\ Cardinality(merged) >= SuperMajority
      \/ p.frame = o.frame /\ ~(Cardinality(merged) >= SuperMajority)
      \/ p.frame > o.frame
      \/ p.frame < o.frame
      BY <1>1
<1>8. QED BY <1>2, <1>3, <1>4, <1>5, <1>6, <1>7


\* The record InsertEvent stores is well typed; in particular the Lamport
\* timestamp, one more than the larger of the parents', is a number.
LEMMA NewEventType ==
    ASSUME events \in Seq(EventRec), IdsWellOrdered, NEW c \in Peers,
           NEW sp \in {NoEvent} \cup Ids, NEW op \in {NoEvent} \cup Ids, NEW id \in Nat
    PROVE  NewEvent(events, c, sp, op, id) \in EventRec
<1> DEFINE fa == FrameAssign(events, sp, op)
           l == {Ev(events, sp).lamport, Ev(events, op).lamport}
<1>1. fa.frame \in Nat /\ fa.root \in BOOLEAN /\ fa.ft \subseteq Nat /\ fa.rt \subseteq Nat
      BY FrameAssignCases
<1>2. Max(l) \in Nat
      <2>1. Ev(events, sp).lamport \in Nat /\ Ev(events, op).lamport \in Nat
            BY EvType
      <2>2. HasMax(l)
            BY <2>1, PairHasMax
      <2>3. Max(l) \in l
            BY <2>2, MaxIsMax
      <2>4. QED BY <2>1, <2>3
<1>3. sp \in Nat /\ op \in Nat
      BY DEF Ids, NoEvent
<1>4. (IF fa.root THEN fa.ft \cup {id} ELSE fa.ft) \subseteq Nat
      BY <1>1
<1>5. QED BY <1>1, <1>2, <1>3, <1>4 DEF NewEvent, EventRec


LEMMA StoredType ==
    ASSUME events \in Seq(EventRec), NEW i \in Ids
    PROVE  events[i] \in EventRec
BY DEF Ids

-----------------------------------------------------------------------------
(***************************************************************************)
(* The inductive invariant.                                               *)
(***************************************************************************)
\* A creator's roots are in strictly increasing frames along its chain, so
\* no two of them share a frame.
LEMMA ChainRootUnique ==
    ASSUME events \in Seq(EventRec), SelfChainFrames
    PROVE  RootUnique
<1> SUFFICES ASSUME NEW i \in Roots, NEW j \in Roots,
                    events[i].creator = events[j].creator,
                    events[i].frame = events[j].frame,
                    i # j
             PROVE  FALSE
    BY DEF RootUnique
<1>1. i \in Ids /\ j \in Ids /\ events[i].root /\ events[j].root
      BY DEF Roots
<1>2. events[i].frame \in Nat /\ events[j].frame \in Nat
      BY <1>1, StoredType DEF EventRec
<1>3. CASE i < j
      BY <1>1, <1>2, <1>3 DEF SelfChainFrames
<1>4. CASE j < i
      BY <1>1, <1>2, <1>4 DEF SelfChainFrames
<1>5. QED BY <1>1, <1>3, <1>4 DEF Ids

LEMMA InitIInv == Init => IInv
<1> SUFFICES ASSUME Init PROVE IInv
    OBVIOUS
<1>1. Ids = {}
      BY DEF Init, Ids
<1>2. QED BY <1>1 DEF Init, IInv, IdsWellOrdered, SelfChainFrames,
                      FlagTableDistinctCreators

\* InsertEvent's new event is in a frame at least that of every earlier
\* event of its creator, and above it when the new event is a root.
LEMMA NewEventAboveChain ==
    ASSUME IInv, NEW c \in Peers, NEW sp \in {NoEvent} \cup Ids,
           NEW op \in {NoEvent} \cup Ids, CheckSelfParent(events, c, sp), NEW id \in Nat
    PROVE  \A i \in Mine(c) :
               /\ events[i].frame <= NewEvent(events, c, sp, op, id).frame
               /\ NewEvent(events, c, sp, op, id).root =>
                      events[i].frame < NewEvent(events, c, sp, op, id).frame
<1> DEFINE p == Ev(events, sp)
           o == Ev(events, op)
           fa == FrameAssign(events, sp, op)
           e == NewEvent(events, c, sp, op, id)
<1>1. events \in Seq(EventRec) /\ IdsWellOrdered /\ SelfChainFrames
      BY DEF IInv
<1>2. ASSUME NEW i \in Mine(c)
      PROVE  sp # NoEvent /\ events[i].frame \in Nat /\ events[i].frame <= p.frame
      <2>1. sp \in Mine(c) /\ sp >= i
            BY <1>1, <1>2, LastEventFromIsLast DEF CheckSelfParent
      <2>2. sp \in Ids /\ i \in Ids /\ sp # NoEvent
            BY <2>1 DEF Mine, Ids, NoEvent
      <2>3. p = events[sp]
            BY <2>2 DEF Ev
      <2>4. events[i].frame \in Nat /\ events[sp].frame \in Nat
            BY <1>1, <2>2, StoredType DEF EventRec
      <2>5. CASE i = sp
            BY <2>2, <2>3, <2>4, <2>5
      <2>6. CASE i # sp
            <3>1. i < sp
                  BY <2>1, <2>2, <2>6 DEF Ids
            <3>2. events[i].creator = events[sp].creator
                  BY <2>1 DEF Mine
            <3>3. QED BY <1>1, <2>2, <2>3, <2>4, <3>1, <3>2 DEF SelfChainFrames
      <2>7. QED BY <2>2, <2>4, <2>5, <2>6
<1>3. e.frame = fa.frame /\ e.root = fa.root
      BY DEF NewEvent
<1>4. SUFFICES ASSUME NEW i \in Mine(c)
               PROVE  /\ events[i].frame <= fa.frame
                      /\ fa.root => events[i].frame < fa.frame
      BY <1>3
<1>5. sp # NoEvent /\ events[i].frame \in Nat /\ events[i].frame <= p.frame
      BY <1>2
<1>6. /\ p.frame \in Nat /\ o.frame \in Nat /\ fa.frame \in Nat
      /\ \/ sp = NoEvent
         \/ p.frame = o.frame /\ fa.root = TRUE /\ fa.frame = p.frame + 1
         \/ p.frame = o.frame /\ fa.root = FALSE /\ fa.frame = p.frame
         \/ p.frame > o.frame /\ fa.root = FALSE /\ fa.frame = p.frame
         \/ p.frame < o.frame /\ fa.root = TRUE /\ fa.frame = o.frame
      BY <1>1, FrameAssignCases
<1>7. QED BY <1>5, <1>6


\* A parent's flag table (empty for a missing parent) holds roots of the
\* parent's frame, one per creator.
LEMMA ParentFlags ==
    ASSUME IInv, NEW s \in {NoEvent} \cup Ids
    PROVE  /\ \A x \in Ev(events, s).ft : x \in Roots /\ events[x].frame = Ev(events, s).frame
           /\ \A x, y \in Ev(events, s).ft :
                  events[x].creator = events[y].creator => x = y
<1>1. CASE s = NoEvent
      BY <1>1 DEF Ev, ZeroEvent
<1>2. CASE s \in Ids
      BY <1>2 DEF IInv, FlagTableDistinctCreators, Ev, NoEvent, Ids
<1>3. QED BY <1>1, <1>2

\* The flag table InsertEvent stores with the new event id: the roots it
\* takes over from the parents are of the new event's frame and of
\* distinct creators.
LEMMA NewEventFlags ==
    ASSUME IInv, NEW c \in Peers, NEW sp \in {NoEvent} \cup Ids,
           NEW op \in {NoEvent} \cup Ids, NEW id \in Nat \ Ids
    PROVE  /\ NewEvent(events, c, sp, op, id).ft \ {id} \subseteq Roots
           /\ \A x \in NewEvent(events, c, sp, op, id).ft \ {id} :
                  events[x].frame = NewEvent(events, c, sp, op, id).frame
           /\ \A x, y \in NewEvent(events, c, sp, op, id).ft \ {id} :
                  events[x].creator = events[y].creator => x = y
<1> DEFINE p == Ev(events, sp)
           o == Ev(events, op)
           fa == FrameAssign(events, sp, op)
           e == NewEvent(events, c, sp, op, id)
<1>1. events \in Seq(EventRec) /\ IdsWellOrdered /\ RootUnique
      BY ChainRootUnique DEF IInv
<1>2. /\ \A x \in p.ft : x \in Roots /\ events[x].frame = p.frame
      /\ \A x, y \in p.ft : events[x].creator = events[y].creator => x = y
      BY ParentFlags
<1>3. /\ \A x \in o.ft : x \in Roots /\ events[x].frame = o.frame
      /\ \A x, y \in o.ft : events[x].creator = events[y].creator => x = y
      BY ParentFlags
<1>4. \/ fa.root = TRUE /\ fa.ft = {}
      \/ p.frame = o.frame /\ fa.root = FALSE /\ fa.frame = p.frame /\ fa.ft = p.ft \cup o.ft
      \/ p.frame > o.frame /\ fa.root = FALSE /\ fa.frame = p.frame /\ fa.ft = p.ft
      \/ p.frame < o.frame /\ fa.root = TRUE /\ fa.frame = o.frame /\ fa.ft = o.ft
      BY <1>1, FrameAssignCases
<1>5. /\ e.ft = IF fa.root THEN fa.ft \cup {id} ELSE fa.ft
      /\ e.frame = fa.frame /\ e.root = fa.root
      BY DEF NewEvent
<1>6. id \notin Roots
      BY DEF Roots
<1>7. CASE fa.root = TRUE /\ fa.ft = {}
      BY <1>5, <1>7
<1>8. CASE p.frame = o.frame /\ fa.root = FALSE /\ fa.frame = p.frame /\ fa.ft = p.ft \cup o.ft
      <2>1. e.ft = p.ft \cup o.ft /\ e.frame = p.frame /\ e.root = FALSE
            BY <1>5, <1>8
      <2>2. \A x, y \in p.ft \cup o.ft : events[x].creator = events[y].creator => x = y
            BY <1>1, <1>2, <1>3, <1>8 DEF RootUnique
      <2>3. QED BY <1>2, <1>3, <1>6, <1>8, <2>1, <2>2
<1>9. CASE p.frame > o.frame /\ fa.root = FALSE /\ fa.frame = p.frame /\ fa.ft = p.ft
      BY <1>2, <1>5, <1>6, <1>9
<1>10. CASE p.frame < o.frame /\ fa.root = TRUE /\ fa.frame = o.frame /\ fa.ft = o.ft
      BY <1>3, <1>5, <1>10
<1>11. QED BY <1>4, <1>7, <1>8, <1>9, <1>10


LEMMA NewEventFlagCreators ==
    ASSUME IInv, NEW c \in Peers, NEW sp \in {NoEvent} \cup Ids,
           NEW op \in {NoEvent} \cup Ids, NEW id \in Nat \ Ids,
           NEW x \in NewEvent(events, c, sp, op, id).ft \ {id},
           NEW y \in NewEvent(events, c, sp, op, id).ft \ {id},
           events[x].creator = events[y].creator
    PROVE  x = y
BY NewEventFlags

\* A new event's own hash is in its flag table only if it is a root:
\* the tables it takes over hold stored roots only.
LEMMA NewEventOwnFlag ==
    ASSUME IInv, NEW c \in Peers, NEW sp \in {NoEvent} \cup Ids,
           NEW op \in {NoEvent} \cup Ids, NEW id \in Nat \ Ids
    PROVE  id \in NewEvent(events, c, sp, op, id).ft => NewEvent(events, c, sp, op, id).root
<1> DEFINE p == Ev(events, sp)
           o == Ev(events, op)
           fa == FrameAssign(events, sp, op)
<1>1. events \in Seq(EventRec) /\ IdsWellOrdered
      BY DEF IInv
<1>2. p.ft \subseteq Roots /\ o.ft \subseteq Roots
      BY ParentFlags
<1>3. \/ fa.root = TRUE
      \/ fa.root = FALSE /\ fa.ft = p.ft \cup o.ft
      \/ fa.root = FALSE /\ fa.ft = p.ft
      BY <1>1, FrameAssignCases
<1>4. id \notin Roots
      BY DEF Roots
<1>5. QED BY <1>2, <1>3, <1>4 DEF NewEvent

\* The DAG part of a successful InsertEvent: the new event is appended.
AppendsNewEvent(c, sp, op, id) ==
    /\ id = Len(events) + 1
    /\ events' = Append(events, NewEvent(events, c, sp, op, id))

\* One InsertEvent keeps the inductive invariant: it appends the event
\* its frame assignment computed, and nothing else changes the DAG part.
LEMMA InsertEventIInv ==
    ASSUME IInv, NEW c \in Peers, NEW sp \in {NoEvent} \cup Ids,
           NEW op \in {NoEvent} \cup Ids, CheckSelfParent(events, c, sp),
           NEW id \in Nat \ Ids, AppendsNewEvent(c, sp, op, id)
    PROVE  IInv'
<1>1. events \in Seq(EventRec) /\ IdsWellOrdered /\ SelfChainFrames
      /\ FlagTableDistinctCreators
      BY DEF IInv
<1>3a. id \in Nat \ Ids
       OBVIOUS
<1>3b. /\ NewEvent(events, c, sp, op, id).ft \ {id} \subseteq Roots
       /\ \A x \in NewEvent(events, c, sp, op, id).ft \ {id} :
              events[x].frame = NewEvent(events, c, sp, op, id).frame
       BY <1>3a, NewEventFlags
<1> DEFINE e == NewEvent(events, c, sp, op, id)
<1>2. id \in Nat \ Ids /\ Ids' = Ids \cup {id} /\ events' = Append(events, e)
      /\ events'[id] = e /\ \A i \in Ids : events'[i] = events[i]
      BY <1>1 DEF Ids, AppendsNewEvent
<1>3c. ASSUME NEW x \in e.ft \ {id}, NEW y \in e.ft \ {id},
              events[x].creator = events[y].creator
       PROVE  x = y
       BY <1>3a, <1>3c, NewEventFlagCreators
<1>3d. id \in e.ft => e.root
       BY <1>3a, NewEventOwnFlag
<1>3. e \in EventRec /\ e.creator = c
      BY <1>1, <1>2, NewEventType DEF NewEvent
<1>4. events' \in Seq(EventRec)
      BY <1>1, <1>2, <1>3
<1>5. events'[id] = e /\ \A i \in Ids : events'[i] = events[i]
      BY <1>2
<1>6. \A x : x \in Roots' <=> x \in Roots \/ (x = id /\ e.root)
      BY <1>2, <1>5 DEF Roots
<1>7. IdsWellOrdered'
      <2> SUFFICES ASSUME NEW S \in SUBSET Ids', S # {} PROVE HasMax(S)
          BY DEF IdsWellOrdered
      <2>1. CASE id \in S
            <3>1. \A y \in S : id >= y
                  BY <1>2 DEF Ids
            <3>2. QED BY <2>1, <3>1 DEF HasMax
      <2>2. CASE id \notin S
            BY <1>1, <1>2, <2>2 DEF IdsWellOrdered
      <2>3. QED BY <2>1, <2>2
<1>8. SelfChainFrames'
      <2> SUFFICES ASSUME NEW i \in Ids', NEW j \in Ids', i < j,
                          events'[i].creator = events'[j].creator
                   PROVE  /\ events'[i].frame <= events'[j].frame
                          /\ events'[j].root => events'[i].frame < events'[j].frame
          BY DEF SelfChainFrames
      <2>1. i \in Ids
            BY <1>2 DEF Ids
      <2>2. CASE j \in Ids
            BY <1>1, <1>5, <2>1, <2>2 DEF SelfChainFrames
      <2>3. CASE j = id
            <3>1. i \in Mine(c)
                  BY <1>3, <1>5, <2>1, <2>3 DEF Mine
            <3>2. /\ events[i].frame <= e.frame
                  /\ e.root => events[i].frame < e.frame
                  BY <1>3a, <3>1, NewEventAboveChain
            <3>3. QED BY <1>5, <2>1, <2>3, <3>2
      <2>4. QED BY <1>2, <2>2, <2>3
<1>9. FlagTableDistinctCreators'
      <2> SUFFICES ASSUME NEW k \in Ids'
                   PROVE  /\ \A x \in events'[k].ft : x \in Roots' /\ events'[x].frame = events'[k].frame
                          /\ \A x, y \in events'[k].ft :
                                 events'[x].creator = events'[y].creator => x = y
          BY DEF FlagTableDistinctCreators
      <2>1. Roots \subseteq Ids
            BY DEF Roots
      <2>2. CASE k \in Ids
            <3>1. events'[k].ft = events[k].ft /\ events'[k].frame = events[k].frame
                  BY <1>5, <2>2
            <3>2. /\ \A x \in events[k].ft : x \in Roots /\ events[x].frame = events[k].frame
                  /\ \A x, y \in events[k].ft :
                         events[x].creator = events[y].creator => x = y
                  BY <1>1, <2>2 DEF FlagTableDistinctCreators
            <3>3. \A x \in events[k].ft : x \in Roots' /\ events'[x] = events[x]
                  BY <1>5, <1>6, <2>1, <3>2
            <3>4. ASSUME NEW x \in events'[k].ft
                  PROVE  x \in Roots' /\ events'[x].frame = events'[k].frame
                  <4>1. x \in events[k].ft
                        BY <3>1
                  <4>2. QED BY <3>1, <3>2, <3>3, <4>1
            <3>5. ASSUME NEW x \in events'[k].ft, NEW y \in events'[k].ft,
                         events'[x].creator = events'[y].creator
                  PROVE  x = y
                  <4>1. x \in events[k].ft /\ y \in events[k].ft
                        BY <3>1
                  <4>2. events[x].creator = events[y].creator
                        BY <3>3, <3>5, <4>1
                  <4>3. QED BY <3>2, <4>1, <4>2
            <3>6. QED BY <3>4, <3>5
      <2>3. CASE k = id
            <3>1. /\ e.ft \ {id} \subseteq Roots
                  /\ \A x \in e.ft \ {id} : events[x].frame = e.frame
                  /\ \A x, y \in e.ft \ {id} :
                         events[x].creator = events[y].creator => x = y
                  /\ id \in e.ft => e.root
                  BY <1>3b, <1>3c, <1>3d
            <3>2. \A y \in e.ft \ {id} : e.root => events[y].creator # c
                  <4> SUFFICES ASSUME NEW y \in e.ft \ {id}, e.root, events[y].creator = c
                               PROVE  FALSE
                      OBVIOUS
                  <4>1. y \in Mine(c)
                        BY <2>1, <3>1 DEF Mine
                  <4>2. events[y].frame < e.frame
                        BY <1>3a, <4>1, NewEventAboveChain
                  <4>3. QED BY <1>3, <3>1, <4>2 DEF EventRec
            <3>3. events'[k] = e /\ \A x \in e.ft \ {id} : x \in Roots' /\ events'[x] = events[x]
                  BY <1>5, <1>6, <2>1, <2>3, <3>1
            <3>4. id \in e.ft => id \in Roots' /\ events'[id] = e
                  BY <1>5, <1>6, <3>1
            <3>5. ASSUME NEW x \in events'[k].ft
                  PROVE  x \in Roots' /\ events'[x].frame = events'[k].frame
                  <4>1. CASE x = id
                        BY <2>3, <3>1, <3>3, <3>4, <4>1
                  <4>2. CASE x # id
                        BY <2>3, <3>1, <3>3, <4>2
                  <4>3. QED BY <4>1, <4>2
            <3>6. ASSUME NEW x \in events'[k].ft, NEW y \in events'[k].ft,
                         events'[x].creator = events'[y].creator
                  PROVE  x = y
                  <4>1. x \in e.ft /\ y \in e.ft
                        BY <2>3, <3>3
                  <4>2. CASE x # id /\ y # id
                        <5>1. events[x].creator = events[y].creator
                              BY <3>3, <3>6, <4>1, <4>2
                        <5>2. QED BY <3>1, <4>1, <4>2, <5>1
                  <4>3. CASE x = id /\ y # id
                        <5>1. events[y].creator = c
                              BY <1>3, <3>3, <3>4, <3>6, <4>1, <4>3
                        <5>2. QED BY <3>1, <3>2, <4>1, <4>3, <5>1
                  <4>4. CASE x # id /\ y = id
                        <5>1. events[x].creator = c
                              BY <1>3, <3>3, <3>4, <3>6, <4>1, <4>4
                        <5>2. QED BY <3>1, <3>2, <4>1, <4>4, <5>1
                  <4>5. QED BY <4>2, <4>3, <4>4
            <3>7. QED BY <3>5, <3>6
      <2>4. QED BY <1>2, <2>2, <2>3
<1>10. QED BY <1>4, <1>7, <1>8, <1>9 DEF IInv


\* Every step of the model keeps the inductive invariant: a stutter leaves
\* the DAG part alone, and InsertEvent appends the event checkSelfParent
\* accepted, with an other-parent that is some other creator's last event.
LEMMA NextIInv == IInv /\ [Next]_vars => IInv'
<1> SUFFICES ASSUME IInv, [Next]_vars PROVE IInv'
    OBVIOUS
<1>1. CASE UNCHANGED vars
      <2>1. events' = events
            BY <1>1 DEF vars
      <2>2. QED
            BY <2>1 DEF IInv, IdsWellOrdered, HasMax, SelfChainFrames,
                        FlagTableDistinctCreators, Roots, Ids
<1>2. CASE Next
      <2>1. PICK c \in Peers : InsertEvent(c)
            BY <1>2 DEF Next
      <2>2. \E sp \in {NoEvent} \cup {i \in Ids : events[i].creator = c},
               op \in OtherParents(c) :
                 /\ CheckSelfParent(events, c, sp)
                 /\ \E id \in Nat \ Ids : AppendsNewEvent(c, sp, op, id)
            <3>1. Len(events) + 1 \in Nat \ Ids
                  BY DEF IInv, Ids
            <3>2. QED
                  BY <2>1, <3>1 DEF InsertEvent, AppendsNewEvent
      <2>3. PICK sp \in {NoEvent} \cup {i \in Ids : events[i].creator = c},
                 op \in OtherParents(c) :
                 /\ CheckSelfParent(events, c, sp)
                 /\ \E id \in Nat \ Ids : AppendsNewEvent(c, sp, op, id)
            BY <2>2
      <2>4. PICK id \in Nat \ Ids : AppendsNewEvent(c, sp, op, id)
            BY <2>3
      <2>5. sp \in {NoEvent} \cup Ids
            OBVIOUS
      <2>6. op \in {NoEvent} \cup Ids
            <3>1. CASE op = NoEvent
                  BY <3>1
            <3>2. CASE op # NoEvent
                  <4>1. PICK d \in Peers \ {c} : op = LastEventFrom(events, d)
                        BY <3>2 DEF OtherParents
                  <4>2. QED
                        BY <4>1, LastEventFromIsLast DEF IInv, Mine
            <3>3. QED BY <3>1, <3>2
      <2>7. QED
            BY <2>3, <2>4, <2>5, <2>6, InsertEventIInv
<1>3. QED BY <1>1, <1>2


\* The clotho-check index keyed by (frame, creator ID), which the frame jump
\* of InsertEvent reads, never holds two roots for one key: in every reachable
\* state a creator has at most one root per frame.
THEOREM PosetRootUnique == Spec => []RootUnique
<1>1. Init => IInv
      BY InitIInv
<1>2. IInv /\ [Next]_vars => IInv'
      BY NextIInv
<1>3. IInv => RootUnique
      BY ChainRootUnique DEF IInv
<1>4. QED BY <1>1, <1>2, <1>3, PTL DEF Spec

\* The flag table InsertEvent merges from its parents, whose length it
\* compares with the supermajority, holds only roots of the event's frame,
\* one per creator, in every reachable state: len(flagTable) counts
\* distinct participants.
THEOREM PosetFlagTables == Spec => []FlagTableDistinctCreators
<1>1. Init => IInv
      BY InitIInv
<1>2. IInv /\ [Next]_vars => IInv'
      BY NextIInv
<1>3. IInv => FlagTableDistinctCreators
      BY DEF IInv
<1>4. QED BY <1>1, <1>2, <1>3, PTL DEF Spec

=============================================================================
