------------------------------- MODULE Poset -------------------------------
(***************************************************************************)
(* The event DAG of one replica and the decision machinery run when an    *)
(* event is inserted: Poset.InsertEvent (src/unnamed/part_010) with its   *)
(* frame assignment from flag tables, the Lamport timestamp, the          *)
(* clotho-check index of the store, ClothoChecking, AtroposTimeSelection  *)
(* and AssignAtroposTime2.                                                 *)
(*                                                                         *)
(* Events are numbered in insertion order, which is the order of the     *)
(* store's topological index.  Hashes are these numbers: the model treats *)
(* the content hash as injective.  A stored event has two parts.  The   *)
(* DAG part, events[i], is fixed by the first SetEvent of InsertEvent:   *)
(*   creator, sp, op      creator and self-/other-parent (0 = none/Root)  *)
(*   frame, root          Event.Frame, Event.Root                         *)
(*   ft, rt               flag table and root table, as the SET of root   *)
(*                        events they map (the value stored for a hash is *)
(*                        that root's frame, so it is not repeated here)  *)
(*   lamport              Event.LamportTimestamp                          *)
(* The consensus marks, marks[i], are all the later SetEvent calls       *)
(* (ClothoChecking, AtroposTimeSelection, AssignAtroposTime2) change:    *)
(*   clotho, atropos      Event.Clotho, Event.Atropos                     *)
(*   fr, at               Event.FrameReceived, Event.AtroposTimestamp     *)
(*                        (0 is the code's "unset")                       *)
(* The decision operators read the two together, as the record the store *)
(* returns (View).                                                        *)
(***************************************************************************)
EXTENDS Integers, Sequences, FiniteSets, FiniteSetsExt, TLC

CONSTANTS
    Peers,          \* participants (public keys), as model values
    MaxEvents,      \* bound on the number of events inserted
    SeedLeafRoots   \* TRUE: a creator's first, parentless event is a root
                    \* of frame 0 (see FrameAssign)

ASSUME PeersAssumption == Peers # {} /\ IsFiniteSet(Peers)
ASSUME MaxEventsAssumption == MaxEvents \in Nat
ASSUME SeedAssumption == SeedLeafRoots \in BOOLEAN

\* peers.GetSuperMajority (outside src/; the values of spec section 8).
SuperMajority == (2 * Cardinality(Peers)) \div 3 + 1

\* AtroposTimeSelection: c := int64(4).
CoinInterval == 4

NoEvent == 0

\* GetLastConsensusRound returns -2 while LastConsensusRound is nil.
LastConsensusRoundNil == -2

VARIABLES
    events,        \* the event store: events[i] is the DAG part of hash i
    marks,         \* marks[i]: the consensus marks of hash i
    timeTable,     \* store time tables: timeTable[h][c] = h's vote on c's time
    lastConsensusRound,
    consensusEvents, \* events passed to Store.AddConsensusEvent
    undetermined,  \* Poset.UndeterminedEvents (as a set)
    atroposVote    \* history: the winning vote when an atropos was decided

vars == <<events, marks, timeTable, lastConsensusRound, consensusEvents,
          undetermined, atroposVote>>

Ids == 1 .. Len(events)

\* Store.GetEventBlock on a hash it does not hold returns the zero Event.
ZeroEvent == [frame |-> 0, ft |-> {}, rt |-> {}, lamport |-> 0]

Ev(evs, i) == IF i = NoEvent THEN ZeroEvent ELSE evs[i]

\* InmemStore.LastEventFrom: the creator's last event, or its Root.
LastEventFrom(evs, c) ==
    LET mine == {i \in 1 .. Len(evs) : evs[i].creator = c}
    IN  IF mine = {} THEN NoEvent ELSE Max(mine)

\* InmemStore.GetClothoCreatorCheck(frame, creatorID): AddClothoCheck is
\* called for every root right after it is stored and overwrites the key
\* (frame, creator), so the entry is the last root stored for the pair.
ClothoCreatorCheck(evs, f, c) ==
    LET rs == {i \in 1 .. Len(evs) : evs[i].root /\ evs[i].frame = f
                                       /\ evs[i].creator = c}
    IN  IF rs = {} THEN NoEvent ELSE Max(rs)

Parents(evs, i) == {evs[i].sp, evs[i].op} \ {NoEvent}

\* Mutant: the fork check is missing.
CheckSelfParentAny(evs, c, sp) == TRUE

\* checkSelfParent: the self-parent is the creator's last known event.
CheckSelfParent(evs, c, sp) == sp = LastEventFrom(evs, c)

-----------------------------------------------------------------------------
(***************************************************************************)
(* Frame assignment of InsertEvent.  MergeFlagTable (outside src/) is the *)
(* union of the two tables, as the spec says.  With the zero event as the *)
(* parent of a first event every table stays empty and no event would    *)
(* ever be a root; the spec's glossary makes a creator's first event its *)
(* root of frame 0, which SeedLeafRoots adds for a parentless event.      *)
(***************************************************************************)
\* Mutant: a new root keeps the merged flag table instead of a fresh one.
FrameAssignKeepFlags(evs, sp, op) ==
    LET p == Ev(evs, sp)
        o == Ev(evs, op)
        merged == p.ft \cup o.ft
    IN  IF sp = NoEvent /\ op = NoEvent /\ SeedLeafRoots
        THEN [root |-> TRUE, frame |-> 0, ft |-> {}, rt |-> {}]
        ELSE IF p.frame = o.frame
        THEN IF Cardinality(merged) >= SuperMajority
             THEN [root |-> TRUE, frame |-> p.frame + 1, ft |-> merged, rt |-> merged]
             ELSE [root |-> FALSE, frame |-> p.frame, ft |-> merged, rt |-> {}]
        ELSE IF p.frame > o.frame
        THEN [root |-> FALSE, frame |-> p.frame, ft |-> p.ft, rt |-> {}]
        ELSE [root |-> TRUE, frame |-> o.frame, ft |-> o.ft,
              rt |-> p.ft \cup Ev(evs, ClothoCreatorCheck(evs, o.frame, o.creator)).rt]

FrameAssign(evs, sp, op) ==
    LET p == Ev(evs, sp)
        o == Ev(evs, op)
        merged == p.ft \cup o.ft
    IN  IF sp = NoEvent /\ op = NoEvent /\ SeedLeafRoots
        THEN [root |-> TRUE, frame |-> 0, ft |-> {}, rt |-> {}]
        ELSE IF p.frame = o.frame
        THEN IF Cardinality(merged) >= SuperMajority
             THEN [root |-> TRUE, frame |-> p.frame + 1, ft |-> {}, rt |-> merged]
             ELSE [root |-> FALSE, frame |-> p.frame, ft |-> merged, rt |-> {}]
        ELSE IF p.frame > o.frame
        THEN [root |-> FALSE, frame |-> p.frame, ft |-> p.ft, rt |-> {}]
        ELSE [root |-> TRUE, frame |-> o.frame, ft |-> o.ft,
              rt |-> p.ft \cup Ev(evs, ClothoCreatorCheck(evs, o.frame, o.creator)).rt]

\* The frame-jump branch fails when the store has no root of the other
\* parent's creator at the other parent's frame.
FrameJumpKnown(evs, sp, op) ==
    Ev(evs, sp).frame < Ev(evs, op).frame =>
        ClothoCreatorCheck(evs, evs[op].frame, evs[op].creator) # NoEvent

\* Mutant: the root is flagged under its self-parent's hash.
NewEventFlagsSelfParent(evs, c, sp, op, id) ==
    LET fa == FrameAssign(evs, sp, op)
    IN  [creator |-> c, sp |-> sp, op |-> op,
         frame |-> fa.frame, root |-> fa.root,
         ft |-> IF fa.root THEN fa.ft \cup {sp} ELSE fa.ft,
         rt |-> fa.rt,
         lamport |-> Max({Ev(evs, sp).lamport, Ev(evs, op).lamport}) + 1]

\* The event InsertEvent stores under hash id.
NewEvent(evs, c, sp, op, id) ==
    LET fa == FrameAssign(evs, sp, op)
    IN  [creator |-> c, sp |-> sp, op |-> op,
         frame |-> fa.frame, root |-> fa.root,
         ft |-> IF fa.root THEN fa.ft \cup {id} ELSE fa.ft,
         rt |-> fa.rt,
         lamport |-> Max({Ev(evs, sp).lamport, Ev(evs, op).lamport}) + 1]

-----------------------------------------------------------------------------
(***************************************************************************)
(* ClothoChecking(e): for each root key of e's root table, count for     *)
(* every root rr two levels further down how many roots of key's root    *)
(* table have rr in their root table (incCcTemp); keep the maximum over  *)
(* the keys (updateCcList); every rr whose count reaches the             *)
(* supermajority becomes a clotho and e votes e's Lamport time for it.   *)
(***************************************************************************)
CcCount(evs, key, rr) == Cardinality({rk \in evs[key].rt : rr \in evs[rk].rt})

CcCandidates(evs, e) == UNION {UNION {evs[rk].rt : rk \in evs[key].rt} : key \in evs[e].rt}

NewClothos(evs, e) ==
    {rr \in CcCandidates(evs, e) :
        \E key \in evs[e].rt : CcCount(evs, key, rr) >= SuperMajority}

\* Store.AddTimeTable(hashTo, hashFrom, t[hashFrom]) for every hashFrom in
\* the domain of t.
AddTimeTables(tt, to, t) ==
    LET old == IF to \in DOMAIN tt THEN tt[to] ELSE [c \in {} |-> 0]
        new == [c \in DOMAIN t \cup DOMAIN old |-> IF c \in DOMAIN t THEN t[c] ELSE old[c]]
    IN  [h \in DOMAIN tt \cup {to} |-> IF h = to THEN new ELSE tt[h]]

ClothoChecking(s, e) ==
    LET cl == NewClothos(s.evs, e)
        evs1 == [i \in 1 .. Len(s.evs) |->
                    IF i \in cl THEN [s.evs[i] EXCEPT !.clotho = TRUE] ELSE s.evs[i]]
    IN  [s EXCEPT !.evs = evs1,
                  !.tt = IF cl = {} THEN s.tt
                         ELSE AddTimeTables(s.tt, e, [c \in cl |-> s.evs[e].lamport])]

-----------------------------------------------------------------------------
(***************************************************************************)
(* AssignAtroposTime2(c, f) walks c's past depth first, self-parent      *)
(* first.  A parent is "touched": its FrameReceived is set to f if it is *)
(* 0, and if its AtroposTimestamp is 0 the walk descends into it, then   *)
(* sets that timestamp (to the Lamport time of its other-parent, or its  *)
(* own for a leaf) and calls accountEvent on it.  Touched(evs, c) is the *)
(* set of events the walk reaches from c.                                *)
(***************************************************************************)
Touched(evs, c) ==
    LET zero == {i \in 1 .. Len(evs) : evs[i].at = 0}
        \* the events reached in at most n + 1 parent steps
        R[n \in Nat] == IF n = 0 THEN Parents(evs, c)
                        ELSE LET r == R[n - 1]
                             IN  r \cup UNION {Parents(evs, y) : y \in r \cap zero}
    IN  R[Len(evs)]

\* The value AssignAtroposTime2 returns for x.
AtroposTimeOf(evs, x) ==
    IF evs[x].op # NoEvent THEN evs[evs[x].op].lamport ELSE evs[x].lamport

\* The last event accountEvent is called on during the walk from c: the
\* walk accounts an event after returning from it, so the other-parent if
\* it was still unset when reached, else the self-parent if it was unset.
LastAccounted(evs, c) ==
    LET sp == evs[c].sp
        op == evs[c].op
        spAcc == sp # NoEvent /\ evs[sp].at = 0
        opAcc == op # NoEvent /\ evs[op].at = 0
                 /\ ~(spAcc /\ op \in Touched(evs, sp))
    IN  IF opAcc THEN op ELSE IF spAcc THEN sp ELSE NoEvent

\* The atropos branch of AtroposTimeSelection for clotho c decided with
\* the winning time t: accountEvent(c) if its timestamp is unset, the walk,
\* then SetEvent(c) with Atropos, FrameReceived = Frame and the walk's value.
DecideAtropos(s, c, t) ==
    LET evs == s.evs
        f == evs[c].frame
        tch == Touched(evs, c)
        acc == {y \in tch : evs[y].at = 0}
        last == LastAccounted(evs, c)
        evs1 == [i \in 1 .. Len(evs) |->
                   CASE i = c -> [evs[i] EXCEPT !.atropos = TRUE, !.fr = f,
                                                !.at = AtroposTimeOf(evs, c)]
                     [] i \in tch ->
                          [evs[i] EXCEPT !.fr = IF @ = 0 THEN f ELSE @,
                                         !.at = IF @ = 0 THEN AtroposTimeOf(evs, i) ELSE @]
                     [] OTHER -> evs[i]]
    IN  [s EXCEPT !.evs = evs1,
                  !.lcr = CASE last # NoEvent -> evs[last].frame
                            [] evs[c].at = 0 -> f
                            [] OTHER -> @,
                  !.cons = @ \cup acc \cup (IF evs[c].at = 0 THEN {c} ELSE {}),
                  !.vote = [x \in DOMAIN @ \cup {c} |-> IF x = c THEN t ELSE @[x]]]

(***************************************************************************)
(* AtroposTimeSelection(e): the votes of the roots in e's root table are *)
(* counted per clotho and time (countMap).  A clotho at a distance from  *)
(* e's frame that is a multiple of CoinInterval gets e's vote for the    *)
(* smallest time; otherwise the most frequent time (ties: the smaller)   *)
(* either decides it (count >= supermajority) or becomes e's vote.       *)
(***************************************************************************)
Voters(s, e, c) == {pk \in s.evs[e].rt : c \in DOMAIN s.tt[pk]}

VoteCount(s, e, c, t) == Cardinality({pk \in Voters(s, e, c) : s.tt[pk][c] = t})

VoteTimes(s, e, c) == {s.tt[pk][c] : pk \in Voters(s, e, c)}

TopCount(s, e, c) == Max({VoteCount(s, e, c, t) : t \in VoteTimes(s, e, c)})

TopTime(s, e, c) == Min({t \in VoteTimes(s, e, c) : VoteCount(s, e, c, t) = TopCount(s, e, c)})

SelectTime(s, e, c) ==
    CASE s.evs[c].atropos -> s
      [] (s.evs[e].frame - s.evs[c].frame) % CoinInterval = 0 ->
            [s EXCEPT !.tt = AddTimeTables(@, e, [x \in {c} |-> Min(VoteTimes(s, e, c))])]
      [] TopCount(s, e, c) >= SuperMajority -> DecideAtropos(s, c, TopTime(s, e, c))
      [] OTHER ->
            [s EXCEPT !.tt = AddTimeTables(@, e, [x \in {c} |-> TopTime(s, e, c)])]

\* GetTimeTable fails for a root that has never voted, and the loop over
\* e's root table returns that error before counting anything.
TimeTablesKnown(s, e) == s.evs[e].rt \subseteq DOMAIN s.tt

VotedClothos(s, e) == UNION {DOMAIN s.tt[pk] : pk \in s.evs[e].rt}

\* The clothos are visited in Go's map order: any order.
AtroposTimeSelection(s, e, order) ==
    LET F[k \in 0 .. Len(order)] == IF k = 0 THEN s ELSE SelectTime(F[k - 1], e, order[k])
    IN  F[Len(order)]

\* The k-th smallest element of a finite set of numbers.
KthSmallest(S, k) == CHOOSE x \in S : Cardinality({y \in S : y < x}) = k - 1

Orders(S) == {[k \in 1 .. Cardinality(S) |-> p[KthSmallest(S, k)]] : p \in Permutations(S)}

-----------------------------------------------------------------------------
Init ==
    /\ events = <<>>
    /\ marks = <<>>
    /\ timeTable = [h \in {} |-> [c \in {} |-> 0]]
    /\ lastConsensusRound = LastConsensusRoundNil
    /\ consensusEvents = {}
    /\ undetermined = {}
    /\ atroposVote = [h \in {} |-> 0]

\* A new event's marks: none set.
NoMarks == [clotho |-> FALSE, atropos |-> FALSE, fr |-> 0, at |-> 0]

\* The events as Store.GetEventBlock returns them: DAG part and marks.
View(dag, mk) == [i \in 1 .. Len(dag) |-> dag[i] @@ mk[i]]

MarksOf(evs) ==
    [i \in 1 .. Len(evs) |->
        [clotho |-> evs[i].clotho, atropos |-> evs[i].atropos,
         fr |-> evs[i].fr, at |-> evs[i].at]]

State == [evs |-> View(events, marks), tt |-> timeTable, lcr |-> lastConsensusRound,
          cons |-> consensusEvents, vote |-> atroposVote]

SetState(s) ==
    /\ marks' = MarksOf(s.evs)
    /\ timeTable' = s.tt
    /\ lastConsensusRound' = s.lcr
    /\ consensusEvents' = s.cons
    /\ atroposVote' = s.vote

\* The other-parents a sync hands over: the head of another participant.
OtherParents(c) == {NoEvent} \cup {LastEventFrom(events, d) : d \in Peers \ {c}}

(***************************************************************************)
(* InsertEvent(event) of an event by creator c with self-parent sp and    *)
(* other-parent op.  checkSelfParent rejects a self-parent that is not    *)
(* the creator's last event (a fork); the frame jump needs the other     *)
(* creator's root.  A non-root is stored and queued.  A root is stored,  *)
(* registered in the clotho-check index and checked; if                  *)
(* AtroposTimeSelection fails the error is returned with the event, the  *)
(* clothos and their votes already stored, and the event is not queued.  *)
(***************************************************************************)
InsertEvent(c) ==
    \E sp \in {NoEvent} \cup {i \in Ids : events[i].creator = c}, op \in OtherParents(c) :
        /\ Len(events) < MaxEvents
        /\ CheckSelfParent(events, c, sp)
        /\ FrameJumpKnown(events, sp, op)
        /\ LET id == Len(events) + 1
               e == NewEvent(events, c, sp, op, id)
               s0 == [State EXCEPT !.evs = Append(@, e @@ NoMarks)]
               s1 == ClothoChecking(s0, id)
           IN  /\ events' = Append(events, e)
               /\ \/ /\ ~e.root
                     /\ SetState(s0)
                     /\ undetermined' = undetermined \cup {id}
                  \/ /\ e.root
                     /\ ~TimeTablesKnown(s1, id)
                     /\ SetState(s1)
                     /\ UNCHANGED undetermined
                  \/ /\ e.root
                     /\ TimeTablesKnown(s1, id)
                     /\ \E order \in Orders(VotedClothos(s1, id)) :
                           SetState(AtroposTimeSelection(s1, id, order))
                     /\ undetermined' = undetermined \cup {id}

Next == \E c \in Peers : InsertEvent(c)

Spec == Init /\ [][Next]_vars

-----------------------------------------------------------------------------
EventRec == [creator : Peers, sp : Nat, op : Nat, frame : Nat, root : BOOLEAN,
             ft : SUBSET Nat, rt : SUBSET Nat, lamport : Nat]

MarkRec == [clotho : BOOLEAN, atropos : BOOLEAN, fr : Nat, at : Nat]

\* Type invariant.
TypeOK ==
    /\ events \in Seq(EventRec)
    /\ marks \in Seq(MarkRec) /\ Len(marks) = Len(events)
    /\ \A i \in Ids : Parents(events, i) \cup events[i].ft \cup events[i].rt \subseteq 1 .. i
    /\ DOMAIN timeTable \subseteq Ids
    /\ \A h \in DOMAIN timeTable : timeTable[h] \in [DOMAIN timeTable[h] -> Nat]
    /\ lastConsensusRound \in Nat \cup {LastConsensusRoundNil}
    /\ consensusEvents \subseteq Ids
    /\ undetermined \subseteq Ids
    /\ DOMAIN atroposVote \subseteq Ids

Roots == {i \in Ids : events[i].root}

\* The clotho-check index is keyed by (frame, creator ID) and the frame
\* jump of InsertEvent reads it: a creator has at most one root per frame,
\* whatever order events from different creators arrive in.
RootUnique ==
    \A i, j \in Roots :
        events[i].creator = events[j].creator /\ events[i].frame = events[j].frame => i = j

\* InsertEvent compares len(flagTable) with the supermajority; the spec
\* counts distinct participants.  The two agree because a flag table only
\* holds roots of the event's own frame, one per creator.
FlagTableDistinctCreators ==
    \A e \in Ids :
        /\ \A x \in events[e].ft : x \in Roots /\ events[x].frame = events[e].frame
        /\ \A x, y \in events[e].ft : events[x].creator = events[y].creator => x = y

\* Spec glossary: a creator's first event is its root.
FirstEventIsRoot ==
    \A i \in Ids : events[i].sp = NoEvent => events[i].root
=============================================================================
