--------------------------- MODULE ProgramsProofs ---------------------------
(***************************************************************************)
(* The two programs of main.py, whatever their units, files and commands:  *)
(* a unit that wait_all has returned from has recorded all its works, each *)
(* unit keeps to the contract of a Node, a program that is over leaves no  *)
(* thread behind, and a simulation of a sound file that nothing disturbs   *)
(* ends without an error.                                                  *)
(*                                                                         *)
(* IInv has a part about the units, which only the workers, put and the    *)
(* start of threads can disturb (UnitEffect), and a part about the main    *)
(* thread, which has no more than the places of the workers to fear.       *)
(* SoundRun follows the undisturbed simulation beside them.  Before that   *)
(* come the facts about NodeBuilder that the invariants of the draft need. *)
(***************************************************************************)
EXTENDS Programs, CollectionLemmas, SequenceTheorems

-----------------------------------------------------------------------------
(* What NodeBuilder accepts, for every kit and every catalog: a round of   *)
(* _validate_pcie that finds a slot for its card leaves what can be        *)
(* mounted if and only if it could be mounted before.  A mounting of the   *)
(* rest takes the slot that was found, and, when each slot suits whatever  *)
(* a lesser one does, the card that had this slot takes the one the new    *)
(* card had.                                                               *)

\* Slots and cards with natural numbers.
Sizes(entries, cards, D, P) ==
  /\ \A i \in D : cards[i].generation \in Nat /\ cards[i].lanes \in Nat
  /\ \A u \in P : entries[u[1]].generation \in Nat /\ entries[u[1]].lanes \in Nat

\* The cards W can have slots of their own among F.
CanMount(entries, cards, W, F) ==
  \E seat \in [W -> F] :
    /\ IsInjective(seat)
    /\ \A i \in W : Suits(entries[seat[i][1]], cards[i])

\* There is a next card.
LEMMA FirstCardIsThere ==
  ASSUME NEW cards, NEW W, W \subseteq Nat, W # {}, \A i \in W : cards[i].lanes \in Nat
  PROVE  FirstCard(cards, W) \in W
<1> DEFINE L == {cards[i].lanes : i \in W}
<1>1. PICK m \in L : \A y \in L : m <= y
  <2>1. L \subseteq Nat /\ L # {}
    OBVIOUS
  <2> HIDE DEF L
  <2> QED
    BY <2>1, HasLeast
<1> DEFINE I == {i \in W : cards[i].lanes = m}
<1>2. PICK i \in I : \A j \in I : i <= j
  <2>1. I \subseteq Nat /\ I # {}
    OBVIOUS
  <2> HIDE DEF I
  <2> QED
    BY <2>1, HasLeast
<1>3. ASSUME NEW j \in W
      PROVE  cards[i].lanes < cards[j].lanes \/ (cards[i].lanes = cards[j].lanes /\ i <= j)
  <2>1. m \in Nat /\ cards[j].lanes \in Nat /\ m <= cards[j].lanes /\ cards[i].lanes = m
    BY <1>1, <1>2
  <2>2. CASE m < cards[j].lanes
    BY <2>1, <2>2
  <2>3. CASE m = cards[j].lanes
    BY <1>2, <2>1, <2>3
  <2> QED
    BY <2>1, <2>2, <2>3
<1>4. i \in W
  BY <1>2
<1> QED
  BY <1>3, <1>4 DEF FirstCard

\* Among free slots there is a first, which none of them comes before.
LEMMA FirstSlotIsFirst ==
  ASSUME NEW entries, NEW F, F # {},
         \A u \in F : entries[u[1]].generation \in Nat /\ entries[u[1]].lanes \in Nat
  PROVE  /\ FirstSlot(entries, F) \in F
         /\ \A v \in F : ~Less(entries[v[1]], entries[FirstSlot(entries, F)[1]])
<1> DEFINE G == {entries[u[1]].generation : u \in F}
<1>1. PICK g \in G : \A y \in G : g <= y
  <2>1. G \subseteq Nat /\ G # {}
    OBVIOUS
  <2> HIDE DEF G
  <2> QED
    BY <2>1, HasLeast
<1> DEFINE L == {entries[u[1]].lanes : u \in {v \in F : entries[v[1]].generation = g}}
<1>2. PICK l \in L : \A y \in L : l <= y
  <2>1. L \subseteq Nat /\ L # {}
    OBVIOUS
  <2> HIDE DEF L
  <2> QED
    BY <2>1, HasLeast
<1>3. PICK u \in F : entries[u[1]].generation = g /\ entries[u[1]].lanes = l
  BY <1>2
<1>4. ASSUME NEW v \in F PROVE ~Less(entries[v[1]], entries[u[1]])
  <2> DEFINE vg == entries[v[1]].generation
             vl == entries[v[1]].lanes
  <2>1. vg \in Nat /\ g \in Nat /\ vl \in Nat /\ l \in Nat /\ g <= vg
    BY <1>1, <1>3
  <2>2. vg = g => l <= vl
    BY <1>2
  <2> HIDE DEF vg, vl
  <2>3. ~(vg < g) /\ ~(vg = g /\ vl < l)
    BY <2>1, <2>2
  <2> QED
    BY <2>3, <1>3 DEF Less, vg, vl
<1> QED
  BY <1>3, <1>4 DEF FirstSlot

\* A round that looks for a slot for c.
LooksFor(c, entries, cards, W, F, ok, after) ==
  /\ after.waiting = W \ {c}
  /\ after.free \subseteq F
  /\ after.ok <=> ok /\ \E u \in F : Suits(entries[u[1]], cards[c])
  /\ \A v \in F : Suits(entries[v[1]], cards[c]) =>
       \E u \in F :
         /\ after.free = F \ {u} /\ Suits(entries[u[1]], cards[c])
         /\ ~Less(entries[v[1]], entries[u[1]])

\* What a round does to the cards and slots when there is a card left.
LEMMA Round ==
  ASSUME NEW entries, NEW cards, NEW W, W \subseteq Nat, W # {}, NEW F, NEW ok \in BOOLEAN,
         Sizes(entries, cards, W, F), NEW after,
         after = Insert(entries, cards, [waiting |-> W, free |-> F, ok |-> ok])
  PROVE  \E c \in W : LooksFor(c, entries, cards, W, F, ok, after)
<1> DEFINE c == FirstCard(cards, W)
           S == {u \in F : Suits(entries[u[1]], cards[c])}
<1>1. c \in W
  BY FirstCardIsThere DEF Sizes
<1>2. /\ after.waiting = W \ {c}
      /\ after.free = F \ {u \in S : u = FirstSlot(entries, S)}
      /\ after.ok = (ok /\ S # {})
  BY DEF Insert
<1>3. ASSUME NEW v \in F, Suits(entries[v[1]], cards[c])
      PROVE  \E u \in F :
               /\ after.free = F \ {u} /\ Suits(entries[u[1]], cards[c])
               /\ ~Less(entries[v[1]], entries[u[1]])
  <2>1. S # {} /\ v \in S
    BY <1>3
  <2>2. \A u \in S : entries[u[1]].generation \in Nat /\ entries[u[1]].lanes \in Nat
    BY DEF Sizes
  <2>3. FirstSlot(entries, S) \in S /\ ~Less(entries[v[1]], entries[FirstSlot(entries, S)[1]])
    <3> HIDE DEF S
    <3> QED
      BY <2>1, <2>2, FirstSlotIsFirst
  <2>4. after.free = F \ {FirstSlot(entries, S)}
    BY <1>2, <2>3
  <2> QED
    BY <2>3, <2>4
<1>4. after.ok <=> ok /\ \E u \in F : Suits(entries[u[1]], cards[c])
  BY <1>2
<1>5. after.free \subseteq F
  BY <1>2
<1> HIDE DEF c
<1> QED
  BY <1>1, <1>2, <1>3, <1>4, <1>5 DEF LooksFor

\* A card more and its slot.
LEMMA MountOneMore ==
  ASSUME NEW entries, NEW cards, NEW W, NEW F, NEW c \in W, NEW u \in F,
         Suits(entries[u[1]], cards[c]), CanMount(entries, cards, W \ {c}, F \ {u})
  PROVE  CanMount(entries, cards, W, F)
<1>1. PICK seat \in [W \ {c} -> F \ {u}] :
        /\ IsInjective(seat)
        /\ \A i \in W \ {c} : Suits(entries[seat[i][1]], cards[i])
  BY DEF CanMount
<1> DEFINE q == [i \in W |-> IF i = c THEN u ELSE seat[i]]
<1>2. q \in [W -> F]
  BY <1>1
<1>3. IsInjective(q)
  BY <1>1 DEF IsInjective
<1>4. \A i \in W : Suits(entries[q[i][1]], cards[i])
  BY <1>1
<1> QED
  BY <1>2, <1>3, <1>4 DEF CanMount

\* Of two slots one suits whatever the other does.
Chain(entries, F) ==
  \A u, v \in F : \/ Suits(entries[u[1]], entries[v[1]])
                 \/ Suits(entries[v[1]], entries[u[1]])

\* In a chain the first slot that suits c can be given to c.
LEMMA MountOneLess ==
  ASSUME NEW entries, NEW cards, NEW W, NEW F, NEW c \in W, NEW u \in F,
         Sizes(entries, cards, W, F), Chain(entries, F),
         CanMount(entries, cards, W, F),
         \A v \in F : Suits(entries[v[1]], cards[c]) => ~Less(entries[v[1]], entries[u[1]])
  PROVE  CanMount(entries, cards, W \ {c}, F \ {u})
<1>1. PICK seat \in [W -> F] :
        /\ IsInjective(seat)
        /\ \A i \in W : Suits(entries[seat[i][1]], cards[i])
  BY DEF CanMount
<1> DEFINE p == seat[c]
           q == [i \in W \ {c} |-> IF seat[i] = u THEN p ELSE seat[i]]
<1>2. p \in F /\ ~Less(entries[p[1]], entries[u[1]])
  BY <1>1
<1>3. \A i \in W : Suits(entries[u[1]], cards[i]) => Suits(entries[p[1]], cards[i])
  <2> DEFINE pg == entries[p[1]].generation
             pl == entries[p[1]].lanes
             ug == entries[u[1]].generation
             ul == entries[u[1]].lanes
  <2>1. pg \in Nat /\ pl \in Nat /\ ug \in Nat /\ ul \in Nat
    BY <1>2 DEF Sizes
  <2>2. ~(pg < ug) /\ ~(pg = ug /\ pl < ul)
    BY <1>2 DEF Less
  <2>3. (pg >= ug /\ pl >= ul) \/ (ug >= pg /\ ul >= pl)
    BY <1>2 DEF Chain, Suits
  <2>4. pg >= ug /\ pl >= ul
    <3> HIDE DEF pg, pl, ug, ul
    <3> QED
      BY <2>1, <2>2, <2>3
  <2> TAKE i \in W
  <2>5. cards[i].generation \in Nat /\ cards[i].lanes \in Nat
    BY DEF Sizes
  <2> HAVE Suits(entries[u[1]], cards[i])
  <2>6. ug >= cards[i].generation /\ ul >= cards[i].lanes
    BY DEF Suits
  <2>7. pg >= cards[i].generation /\ pl >= cards[i].lanes
    <3> HIDE DEF pg, pl, ug, ul
    <3> QED
      BY <2>1, <2>4, <2>5, <2>6
  <2> QED
    BY <2>7 DEF Suits
<1>4. \A i \in W \ {c} : seat[i] \in F /\ seat[i] # p
  BY <1>1 DEF IsInjective
<1>5. \A i \in W \ {c} : q[i] \in F \ {u}
  <2> TAKE i \in W \ {c}
  <2>1. CASE seat[i] = u
    BY <2>1, <1>2, <1>4
  <2>2. CASE seat[i] # u
    BY <2>2, <1>4
  <2> QED
    BY <2>1, <2>2
<1>6. IsInjective(q)
  <2> SUFFICES ASSUME NEW i \in W \ {c}, NEW j \in W \ {c}, q[i] = q[j] PROVE i = j
    BY DEF IsInjective
  <2>1. seat[i] = seat[j]
    BY <1>4
  <2> QED
    BY <2>1, <1>1 DEF IsInjective
<1>7. \A i \in W \ {c} : Suits(entries[q[i][1]], cards[i])
  <2> TAKE i \in W \ {c}
  <2>1. CASE seat[i] = u
    BY <2>1, <1>1, <1>3
  <2>2. CASE seat[i] # u
    BY <2>2, <1>1
  <2> QED
    BY <2>1, <2>2
<1>8. q \in [W \ {c} -> F \ {u}]
  BY <1>5
<1> QED
  <2> HIDE DEF q
  <2> QED
    BY <1>6, <1>7, <1>8 DEF CanMount

\* After a round that finds a slot, the cards could be mounted before if they
\* can be mounted now; in a chain, and only then, a round finds one.
LEMMA RoundMounts ==
  ASSUME NEW entries, NEW cards, NEW W, W \subseteq Nat, W # {}, NEW F, NEW ok \in BOOLEAN,
         Sizes(entries, cards, W, F), NEW after,
         after = Insert(entries, cards, [waiting |-> W, free |-> F, ok |-> ok])
  PROVE  /\ after.ok /\ CanMount(entries, cards, after.waiting, after.free)
              => ok /\ CanMount(entries, cards, W, F)
         /\ Chain(entries, F) /\ ok /\ CanMount(entries, cards, W, F)
              => after.ok /\ CanMount(entries, cards, after.waiting, after.free)
<1>0. PICK c \in W : LooksFor(c, entries, cards, W, F, ok, after)
  BY Round
<1>1. /\ after.waiting = W \ {c}
      /\ after.free \subseteq F
      /\ after.ok <=> ok /\ \E u \in F : Suits(entries[u[1]], cards[c])
      /\ \A v \in F : Suits(entries[v[1]], cards[c]) =>
           \E u \in F :
             /\ after.free = F \ {u} /\ Suits(entries[u[1]], cards[c])
             /\ ~Less(entries[v[1]], entries[u[1]])
  BY <1>0 DEF LooksFor
<1>2. ASSUME after.ok, CanMount(entries, cards, after.waiting, after.free)
      PROVE  ok /\ CanMount(entries, cards, W, F)
  <2>1. PICK v \in F : Suits(entries[v[1]], cards[c])
    BY <1>1, <1>2
  <2>2. PICK u \in F : after.free = F \ {u} /\ Suits(entries[u[1]], cards[c])
    BY <1>1, <2>1
  <2>3. CanMount(entries, cards, W, F)
    BY <1>1, <1>2, <2>2, MountOneMore
  <2> QED
    BY <1>1, <1>2, <2>3
<1>3. ASSUME Chain(entries, F), ok, CanMount(entries, cards, W, F)
      PROVE  after.ok /\ CanMount(entries, cards, after.waiting, after.free)
  <2>1. PICK v \in F : Suits(entries[v[1]], cards[c])
    BY <1>3 DEF CanMount
  <2>2. PICK u \in F : after.free = F \ {u} /\ Suits(entries[u[1]], cards[c])
    BY <1>1, <2>1
  <2>3. ASSUME NEW w \in F, Suits(entries[w[1]], cards[c])
        PROVE  ~Less(entries[w[1]], entries[u[1]])
    BY <1>1, <2>2, <2>3
  <2>4. CanMount(entries, cards, W \ {c}, F \ {u})
    BY <1>3, <2>3, MountOneLess
  <2> QED
    BY <1>1, <1>3, <2>1, <2>2, <2>4
<1> QED
  BY <1>2, <1>3

\* f counts the rounds of _validate_pcie.
IsAssignment(f, entries, cards) ==
  /\ f[0] = [waiting |-> DOMAIN cards, free |-> Places(entries), ok |-> TRUE]
  /\ \A n \in Nat : /\ f[n + 1] = Insert(entries, cards, f[n])
                   /\ f[n] = [waiting |-> f[n].waiting, free |-> f[n].free, ok |-> f[n].ok]
                   /\ f[n].ok \in BOOLEAN
  /\ Assigned(entries, cards) = f[Cardinality(DOMAIN cards)]

\* The rounds of _validate_pcie exist.
LEMMA AssignmentExists ==
  ASSUME NEW entries, NEW cards
  PROVE  \E f : IsAssignment(f, entries, cards)
<1> DEFINE X == [waiting : SUBSET DOMAIN cards, free : SUBSET Places(entries), ok : BOOLEAN]
           start == [waiting |-> DOMAIN cards, free |-> Places(entries), ok |-> TRUE]
           step == [n \in Nat |-> [x \in X |-> Insert(entries, cards, x)]]
           Loop(g) == g = [turn \in Nat |-> IF turn = 0 THEN start ELSE Insert(entries, cards, g[turn - 1])]
           left == CHOOSE g : Loop(g)
<1>1. step \in [Nat -> [X -> X]]
  <2>1. ASSUME NEW x \in X PROVE Insert(entries, cards, x) \in X
    <3> DEFINE c == FirstCard(cards, x.waiting)
               S == {u \in x.free : Suits(entries[u[1]], cards[c])}
    <3>1. Insert(entries, cards, x) =
            [waiting |-> x.waiting \ {c}, free |-> x.free \ {u \in S : u = FirstSlot(entries, S)},
             ok |-> x.ok /\ S # {}]
      BY DEF Insert
    <3>2. /\ x.waiting \ {c} \in SUBSET DOMAIN cards
          /\ x.free \ {u \in S : u = FirstSlot(entries, S)} \in SUBSET Places(entries)
          /\ (x.ok /\ S # {}) \in BOOLEAN
      OBVIOUS
    <3> HIDE DEF c, S
    <3> QED
      BY <3>1, <3>2
  <2> HIDE DEF X
  <2> QED
    BY <2>1
<1>2. start \in X
  OBVIOUS
<1>3. PICK f \in [Nat -> X] : IsLoop(f, start, step)
  <2> HIDE DEF X, start, step
  <2> QED
    BY <1>1, <1>2, LoopComputes
<1>4. f[0] = start /\ \A n \in Nat : f[n] \in X /\ f[n + 1] = Insert(entries, cards, f[n])
  <2> HIDE DEF X, start
  <2> QED
    BY <1>3 DEF IsLoop
<1>5. Loop(f)
  <2> HIDE DEF X, start
  <2>1. ASSUME NEW turn \in Nat
        PROVE  f[turn] = IF turn = 0 THEN start ELSE Insert(entries, cards, f[turn - 1])
    <3>1. CASE turn = 0
      BY <1>4, <3>1
    <3>2. CASE turn # 0
      <4>1. turn - 1 \in Nat /\ (turn - 1) + 1 = turn
        BY <3>2
      <4> QED
        BY <1>4, <3>2, <4>1
    <3> QED
      BY <3>1, <3>2
  <2>2. f = [turn \in Nat |-> f[turn]]
    BY <1>3
  <2> QED
    BY <2>1, <2>2
<1>6. Loop(left)
  <2> HIDE DEF Loop
  <2> QED
    BY <1>5
<1>7. left[0] = start /\ \A n \in Nat : left[n + 1] = Insert(entries, cards, left[n])
  <2> HIDE DEF left, start
  <2>1. left[0] = start
    BY <1>6
  <2>2. ASSUME NEW n \in Nat PROVE left[n + 1] = Insert(entries, cards, left[n])
    <3>1. n + 1 \in Nat /\ n + 1 # 0 /\ (n + 1) - 1 = n
      OBVIOUS
    <3> QED
      BY <1>6, <3>1
  <2> QED
    BY <2>1, <2>2
<1> DEFINE Q == {n \in Nat : left[n] \in X}
<1>8. \A n \in Nat : n \in Q
  <2>1. 0 \in Q
    BY <1>2, <1>7
  <2>2. \A n \in Nat : n \in Q => n + 1 \in Q
    <3>1. \A x \in X : Insert(entries, cards, x) \in X
      <4> HIDE DEF X
      <4> QED
        BY <1>1
    <3> HIDE DEF X, left
    <3> QED
      BY <1>7, <3>1
  <2> HIDE DEF Q
  <2> QED
    BY <2>1, <2>2, SetInduction
<1>9. \A n \in Nat : left[n] \in X
  BY <1>8
<1>10. \A n \in Nat :
         /\ left[n] = [waiting |-> left[n].waiting, free |-> left[n].free, ok |-> left[n].ok]
         /\ left[n].ok \in BOOLEAN
  <2> HIDE DEF left
  <2> QED
    BY <1>9
<1>11. Assigned(entries, cards) = left[Cardinality(DOMAIN cards)]
  BY DEF Assigned
<1> HIDE DEF left
<1> QED
  BY <1>7, <1>10, <1>11 DEF IsAssignment

\* The assignment finds a slot for every card only if each can have its own,
\* and, when the slots are a chain, whenever each can.
LEMMA AssignmentIsExact ==
  ASSUME NEW entries, NEW cards, DOMAIN cards \subseteq Nat, IsFiniteSet(DOMAIN cards),
         Sizes(entries, cards, DOMAIN cards, Places(entries))
  PROVE  /\ Assigned(entries, cards).ok
              => CanMount(entries, cards, DOMAIN cards, Places(entries))
         /\ Chain(entries, Places(entries))
              /\ CanMount(entries, cards, DOMAIN cards, Places(entries))
              => Assigned(entries, cards).ok
<1> DEFINE D == DOMAIN cards
           A == Places(entries)
           N == Cardinality(D)
           all == CanMount(entries, cards, D, A)
           Mounts(l) == CanMount(entries, cards, l.waiting, l.free)
<1>1. PICK f : IsAssignment(f, entries, cards)
  BY AssignmentExists
<1> DEFINE Good(n) ==
             /\ f[n].waiting \subseteq D /\ f[n].free \subseteq A
             /\ Cardinality(f[n].waiting) = N - n
             /\ f[n].ok /\ Mounts(f[n]) => all
             /\ Chain(entries, A) /\ all => f[n].ok /\ Mounts(f[n])
           Q == {n \in Nat : n <= N => Good(n)}
<1>2. N \in Nat
  BY FS_CardinalityType
<1>3. Good(0)
  BY <1>1, <1>2 DEF IsAssignment
<1>4. ASSUME NEW n \in Nat, n + 1 <= N, Good(n) PROVE Good(n + 1)
  <2> DEFINE W == f[n].waiting
             F == f[n].free
             ok == f[n].ok
             after == f[n + 1]
  <2>1. /\ after = Insert(entries, cards, f[n]) /\ ok \in BOOLEAN
        /\ f[n] = [waiting |-> W, free |-> F, ok |-> ok]
    BY <1>1 DEF IsAssignment
  <2>2. W \subseteq D /\ F \subseteq A /\ Cardinality(W) = N - n
    BY <1>4
  <2>3. IsFiniteSet(W) /\ W # {}
    <3>1. IsFiniteSet(W)
      BY <2>2, FS_Subset
    <3>2. Cardinality(W) # 0
      BY <2>2, <1>2, <1>4
    <3> QED
      BY <3>1, <3>2, FS_EmptySet
  <2>4. Sizes(entries, cards, W, F)
    BY <2>2 DEF Sizes
  <2>5. Chain(entries, A) => Chain(entries, F)
    BY <2>2 DEF Chain
  <2>6. after = Insert(entries, cards, [waiting |-> W, free |-> F, ok |-> ok])
    BY <2>1
  <2>7. W \subseteq Nat
    BY <2>2
  <2> HIDE DEF W, F, ok, after
  <2>8. PICK c \in W : LooksFor(c, entries, cards, W, F, ok, after)
    BY <2>1, <2>3, <2>4, <2>6, <2>7, Round
  <2>9. after.waiting = W \ {c} /\ after.free \subseteq F
    BY <2>8 DEF LooksFor
  <2>10. Cardinality(after.waiting) = N - (n + 1)
    <3>1. Cardinality(W \ {c}) = Cardinality(W) - 1
      BY <2>3, FS_RemoveElement
    <3> QED
      BY <3>1, <2>2, <2>9, <1>2
  <2>11. /\ after.ok /\ CanMount(entries, cards, after.waiting, after.free)
              => ok /\ CanMount(entries, cards, W, F)
         /\ Chain(entries, F) /\ ok /\ CanMount(entries, cards, W, F)
              => after.ok /\ CanMount(entries, cards, after.waiting, after.free)
    BY <2>1, <2>3, <2>4, <2>6, <2>7, RoundMounts
  <2>12. /\ ok /\ CanMount(entries, cards, W, F) => all
         /\ Chain(entries, A) /\ all => ok /\ CanMount(entries, cards, W, F)
    BY <1>4 DEF W, F, ok
  <2>13. /\ after.ok /\ Mounts(after) => all
         /\ Chain(entries, A) /\ all => after.ok /\ Mounts(after)
    BY <2>5, <2>11, <2>12
  <2>14. after.waiting \subseteq D /\ after.free \subseteq A
    BY <2>2, <2>9
  <2> HIDE DEF D, A, N, all, Mounts
  <2> QED
    BY <2>10, <2>13, <2>14 DEF after
<1>5. \A n \in Nat : n \in Q
  <2>1. 0 \in Q
    BY <1>3
  <2>2. \A n \in Nat : n \in Q => n + 1 \in Q
    <3> HIDE DEF Good, N
    <3> QED
      BY <1>2, <1>4
  <2> HIDE DEF Q
  <2> QED
    BY <2>1, <2>2, SetInduction
<1>6. Good(N)
  <2> HIDE DEF Good
  <2> QED
    BY <1>2, <1>5
<1>7. Mounts(f[N])
  <2>1. f[N].waiting = {}
    <3>1. IsFiniteSet(f[N].waiting) /\ Cardinality(f[N].waiting) = 0
      <4>1. f[N].waiting \subseteq D /\ Cardinality(f[N].waiting) = N - N
        BY <1>6
      <4> QED
        BY <4>1, <1>2, FS_Subset
    <3> QED
      BY <3>1, FS_EmptySet
  <2> DEFINE none == [i \in {} |-> i]
  <2>2. none \in [{} -> f[N].free] /\ IsInjective(none)
    BY DEF IsInjective
  <2> QED
    BY <2>1, <2>2 DEF CanMount
<1>8. Assigned(entries, cards) = f[N]
  BY <1>1 DEF IsAssignment
<1> HIDE DEF Mounts
<1> QED
  BY <1>6, <1>7, <1>8

-----------------------------------------------------------------------------
(* Counts and places                                                       *)

\* f goes from D into P and keeps the kind.
IsMatching(f, D, P, asked, sort) ==
  f \in [D -> P] /\ IsInjective(f) /\ \A i \in D : sort[f[i]] = asked[i]

\* Each of D finds one of its kind in P for itself exactly when there is no
\* kind that has more in D than in P.
LEMMA MatchingByCounts ==
  ASSUME NEW D, IsFiniteSet(D), NEW P, IsFiniteSet(P), NEW asked, NEW sort
  PROVE  (\A i \in D : Cardinality({j \in D : asked[j] = asked[i]})
                         <= Cardinality({u \in P : sort[u] = asked[i]}))
         <=> \E f : IsMatching(f, D, P, asked, sort)
<1> DEFINE S(t) == {j \in D : asked[j] = t}
           T(t) == {u \in P : sort[u] = t}
<1>1. \A t : IsFiniteSet(S(t)) /\ IsFiniteSet(T(t))
  <2> TAKE t
  <2>1. S(t) \in SUBSET D /\ T(t) \in SUBSET P
    OBVIOUS
  <2> HIDE DEF S, T
  <2> QED
    BY <2>1, FS_Subset
<1>2. ASSUME \A i \in D : Cardinality(S(asked[i])) <= Cardinality(T(asked[i]))
      PROVE  \E f : IsMatching(f, D, P, asked, sort)
  <2> DEFINE into == [t \in {asked[i] : i \in D} |-> CHOOSE f \in [S(t) -> T(t)] : IsInjective(f)]
             f == [i \in D |-> into[asked[i]][i]]
  <2>1. ASSUME NEW i \in D
        PROVE  into[asked[i]] \in [S(asked[i]) -> T(asked[i])] /\ IsInjective(into[asked[i]])
    <3> DEFINE t == asked[i]
    <3>1. \E g \in [S(t) -> T(t)] : IsInjective(g)
      <4>1. Cardinality(S(t)) <= Cardinality(T(t)) /\ IsFiniteSet(S(t)) /\ IsFiniteSet(T(t))
        BY <1>1, <1>2
      <4> HIDE DEF S, T, t
      <4> QED
        BY <4>1, InjectionExists
    <3>2. into[t] = CHOOSE g \in [S(t) -> T(t)] : IsInjective(g)
      OBVIOUS
    <3> HIDE DEF S, T, t, into
    <3>3. into[t] \in [S(t) -> T(t)] /\ IsInjective(into[t])
      BY <3>1, <3>2
    <3> QED
      BY <3>3 DEF t
  <2> HIDE DEF into
  <2>2. ASSUME NEW i \in D PROVE f[i] \in P /\ sort[f[i]] = asked[i]
    <3>1. i \in S(asked[i])
      OBVIOUS
    <3>2. f[i] \in T(asked[i])
      <4> HIDE DEF S, T
      <4> QED
        BY <2>1, <3>1
    <3> QED
      BY <3>2
  <2>3. IsInjective(f)
    <3> SUFFICES ASSUME NEW i \in D, NEW j \in D, f[i] = f[j] PROVE i = j
      BY DEF IsInjective
    <3>1. asked[i] = asked[j]
      BY <2>2
    <3>2. i \in S(asked[i]) /\ j \in S(asked[i]) /\ into[asked[i]][i] = into[asked[i]][j]
      BY <3>1
    <3> HIDE DEF S, T
    <3> QED
      BY <2>1, <3>2 DEF IsInjective
  <2>4. f \in [D -> P]
    BY <2>2
  <2> QED
    BY <2>2, <2>3, <2>4 DEF IsMatching
<1>3. ASSUME NEW f, IsMatching(f, D, P, asked, sort), NEW i \in D
      PROVE  Cardinality(S(asked[i])) <= Cardinality(T(asked[i]))
  <2> DEFINE t == asked[i]
             g == [j \in S(t) |-> f[j]]
  <2>1. \A j \in S(t) : f[j] \in T(t)
    BY <1>3 DEF IsMatching
  <2>2. g \in [S(t) -> T(t)]
    <3> HIDE DEF S, T
    <3> QED
      BY <2>1
  <2>3. IsInjective(g)
    BY <1>3 DEF IsMatching, IsInjective
  <2>4. g \in Injection(S(t), T(t))
    <3> HIDE DEF g, S, T
    <3> QED
      BY <2>2, <2>3 DEF Injection, IsInjective
  <2>5. IsFiniteSet(T(t))
    BY <1>1
  <2>6. Cardinality(S(t)) <= Cardinality(T(t))
    <3> HIDE DEF g, S, T, t
    <3> QED
      BY <2>4, <2>5, FS_Injection
  <2> QED
    BY <2>6
<1> QED
  BY <1>2, <1>3

\* Entries with a natural number of places each.
Stock(entries) ==
  IsFiniteSet(DOMAIN entries) /\ \A i \in DOMAIN entries : entries[i].count \in Nat

\* The places of a board are finitely many, and what is available of a type is
\* the number of its places.
LEMMA PlacesOfType ==
  ASSUME NEW entries, Stock(entries)
  PROVE  /\ IsFiniteSet(Places(entries))
         /\ \A u \in Places(entries) : u[1] \in DOMAIN entries
         /\ \A t : Available(entries, t)
                    = Cardinality({u \in Places(entries) : entries[u[1]].type = t})
<1> DEFINE f == [i \in DOMAIN entries |-> entries[i].count]
<1>1. IsFiniteSet(Places(entries))
  <2>1. f \in [DOMAIN entries -> Nat] /\ IsFiniteSet(DOMAIN entries)
    BY DEF Stock
  <2>2. IsFiniteSet(UnitsOf(f))
    <3> HIDE DEF f
    <3> QED
      BY <2>1, SumType
  <2> QED
    BY <2>2 DEF Places
<1>2. Places(entries) = UNION {{i} \X (1 .. entries[i].count) : i \in DOMAIN entries}
  BY DEF Places, UnitsOf
<1>3. ASSUME NEW t
      PROVE  Available(entries, t) = Cardinality({u \in Places(entries) : entries[u[1]].type = t})
  <2> DEFINE g == [i \in DOMAIN entries |-> IF entries[i].type = t THEN entries[i].count ELSE 0]
  <2>1. UnitsOf(g) = UNION {{i} \X (1 .. g[i]) : i \in DOMAIN entries}
    BY DEF UnitsOf
  <2>2. ASSUME NEW u
        PROVE  u \in UnitsOf(g) <=> u \in Places(entries) /\ entries[u[1]].type = t
    <3>1. u \in UnitsOf(g) <=> \E i \in DOMAIN entries : u \in {i} \X (1 .. g[i])
      BY <2>1
    <3>2. u \in Places(entries) <=> \E i \in DOMAIN entries : u \in {i} \X (1 .. entries[i].count)
      BY <1>2
    <3>3. ASSUME NEW i \in DOMAIN entries
          PROVE  u \in {i} \X (1 .. g[i])
                   <=> u \in {i} \X (1 .. entries[i].count) /\ entries[u[1]].type = t
      <4>1. CASE entries[i].type = t
        <5>1. g[i] = entries[i].count
          BY <4>1
        <5> HIDE DEF g
        <5> QED
          BY <4>1, <5>1
      <4>2. CASE entries[i].type # t
        <5>1. g[i] = 0
          BY <4>2
        <5>2. 1 .. g[i] = {}
          BY <5>1
        <5> HIDE DEF g
        <5> QED
          BY <4>2, <5>2
      <4> QED
        BY <4>1, <4>2
    <3> HIDE DEF g
    <3> QED
      BY <3>1, <3>2, <3>3
  <2>3. UnitsOf(g) = {u \in Places(entries) : entries[u[1]].type = t}
    <3> HIDE DEF g
    <3> QED
      BY <2>2
  <2> QED
    BY <2>3 DEF Available, SumOf
<1>4. \A u \in Places(entries) : u[1] \in DOMAIN entries
  BY <1>2
<1> QED
  BY <1>1, <1>3, <1>4

\* Counts fit exactly when each part can have a place of its type for itself.
LEMMA CountsAreExact ==
  ASSUME NEW parts, IsFiniteSet(DOMAIN parts), NEW entries, Stock(entries)
  PROVE  CountsFit(parts, entries) <=> Mountable(parts, entries, OfType)
<1> DEFINE D == DOMAIN parts
           P == Places(entries)
           asked == [i \in D |-> parts[i].type]
           sort == [u \in P |-> entries[u[1]].type]
<1>1. \A i \in D : /\ Requested(parts, parts[i].type) = Cardinality({j \in D : asked[j] = asked[i]})
                  /\ Available(entries, parts[i].type) = Cardinality({u \in P : sort[u] = asked[i]})
  <2> TAKE i \in D
  <2>1. {j \in D : parts[j].type = parts[i].type} = {j \in D : asked[j] = asked[i]}
    OBVIOUS
  <2>2. {u \in P : entries[u[1]].type = parts[i].type} = {u \in P : sort[u] = asked[i]}
    OBVIOUS
  <2>3. Available(entries, parts[i].type)
          = Cardinality({u \in P : entries[u[1]].type = parts[i].type})
    BY PlacesOfType
  <2> HIDE DEF asked, sort, P
  <2> QED
    BY <2>1, <2>2, <2>3 DEF Requested
<1>2. CountsFit(parts, entries)
        <=> \A i \in D : Cardinality({j \in D : asked[j] = asked[i]})
                           <= Cardinality({u \in P : sort[u] = asked[i]})
  <2> HIDE DEF asked, sort, P
  <2> QED
    BY <1>1 DEF CountsFit
<1>3. CountsFit(parts, entries) <=> \E f : IsMatching(f, D, P, asked, sort)
  <2>1. IsFiniteSet(D) /\ IsFiniteSet(P)
    BY PlacesOfType
  <2> HIDE DEF asked, sort, D, P
  <2>2. (\A i \in D : Cardinality({j \in D : asked[j] = asked[i]})
                       <= Cardinality({u \in P : sort[u] = asked[i]}))
          <=> \E f : IsMatching(f, D, P, asked, sort)
    BY <2>1, MatchingByCounts
  <2> QED
    BY <1>2, <2>2
<1>4. \A f : IsMatching(f, D, P, asked, sort)
        <=> /\ f \in [D -> P] /\ IsInjective(f)
            /\ \A i \in D : OfType(entries[f[i][1]], parts[i])
  BY DEF IsMatching, OfType
<1> HIDE DEF asked, sort
<1> QED
  BY <1>3, <1>4 DEF Mountable

\* Where the places of a type have one limit, the largest is the limit of the
\* place a module gets.
LEMMA MemoryIsExact ==
  ASSUME NEW modules, IsFiniteSet(DOMAIN modules), NEW entries, Stock(entries),
         \A i \in DOMAIN entries : entries[i].limit \in Nat,
         \A i, j \in DOMAIN entries :
           entries[i].type = entries[j].type => entries[i].limit = entries[j].limit
  PROVE  CountsFit(modules, entries)
           /\ (\A i \in DOMAIN modules : WithinSlotLimit(modules[i], entries))
         <=> Mountable(modules, entries, Holds)
<1> DEFINE D == DOMAIN modules
           P == Places(entries)
           Limits(m) == {e.limit : e \in {x \in ToSet(entries) : x.type = m.type /\ x.limit > 0}}
<1>1. \A m : WithinSlotLimit(m, entries)
              <=> (Limits(m) # {} => \E limit \in Limits(m) : m.capacity <= limit)
  BY DEF WithinSlotLimit
<1>2. \A m, l : l \in Limits(m) <=> \E j \in DOMAIN entries :
                   entries[j].type = m.type /\ entries[j].limit > 0 /\ l = entries[j].limit
  BY DEF ToSet
<1> HIDE DEF Limits
<1>3. \A u \in P : u[1] \in DOMAIN entries
  BY PlacesOfType
<1>4. ASSUME CountsFit(modules, entries), \A i \in D : WithinSlotLimit(modules[i], entries)
      PROVE  Mountable(modules, entries, Holds)
  <2>1. Mountable(modules, entries, OfType)
    BY <1>4, CountsAreExact
  <2>2. PICK seat \in [D -> P] :
          IsInjective(seat) /\ \A i \in D : OfType(entries[seat[i][1]], modules[i])
    BY <2>1 DEF Mountable
  <2>3. ASSUME NEW i \in D PROVE Holds(entries[seat[i][1]], modules[i])
    <3> DEFINE j == seat[i][1]
               m == modules[i]
    <3>1. j \in DOMAIN entries /\ entries[j].type = m.type
      BY <1>3, <2>2 DEF OfType
    <3>2. CASE entries[j].limit = 0
      BY <3>1, <3>2 DEF Holds, OfType
    <3>3. CASE entries[j].limit # 0
      <4>1. entries[j].limit > 0
        BY <3>1, <3>3
      <4>2. entries[j].limit \in Limits(m)
        BY <1>2, <3>1, <4>1
      <4>3. PICK limit \in Limits(m) : m.capacity <= limit
        BY <1>1, <1>4, <4>2
      <4>4. limit = entries[j].limit
        <5>1. PICK n \in DOMAIN entries : entries[n].type = m.type /\ limit = entries[n].limit
          BY <1>2, <4>3
        <5> QED
          BY <3>1, <5>1
      <4>5. m.capacity <= entries[j].limit
        BY <4>3, <4>4
      <4> QED
        BY <3>1, <4>5 DEF Holds, OfType
    <3> QED
      BY <3>2, <3>3
  <2> QED
    BY <2>2, <2>3 DEF Mountable
<1>5. ASSUME Mountable(modules, entries, Holds)
      PROVE  CountsFit(modules, entries) /\ \A i \in D : WithinSlotLimit(modules[i], entries)
  <2>1. PICK seat \in [D -> P] :
          IsInjective(seat) /\ \A i \in D : Holds(entries[seat[i][1]], modules[i])
    BY <1>5 DEF Mountable
  <2>2. Mountable(modules, entries, OfType)
    BY <2>1 DEF Mountable, Holds
  <2>3. CountsFit(modules, entries)
    BY <2>2, CountsAreExact
  <2>4. ASSUME NEW i \in D, NEW l \in Limits(modules[i]) PROVE modules[i].capacity <= l
    <3> DEFINE j == seat[i][1]
               m == modules[i]
    <3>1. j \in DOMAIN entries /\ entries[j].type = m.type
      BY <1>3, <2>1 DEF Holds, OfType
    <3>2. PICK n \in DOMAIN entries :
            entries[n].type = m.type /\ entries[n].limit > 0 /\ l = entries[n].limit
      BY <1>2, <2>4
    <3>3. entries[j].limit = l /\ entries[j].limit # 0
      BY <3>1, <3>2
    <3>4. entries[j].limit = 0 \/ m.capacity <= entries[j].limit
      BY <2>1 DEF Holds
    <3> QED
      BY <3>3, <3>4
  <2>5. \A i \in D : WithinSlotLimit(modules[i], entries)
    BY <1>1, <2>4
  <2> QED
    BY <2>3, <2>5
<1> QED
  BY <1>4, <1>5

-----------------------------------------------------------------------------
(* Kits                                                                    *)

\* What a draft is at any time: parts of the catalog, each in its list.
KitType(kit) ==
  /\ DOMAIN kit = Lists \cup {"motherboard"}
  /\ kit.motherboard \in Boards \cup {NoPart}
  /\ \A list \in Lists : kit[list] \in Seq(PartsIn[list])

\* The parts of a list.
LEMMA PartsOfKit ==
  ASSUME NEW S, NEW ids \in Seq(S)
  PROVE  /\ DOMAIN PartsOf(ids) = 1 .. Len(ids)
         /\ IsFiniteSet(DOMAIN PartsOf(ids))
         /\ PartsOf(ids) \in Seq({Catalog[part] : part \in S})
<1>1. Len(ids) \in Nat /\ DOMAIN ids = 1 .. Len(ids)
  OBVIOUS
<1>2. DOMAIN PartsOf(ids) = 1 .. Len(ids)
  BY <1>1 DEF PartsOf
<1>3. IsFiniteSet(1 .. Len(ids))
  BY <1>1, FS_Interval
<1>4. PartsOf(ids) \in [1 .. Len(ids) -> {Catalog[part] : part \in S}]
  BY <1>1 DEF PartsOf
<1>5. PartsOf(ids) \in Seq({Catalog[part] : part \in S})
  BY <1>1, <1>4
<1> QED
  BY <1>2, <1>3, <1>5

\* The board of a complete kit.
LEMMA BoardOfKit ==
  ASSUME NEW kit, KitType(kit), kit.motherboard # NoPart
  PROVE  LET board == BoardOf(kit)
         IN  /\ board.maxMemory \in Nat
             /\ \A i \in DOMAIN board.memory : board.memory[i].limit \in Nat
             /\ \A i \in DOMAIN board.slots :
                  board.slots[i].generation \in Nat /\ board.slots[i].lanes \in Nat
             /\ Stock(board.sockets) /\ Stock(board.memory)
             /\ Stock(board.connectors) /\ Stock(board.slots)
<1>1. kit.motherboard \in Boards
  BY DEF KitType
<1>2. BoardOf(kit) \in {Catalog[part] : part \in Boards}
  BY <1>1 DEF BoardOf
<1> QED
  BY <1>2, CatalogAssumption DEF Stock

\* The cards of a kit and the slots of its board have sizes.
LEMMA CardsOfKit ==
  ASSUME NEW kit, KitType(kit), kit.motherboard # NoPart
  PROVE  LET cards == CardsOf(kit)
             entries == BoardOf(kit).slots
         IN  /\ DOMAIN cards \subseteq Nat /\ IsFiniteSet(DOMAIN cards)
             /\ Sizes(entries, cards, DOMAIN cards, Places(entries))
<1> DEFINE A == PartsOf(kit.gpus)
           B == PartsOf(kit.network_interfaces)
           C == {Catalog[part] : part \in PartsIn["gpus"] \cup PartsIn["network_interfaces"]}
           cards == CardsOf(kit)
           entries == BoardOf(kit).slots
<1>1. kit.gpus \in Seq(PartsIn["gpus"])
      /\ kit.network_interfaces \in Seq(PartsIn["network_interfaces"])
  BY DEF KitType, Lists
<1>2. A \in Seq({Catalog[part] : part \in PartsIn["gpus"]})
      /\ B \in Seq({Catalog[part] : part \in PartsIn["network_interfaces"]})
  BY <1>1, PartsOfKit
<1>3. A \in Seq(C) /\ B \in Seq(C)
  <2> HIDE DEF A, B
  <2> QED
    BY <1>2
<1>4. A \o B \in Seq(C)
  <2> HIDE DEF A, B, C
  <2> QED
    BY <1>3
<1>5. Len(A \o B) \in Nat /\ DOMAIN (A \o B) = 1 .. Len(A \o B)
  <2> HIDE DEF A, B, C
  <2> QED
    BY <1>4
<1>6. IsFiniteSet(1 .. Len(A \o B))
  <2> HIDE DEF A, B, C
  <2> QED
    BY <1>5, FS_Interval
<1>7. /\ DOMAIN cards \subseteq 1 .. Len(A \o B)
      /\ \A i \in DOMAIN cards : cards[i] = (A \o B)[i]
  <2>1. cards = [i \in {j \in DOMAIN (A \o B) : j <= Len(kit.gpus) \/ (A \o B)[j].lanes > 0}
                   |-> (A \o B)[i]]
    BY DEF CardsOf
  <2> HIDE DEF A, B, cards
  <2> QED
    BY <1>5, <2>1
<1>8. IsFiniteSet(DOMAIN cards) /\ DOMAIN cards \subseteq Nat
  <2> HIDE DEF A, B, cards
  <2>1. DOMAIN cards \subseteq Nat
    BY <1>5, <1>7
  <2> QED
    BY <1>6, <1>7, <2>1, FS_Subset
<1>9. \A i \in DOMAIN cards : cards[i] \in C
  <2> HIDE DEF A, B, C, cards
  <2> QED
    BY <1>4, <1>7
<1>10. \A i \in DOMAIN cards : cards[i].generation \in Nat /\ cards[i].lanes \in Nat
  <2> HIDE DEF cards
  <2> QED
    BY <1>9, CatalogAssumption
<1>11. \A u \in Places(entries) :
         entries[u[1]].generation \in Nat /\ entries[u[1]].lanes \in Nat
  BY BoardOfKit, PlacesOfType
<1> QED
  BY <1>8, <1>10, <1>11 DEF Sizes

\* A kit that is accepted has a slot of its own for every card.
LEMMA AcceptedCardsMount ==
  ASSUME NEW kit, KitType(kit), Accepts(kit)
  PROVE  CardsMountable(kit)
<1> DEFINE cards == CardsOf(kit)
           entries == BoardOf(kit).slots
<1>1. kit.motherboard # NoPart /\ Assigned(entries, cards).ok
  BY DEF Accepts, Complete, PcieFits
<1>2. /\ DOMAIN cards \subseteq Nat /\ IsFiniteSet(DOMAIN cards)
      /\ Sizes(entries, cards, DOMAIN cards, Places(entries))
  BY <1>1, CardsOfKit
<1> HIDE DEF cards, entries
<1>3. CanMount(entries, cards, DOMAIN cards, Places(entries))
  BY <1>1, <1>2, AssignmentIsExact
<1> QED
  BY <1>3 DEF CardsMountable, Mountable, CanMount, cards, entries

\* On a regular board a complete kit is accepted exactly when everything in it
\* finds a place.
LEMMA VerdictOfKit ==
  ASSUME NEW kit, KitType(kit), Complete(kit), Regular(BoardOf(kit))
  PROVE  Accepts(kit) <=> Fits(kit)
<1> DEFINE board == BoardOf(kit)
           modules == PartsOf(kit.memory_modules)
           cards == CardsOf(kit)
           slots == board.slots
           sum == SumOf([i \in DOMAIN modules |-> modules[i].capacity])
<1>1. kit.motherboard # NoPart
  BY DEF Complete
<1>2. /\ board.maxMemory \in Nat
      /\ \A i \in DOMAIN board.memory : board.memory[i].limit \in Nat
      /\ Stock(board.sockets) /\ Stock(board.memory)
      /\ Stock(board.connectors) /\ Stock(board.slots)
  BY <1>1, BoardOfKit
<1>3. /\ kit.processors \in Seq(PartsIn["processors"])
      /\ kit.storage_devices \in Seq(PartsIn["storage_devices"])
      /\ kit.memory_modules \in Seq(PartsIn["memory_modules"])
  BY DEF KitType, Lists
<1>4. /\ IsFiniteSet(DOMAIN PartsOf(kit.processors))
      /\ IsFiniteSet(DOMAIN PartsOf(kit.storage_devices))
      /\ IsFiniteSet(DOMAIN modules)
  BY <1>3, PartsOfKit
<1>5. ProcessorsFit(kit) <=> Mountable(PartsOf(kit.processors), board.sockets, OfType)
  BY <1>2, <1>4, CountsAreExact DEF ProcessorsFit
<1>6. StorageFits(kit) <=> Mountable(PartsOf(kit.storage_devices), board.connectors, OfType)
  BY <1>2, <1>4, CountsAreExact DEF StorageFits
<1>7. MemoryFits(kit) <=> /\ Mountable(modules, board.memory, Holds)
                          /\ board.maxMemory = 0 \/ sum <= board.maxMemory
                          /\ board.ecc \/ ~\E i \in DOMAIN modules : modules[i].ecc
  <2>1. \A i, j \in DOMAIN board.memory :
          board.memory[i].type = board.memory[j].type
            => board.memory[i].limit = board.memory[j].limit
    BY DEF Regular
  <2>2. CountsFit(modules, board.memory)
          /\ (\A i \in DOMAIN modules : WithinSlotLimit(modules[i], board.memory))
        <=> Mountable(modules, board.memory, Holds)
    <3> DEFINE entries == board.memory
    <3>1. /\ Stock(entries) /\ \A i \in DOMAIN entries : entries[i].limit \in Nat
          /\ \A i, j \in DOMAIN entries :
               entries[i].type = entries[j].type => entries[i].limit = entries[j].limit
      BY <1>2, <2>1
    <3> HIDE DEF modules, entries
    <3>2. CountsFit(modules, entries)
            /\ (\A i \in DOMAIN modules : WithinSlotLimit(modules[i], entries))
          <=> Mountable(modules, entries, Holds)
      BY <1>4, <3>1, MemoryIsExact
    <3> QED
      BY <3>2 DEF entries
  <2>3. (board.maxMemory > 0 => sum <= board.maxMemory)
          <=> board.maxMemory = 0 \/ sum <= board.maxMemory
    <3> HIDE DEF sum, board
    <3> QED
      BY <1>2
  <2>4. MemoryFits(kit) <=>
          /\ CountsFit(modules, board.memory)
          /\ board.maxMemory > 0 => sum <= board.maxMemory
          /\ \A i \in DOMAIN modules :
               /\ modules[i].ecc => board.ecc
               /\ WithinSlotLimit(modules[i], board.memory)
    BY DEF MemoryFits
  <2>5. (\A i \in DOMAIN modules : modules[i].ecc => board.ecc)
          <=> board.ecc \/ ~\E i \in DOMAIN modules : modules[i].ecc
    <3> HIDE DEF modules, board
    <3> QED
      BY Zenon
  <2> HIDE DEF modules, board, sum
  <2> QED
    BY <2>2, <2>3, <2>4, <2>5, Zenon
<1>8. PcieFits(kit) <=> CardsMountable(kit)
  <2>1. /\ DOMAIN cards \subseteq Nat /\ IsFiniteSet(DOMAIN cards)
        /\ Sizes(slots, cards, DOMAIN cards, Places(slots))
    BY <1>1, CardsOfKit
  <2>2. Chain(slots, Places(slots))
    <3>1. \A u \in Places(slots) : slots[u[1]] \in ToSet(slots)
      <4>1. \A u \in Places(slots) : u[1] \in DOMAIN slots
        BY <1>2, PlacesOfType
      <4> QED
        BY <4>1 DEF ToSet
    <3>2. \A s, t \in ToSet(slots) : Suits(s, t) \/ Suits(t, s)
      BY DEF Regular
    <3> HIDE DEF slots
    <3> QED
      BY <3>1, <3>2 DEF Chain
  <2> DEFINE mounted == CanMount(slots, cards, DOMAIN cards, Places(slots))
  <2>3. Assigned(slots, cards).ok <=> mounted
    <3> HIDE DEF slots, cards
    <3>1. /\ Assigned(slots, cards).ok => CanMount(slots, cards, DOMAIN cards, Places(slots))
          /\ Chain(slots, Places(slots)) /\ CanMount(slots, cards, DOMAIN cards, Places(slots))
               => Assigned(slots, cards).ok
      BY <2>1, AssignmentIsExact
    <3> QED
      BY <2>2, <3>1, Zenon
  <2>4. CardsMountable(kit) <=> mounted
    BY DEF CardsMountable, Mountable, CanMount
  <2>5. PcieFits(kit) <=> Assigned(slots, cards).ok
    BY DEF PcieFits
  <2> HIDE DEF slots, cards, mounted
  <2> QED
    BY <2>3, <2>4, <2>5
<1>9. Accepts(kit) <=> ProcessorsFit(kit) /\ MemoryFits(kit) /\ StorageFits(kit) /\ PcieFits(kit)
  BY DEF Accepts
<1>10. Fits(kit) <=> /\ Mountable(PartsOf(kit.processors), board.sockets, OfType)
                     /\ Mountable(PartsOf(kit.storage_devices), board.connectors, OfType)
                     /\ Mountable(modules, board.memory, Holds)
                     /\ board.maxMemory = 0 \/ sum <= board.maxMemory
                     /\ board.ecc \/ ~\E i \in DOMAIN modules : modules[i].ecc
                     /\ CardsMountable(kit)
  BY DEF Fits
<1> HIDE DEF board, modules, sum
<1> QED
  BY <1>5, <1>6, <1>7, <1>8, <1>9, <1>10, Zenon

-----------------------------------------------------------------------------
(* The draft                                                               *)

\* The first draft is well-formed.
LEMMA NewDraftType == KitType(NewDraft)
<1>1. \A list \in Lists : <<>> \in Seq(PartsIn[list])
  OBVIOUS
<1> QED
  BY <1>1 DEF KitType, NewDraft, Lists

\* Without the first x a sequence is one of the same elements.
LEMMA RemovalKeepsType ==
  ASSUME NEW S, NEW s \in Seq(S), NEW x
  PROVE  RemoveFirst(s, x) \in Seq(S)
<1> DEFINE I == {i \in 1 .. Len(s) : s[i] = x}
           n == Min(I)
           before == SubSeq(s, 1, n - 1)
           behind == SubSeq(s, n + 1, Len(s))
<1>1. Len(s) \in Nat
  OBVIOUS
<1>2. CASE I = {}
  BY <1>2 DEF RemoveFirst
<1>3. CASE I # {}
  <2>1. RemoveFirst(s, x) = before \o behind
    BY <1>3 DEF RemoveFirst, RemoveAt, SelectInSeq
  <2>2. n \in 1 .. Len(s)
    <3>1. I \subseteq Nat
      BY <1>1
    <3> HIDE DEF I
    <3>2. \E i \in I : \A j \in I : i <= j
      BY <1>3, <3>1, HasLeast
    <3>3. n \in I
      BY <3>2 DEF Min
    <3> QED
      BY <3>3 DEF I
  <2> HIDE DEF n
  <2>3. /\ n - 1 \in Int /\ n + 1 \in Int /\ Len(s) \in Int /\ 1 \in Int
        /\ \A i \in 1 .. n - 1 : s[i] \in S
        /\ \A i \in n + 1 .. Len(s) : s[i] \in S
    BY <1>1, <2>2
  <2>4. before \in Seq(S)
    BY <2>3, SubSeqProperties
  <2>5. behind \in Seq(S)
    BY <2>3, SubSeqProperties
  <2> HIDE DEF before, behind
  <2>6. before \o behind \in Seq(S)
    BY <2>4, <2>5
  <2> QED
    BY <2>1, <2>6
<1> QED
  BY <1>2, <1>3

\* Every edit of a draft keeps it well-formed.
LEMMA EditKeepsType ==
  ASSUME KitType(draft), EditDraft
  PROVE  KitType(draft')
<1>1. ASSUME NEW board \in Boards, Select(board) PROVE KitType(draft')
  <2>1. draft' = [draft EXCEPT !.motherboard = board]
    BY <1>1 DEF Select
  <2> QED
    BY <2>1 DEF KitType, Lists
<1>2. ASSUME NEW list \in Lists, NEW ids \in Seq(PartsIn[list]),
             draft' = [draft EXCEPT ![list] = ids]
      PROVE  KitType(draft')
  BY <1>2 DEF KitType, Lists
<1>3. ASSUME NEW list \in Lists, NEW part \in PartsIn[list], AddPart(list, part)
      PROVE  KitType(draft')
  <2>1. draft' = [draft EXCEPT ![list] = Append(draft[list], part)]
    BY <1>3 DEF AddPart
  <2>2. Append(draft[list], part) \in Seq(PartsIn[list])
    BY DEF KitType
  <2> QED
    BY <1>2, <2>1, <2>2
<1>4. ASSUME NEW list \in Lists, NEW part \in PartsIn[list], RemovePart(list, part)
      PROVE  KitType(draft')
  <2>1. draft' = [draft EXCEPT ![list] = RemoveFirst(draft[list], part)]
    BY <1>4 DEF RemovePart
  <2>2. RemoveFirst(draft[list], part) \in Seq(PartsIn[list])
    BY RemovalKeepsType DEF KitType
  <2> QED
    BY <1>2, <2>1, <2>2
<1> QED
  BY <1>1, <1>3, <1>4 DEF EditDraft

-----------------------------------------------------------------------------
(* The units                                                               *)

WorkerPlaces == {"new", "ready", "running", "failing", "ended"}
UnitTypes ==
  /\ pool \in [Units -> Seq(Works)]
  /\ current \in [Units -> SUBSET Works] /\ worked \in [Units -> SUBSET Works]
  /\ failed \in [Units -> SUBSET Works] /\ accepted \in [Units -> SUBSET Works]
  /\ stopped \in [Units -> BOOLEAN]
  /\ place \in [Threads -> WorkerPlaces]
  /\ held \in [Threads -> SUBSET Works]

\* An accepted work is queued once, executed, or recorded with one outcome.
Recorded(u) == worked[u] \cup failed[u]
Accounted(u) ==
  /\ IsInjective(pool[u])
  /\ \A w : w \in accepted[u] <=> Contains(pool[u], w) \/ w \in current[u] \cup Recorded(u)
  /\ \A w : Contains(pool[u], w) => w \notin current[u] \cup Recorded(u)
  /\ worked[u] \cap (current[u] \cup failed[u]) = {}

\* A thread executes one work that no other executes; one whose failure a
\* HardwareModule has recorded is still running.
InHand(u) ==
  /\ \A t \in Crew[u] :
       /\ place[t] \notin {"running", "failing"} => held[t] = {}
       /\ place[t] \in {"running", "failing"} =>
            \E w \in current[u] :
              held[t] = {w} /\ (w \in failed[u] <=> place[t] = "failing")
  /\ \A s, t \in Crew[u] : s # t => held[s] \cap held[t] = {}

-----------------------------------------------------------------------------
(* The main thread                                                         *)

MainTypes ==
  /\ owned \in Seq(Units)
  /\ k \in Nat \ {0}
  /\ id \in 1 .. MaxJobs + 1
  /\ jobs \in Nat
  /\ helper \in {"none", "running", "asked", "ended"}
  /\ todo \in Seq(ToSet(todo))
  /\ saved \in Seq(Units)
  /\ program = "simulation" => plan \in Plans
  /\ file \in Files

\* Nothing is put before the units are there, and later only into those the
\* program knows.
Early == {"build", "monitor", "flag", "load", "start", "shell"}
Untouched ==
  /\ pc \in Early => \A u \in Units : accepted[u] = {}
  /\ \A u \in Units : accepted[u] # {} => Contains(owned, u)

\* The works to come are not accepted yet, and there are ids for them.
Fresh ==
  /\ pc = "put" =>
       /\ id <= MaxJobs /\ \A u \in Units : \A w \in accepted[u] : w[1] <= id
       /\ \A i \in DOMAIN todo :
            /\ todo[i].work \in Works /\ todo[i].work[1] = id
            /\ \A u \in Units : todo[i].work \notin accepted[u]
       /\ \A i, j \in DOMAIN todo : i # j => todo[i].work # todo[j].work
  /\ program = "game" \/ pc = "loop" =>
       \A u \in Units : \A w \in accepted[u] : w[1] < id
  /\ pc = "draw" => id + jobs <= MaxJobs + 1
  /\ pc = "await" => jobs > 0 /\ id + jobs <= MaxJobs + 2

\* The units that wait_all has returned from have nothing to do.
Waited ==
  pc = "wait" => \A i \in 1 .. k - 1 : i \in DOMAIN owned /\ ~Busy(owned[i])

\* Which program has which places.
InGame == {"load", "start", "shell", "top", "shop", "assemble", "ssh", "draw", "await", "flush"}
InLoop == {"build", "monitor", "flag", "loop", "put", "ask"}
AtHome ==
  /\ program \in {"game", "simulation"}
  /\ program = "game" => pc \notin InLoop
  /\ program = "simulation" => pc \notin InGame

\* The units before k are stopped and joined, and in the end all are; those
\* that the program does not know have no thread.
Gone(u) == stopped[u] /\ \A t \in Crew[u] : place[t] = "ended"
Stopping ==
  /\ pc = "join" => k \in DOMAIN owned /\ stopped[owned[k]]
  /\ holes = {} =>
       /\ \A u \in Units : Contains(owned, u) \/ \A t \in Crew[u] : place[t] = "new"
       /\ pc \in {"stop", "join"} => \A i \in 1 .. k - 1 : i \in DOMAIN owned /\ Gone(owned[i])
       /\ pc = "over" => \A i \in DOMAIN owned : Gone(owned[i])

\* The other thread starts after the units, and is told to end before they are.
Helped ==
  /\ pc \in {"build", "monitor", "load", "start"} => helper = "none"
  /\ program = "game" /\ helper = "running" => autosaving
  /\ program = "game" /\ pc = "wait" => helper # "running"
  /\ holes = {} /\ pc \in {"joinHelper", "stop", "join", "over"} => helper # "running"

UnitInv == UnitTypes /\ \A u \in Units : Accounted(u) /\ InHand(u)
MainInv == MainTypes /\ Untouched /\ Fresh /\ Waited /\ AtHome /\ Stopping /\ Helped
IInv == UnitInv /\ MainInv

-----------------------------------------------------------------------------
(* What a step of the programs does to the units                           *)

\* Threads that execute nothing start, sleep or leave, and units are stopped.
Idle == {"new", "ready", "ended"}
Rests ==
  /\ UNCHANGED <<pool, current, worked, failed, accepted, held>>
  /\ place' \in [Threads -> WorkerPlaces]
  /\ \A t \in Threads : place'[t] = place[t] \/ {place[t], place'[t]} \subseteq Idle
  /\ stopped' \in [Units -> BOOLEAN]
  /\ \A u \in Units : stopped[u] => stopped'[u]
PutsNew(u, w) ==
  /\ ~stopped[u] /\ w \in Works /\ w \notin accepted[u]
  /\ pool' = [pool EXCEPT ![u] = Append(@, w)]
  /\ accepted' = [accepted EXCEPT ![u] = @ \cup {w}]
  /\ UNCHANGED <<current, worked, failed, held, place, stopped>>
AtWork(u, t) == Takes(u, t) \/ Executes(u, t) \/ Discards(u, t)

UnitEffect ==
  \/ Rests
  \/ \E u \in Units : \E w \in Works : PutsNew(u, w)
  \/ \E u \in Units : \E t \in Crew[u] : AtWork(u, t)

\* A thread belongs to one unit.
LEMMA OneCrew ==
  /\ \A u \in Units : \A t \in Crew[u] : t \in Threads
  /\ \A u, v \in Units : \A t \in Crew[u] : t \in Crew[v] => u = v
BY ProcessAssumption DEF Threads

\* A unit that nothing was put into has no thread at work.
LEMMA UntouchedIsIdle ==
  ASSUME UnitInv, NEW u \in Units, accepted[u] = {}
  PROVE  \A t \in Crew[u] : place[t] \in Idle
<1>1. current[u] = {}
  BY DEF UnitInv, Accounted
<1> QED
  BY <1>1, OneCrew DEF UnitInv, UnitTypes, WorkerPlaces, InHand, Idle

\* Nothing of a unit changes where the step does not reach it.
LEMMA UnitStays ==
  ASSUME UnitInv, NEW u \in Units,
         pool'[u] = pool[u], current'[u] = current[u], worked'[u] = worked[u],
         failed'[u] = failed[u], accepted'[u] = accepted[u],
         \A t \in Crew[u] : held'[t] = held[t],
         \A t \in Crew[u] : place'[t] = place[t] \/ {place[t], place'[t]} \subseteq Idle
  PROVE  Accounted(u)' /\ InHand(u)'
<1>1. Accounted(u)'
  BY DEF UnitInv, Accounted, Recorded
<1>2. InHand(u)'
  BY DEF UnitInv, InHand, Idle
<1> QED
  BY <1>1, <1>2

\* put: the work is new to the unit.
LEMMA AcceptsKeeps ==
  ASSUME UnitInv, NEW u \in Units, NEW w \in Works, PutsNew(u, w)
  PROVE  UnitInv'
<1>1. UnitTypes'
  BY DEF UnitInv, UnitTypes, PutsNew
<1>2. ASSUME NEW v \in Units, v # u PROVE Accounted(v)' /\ InHand(v)'
  BY <1>2, UnitStays DEF PutsNew, UnitInv, UnitTypes
<1>3. Accounted(u)'
  <2>1. /\ IsInjective(pool[u]) /\ ~Contains(pool[u], w) /\ w \notin current[u] \cup Recorded(u)
        /\ pool'[u] = Append(pool[u], w) /\ accepted'[u] = accepted[u] \cup {w}
        /\ UNCHANGED <<current, worked, failed>>
    BY DEF UnitInv, UnitTypes, Accounted, PutsNew
  <2>2. /\ \A y : Contains(Append(pool[u], w), y) <=> Contains(pool[u], y) \/ y = w
        /\ IsInjective(Append(pool[u], w))
    BY <2>1, AppendMembers DEF UnitInv, UnitTypes
  <2> QED
    BY <2>1, <2>2 DEF UnitInv, Accounted, Recorded
<1>4. InHand(u)'
  BY DEF UnitInv, InHand, PutsNew
<1> QED
  BY <1>1, <1>2, <1>3, <1>4 DEF UnitInv

\* A worker takes the head of the pool.
LEMMA TakesKeeps ==
  ASSUME UnitInv, NEW u \in Units, NEW t \in Crew[u], Takes(u, t)
  PROVE  UnitInv'
<1>0. PICK w : w = Head(pool[u])
  OBVIOUS
<1>1. /\ pool[u] # <<>> /\ place[t] = "ready" /\ t \in Threads
      /\ pool' = [pool EXCEPT ![u] = Tail(pool[u])]
      /\ current' = [current EXCEPT ![u] = current[u] \cup {w}]
      /\ place' = [place EXCEPT ![t] = "running"]
      /\ held' = [held EXCEPT ![t] = {w}]
      /\ UNCHANGED <<worked, failed, accepted, stopped>>
  BY <1>0, OneCrew DEF Takes
<1>2. /\ Tail(pool[u]) \in Seq(Works) /\ w \in Works /\ Contains(pool[u], w)
      /\ \A y : Contains(pool[u], y) <=> y = w \/ Contains(Tail(pool[u]), y)
      /\ IsInjective(Tail(pool[u])) /\ ~Contains(Tail(pool[u]), w)
  BY <1>0, <1>1, TailMembers DEF UnitInv, UnitTypes, Accounted
<1>3. UnitTypes'
  BY <1>1, <1>2 DEF UnitInv, UnitTypes, WorkerPlaces
<1>4. ASSUME NEW v \in Units, v # u PROVE Accounted(v)' /\ InHand(v)'
  BY <1>1, <1>4, UnitStays, OneCrew DEF UnitInv, UnitTypes
<1>5. /\ pool'[u] = Tail(pool[u]) /\ current'[u] = current[u] \cup {w}
      /\ place'[t] = "running" /\ held'[t] = {w}
      /\ \A s \in Crew[u] \ {t} : place'[s] = place[s] /\ held'[s] = held[s]
  BY <1>1, OneCrew DEF UnitInv, UnitTypes
<1>6. Accounted(u)'
  BY <1>1, <1>2, <1>5 DEF UnitInv, Accounted, Recorded
<1>7. InHand(u)'
  <2>1. w \notin current[u] \cup Recorded(u)
    BY <1>2 DEF UnitInv, Accounted
  <2>2. \A s \in Crew[u] \ {t} : held[s] \subseteq current[u]
    BY DEF UnitInv, InHand
  <2> QED
    BY <1>1, <1>5, <2>1, <2>2 DEF UnitInv, InHand, Recorded
<1> QED
  BY <1>3, <1>4, <1>6, <1>7 DEF UnitInv

\* A thread lays its work down, recorded as completed or as failed.
LEMMA LaysDown ==
  ASSUME UnitInv, NEW u \in Units, NEW t \in Crew[u],
         Succeeds(u, t) \/ FailsAtOnce(u, t) \/ Discards(u, t)
  PROVE  UnitInv'
<1>1. PICK w \in current[u] : held[t] = {w} /\ (w \in failed[u] <=> place[t] = "failing")
  BY DEF Succeeds, FailsAtOnce, Discards, UnitInv, InHand
<1>2. /\ t \in Threads /\ w \in Works
      /\ current' = [current EXCEPT ![u] = current[u] \ {w}]
      /\ place' = [place EXCEPT ![t] = "ready"]
      /\ held' = [held EXCEPT ![t] = {}]
      /\ \/ place[t] # "failing" /\ worked' = [worked EXCEPT ![u] = @ \cup {w}] /\ failed' = failed
         \/ failed' = [failed EXCEPT ![u] = @ \cup {w}] /\ worked' = worked
         \/ place[t] = "failing" /\ failed' = failed /\ worked' = worked
      /\ UNCHANGED <<pool, accepted, stopped>>
  BY <1>1, OneCrew DEF Succeeds, FailsAtOnce, Discards, UnitInv, UnitTypes
<1>3. UnitTypes'
  <2>1. current' \in [Units -> SUBSET Works] /\ place' \in [Threads -> WorkerPlaces]
    BY <1>2 DEF UnitInv, UnitTypes, WorkerPlaces
  <2>2. worked' \in [Units -> SUBSET Works] /\ failed' \in [Units -> SUBSET Works]
    BY <1>2 DEF UnitInv, UnitTypes
  <2>3. held' \in [Threads -> SUBSET Works]
    BY <1>2 DEF UnitInv, UnitTypes
  <2> QED
    BY <1>2, <2>1, <2>2, <2>3 DEF UnitInv, UnitTypes
<1>4. ASSUME NEW v \in Units, v # u PROVE Accounted(v)' /\ InHand(v)'
  BY <1>2, <1>4, UnitStays, OneCrew DEF UnitInv, UnitTypes
<1>5. /\ pool'[u] = pool[u] /\ accepted'[u] = accepted[u]
      /\ current'[u] = current[u] \ {w} /\ place'[t] = "ready" /\ held'[t] = {}
      /\ \A s \in Crew[u] \ {t} : place'[s] = place[s] /\ held'[s] = held[s]
      /\ \/ w \notin failed[u] /\ worked'[u] = worked[u] \cup {w} /\ failed'[u] = failed[u]
         \/ failed'[u] = failed[u] \cup {w} /\ worked'[u] = worked[u]
         \/ w \in failed[u] /\ failed'[u] = failed[u] /\ worked'[u] = worked[u]
  BY <1>1, <1>2, OneCrew DEF UnitInv, UnitTypes
<1>6. Accounted(u)'
  BY <1>1, <1>5 DEF UnitInv, Accounted, Recorded
<1>7. InHand(u)'
  <2>1. ASSUME NEW s \in Crew[u], s # t PROVE w \notin held[s]
    BY <1>1, <2>1 DEF UnitInv, InHand
  <2>2. ASSUME NEW s \in Crew[u], place'[s] \in {"running", "failing"}
        PROVE  \E v \in current'[u] : held'[s] = {v} /\ (v \in failed'[u] <=> place'[s] = "failing")
    <3>1. s # t /\ place'[s] = place[s] /\ held'[s] = held[s]
      BY <1>5, <2>2
    <3>2. PICK v \in current[u] : held[s] = {v} /\ (v \in failed[u] <=> place[s] = "failing")
      BY <2>2, <3>1 DEF UnitInv, InHand
    <3>3. v # w
      BY <2>1, <3>1, <3>2
    <3> QED
      BY <1>5, <3>1, <3>2, <3>3
  <2>3. ASSUME NEW s \in Crew[u], place'[s] \notin {"running", "failing"} PROVE held'[s] = {}
    BY <1>5, <2>3 DEF UnitInv, InHand
  <2>4. ASSUME NEW r \in Crew[u], NEW s \in Crew[u], r # s PROVE held'[r] \cap held'[s] = {}
    BY <1>5, <2>4 DEF UnitInv, InHand
  <2> QED
    BY <2>2, <2>3, <2>4 DEF InHand
<1> QED
  BY <1>3, <1>4, <1>6, <1>7 DEF UnitInv

\* A HardwareModule records a failure, and the work goes on running.
LEMMA RecordsKeeps ==
  ASSUME UnitInv, NEW u \in Units, NEW t \in Crew[u], RecordsFailure(u, t)
  PROVE  UnitInv'
<1>1. PICK w \in current[u] : held[t] = {w} /\ w \notin failed[u]
  BY DEF RecordsFailure, UnitInv, InHand
<1>2. /\ t \in Threads /\ w \in Works
      /\ failed' = [failed EXCEPT ![u] = @ \cup {w}]
      /\ place' = [place EXCEPT ![t] = "failing"]
      /\ UNCHANGED <<pool, current, worked, accepted, held, stopped>>
  BY <1>1, OneCrew DEF RecordsFailure, UnitInv, UnitTypes
<1>3. UnitTypes'
  BY <1>2 DEF UnitInv, UnitTypes, WorkerPlaces
<1>4. ASSUME NEW v \in Units, v # u PROVE Accounted(v)' /\ InHand(v)'
  BY <1>2, <1>4, UnitStays, OneCrew DEF UnitInv, UnitTypes
<1>5. /\ failed'[u] = failed[u] \cup {w} /\ place'[t] = "failing"
      /\ \A s \in Crew[u] \ {t} : place'[s] = place[s]
  BY <1>2, OneCrew DEF UnitInv, UnitTypes
<1>6. Accounted(u)'
  BY <1>1, <1>2, <1>5 DEF UnitInv, Accounted, Recorded
<1>7. InHand(u)'
  <2>1. ASSUME NEW s \in Crew[u], s # t PROVE w \notin held[s]
    BY <1>1, <2>1 DEF UnitInv, InHand
  <2>2. ASSUME NEW s \in Crew[u], place'[s] \in {"running", "failing"}
        PROVE  \E v \in current[u] : held[s] = {v} /\ (v \in failed'[u] <=> place'[s] = "failing")
    <3>1. CASE s = t
      BY <1>1, <1>5, <3>1
    <3>2. CASE s # t
      <4>1. PICK v \in current[u] : held[s] = {v} /\ (v \in failed[u] <=> place[s] = "failing")
        BY <1>5, <2>2, <3>2 DEF UnitInv, InHand
      <4> QED
        BY <1>5, <2>1, <3>2, <4>1
    <3> QED
      BY <3>1, <3>2
  <2>3. \A s \in Crew[u] : place'[s] \notin {"running", "failing"} => held[s] = {}
    BY <1>5 DEF UnitInv, InHand
  <2> QED
    BY <1>2, <2>2, <2>3 DEF UnitInv, InHand
<1> QED
  BY <1>3, <1>4, <1>6, <1>7 DEF UnitInv

\* The works of the units are accounted for after every step.
LEMMA EffectKeeps ==
  ASSUME UnitInv, UnitEffect
  PROVE  UnitInv'
<1>1. ASSUME Rests PROVE UnitInv'
  <2>1. UnitTypes'
    BY <1>1 DEF Rests, UnitInv, UnitTypes
  <2>2. \A u \in Units : Accounted(u)' /\ InHand(u)'
    BY <1>1, UnitStays, OneCrew DEF Rests
  <2> QED
    BY <2>1, <2>2 DEF UnitInv
<1> QED
  BY <1>1, AcceptsKeeps, TakesKeeps, LaysDown, RecordsKeeps DEF UnitEffect, AtWork, Executes

-----------------------------------------------------------------------------
(* Every step is such an effect                                            *)

\* What starts the threads of a unit that nothing was put into.
LEMMA LaunchRests ==
  ASSUME UnitInv, NEW u \in Units, accepted[u] = {}, Launch(u)
  PROVE  Rests
BY UntouchedIsIdle, OneCrew DEF Launch, Rests, Idle, WorkerPlaces, works, UnitInv, UnitTypes

\* What sleeps, leaves or is stopped.
LEMMA WorkerEffects ==
  ASSUME UnitInv, NEW u \in Units, NEW t \in Crew[u], Worker(u, t)
  PROVE  UnitEffect
<1>1. Sleeps(u, t) => Rests
  BY DEF Sleeps, Rests, works, crews, UnitInv, UnitTypes
<1>2. Leaves(u, t) => Rests
  BY OneCrew DEF Leaves, Rests, Idle, WorkerPlaces, works, UnitInv, UnitTypes
<1> QED
  BY <1>1, <1>2 DEF Worker, UnitEffect, AtWork

\* The main thread in the loops over the units.
LEMMA LoopEffects ==
  ASSUME IInv, HelperEnds \/ HelperDies \/ WaitSleeps \/ WaitReturns \/ StopUnit \/ JoinUnit
  PROVE  Rests
<1>1. UNCHANGED units => Rests
  BY DEF units, Rests, IInv, UnitInv, UnitTypes
<1>2. WaitSleeps => Rests
  BY DEF WaitSleeps, works, crews, Rests, IInv, UnitInv, UnitTypes
<1>3. ASSUME StopUnit PROVE Rests
  <2>1. Here \in Units
    BY <1>3 DEF StopUnit, AtUnit, Here, IInv, MainInv, MainTypes
  <2> HIDE DEF Here
  <2> QED
    BY <1>3, <2>1 DEF StopUnit, works, crews, Rests, IInv, UnitInv, UnitTypes
<1> QED
  BY <1>1, <1>2, <1>3 DEF HelperEnds, HelperDies, WaitReturns, JoinUnit

\* The units that the program owns are units.
LEMMA OwnedUnits ==
  ASSUME MainTypes
  PROVE  /\ \A u : u \in ToSet(owned) <=> Contains(owned, u)
         /\ \A u \in ToSet(owned) : u \in Units
         /\ \A i \in DOMAIN owned : owned[i] \in Units /\ Contains(owned, owned[i])
         /\ DOMAIN owned = 1 .. Len(owned) /\ Len(owned) \in Nat
<1>1. \A u : u \in ToSet(owned) <=> Contains(owned, u)
  BY SetOfMembers DEF MainTypes
<1>2. /\ \A i \in DOMAIN owned : owned[i] \in Units /\ Contains(owned, owned[i])
      /\ DOMAIN owned = 1 .. Len(owned) /\ Len(owned) \in Nat
      /\ \A u : Contains(owned, u) => u \in Units
  BY DEF MainTypes, Contains
<1> QED
  BY <1>1, <1>2

\* put, with a work that the unit does not have.
LEMMA PutAccepts ==
  ASSUME NEW u \in Units, NEW w \in Works, Put(u, w), w \notin accepted[u]
  PROVE  PutsNew(u, w)
BY DEF Put, PutsNew, crews

\* A constructor that is cut short leaves threads, if any, that execute nothing.
LEMMA CutShortRests ==
  ASSUME IInv, NEW u \in Units, NEW d, NEW alone, accepted[u] = {}, CutShort(u, d, alone)
  PROVE  Rests
<1>1. \A t \in Crew[u] : place[t] \in Idle
  BY UntouchedIsIdle DEF IInv
<1>2. PICK started \in SUBSET Crew[u], told \in BOOLEAN :
        /\ place' = [t \in Threads |-> IF t \in started THEN "ready" ELSE place[t]]
        /\ stopped' = [stopped EXCEPT ![u] = @ \/ told]
  BY DEF CutShort
<1>3. UNCHANGED <<pool, current, worked, failed, accepted, held>>
  BY DEF CutShort, works
<1>4. /\ place' \in [Threads -> WorkerPlaces]
      /\ \A t \in Threads : place'[t] = place[t] \/ {place[t], place'[t]} \subseteq Idle
  BY <1>1, <1>2 DEF Idle, WorkerPlaces, IInv, UnitInv, UnitTypes
<1>5. /\ stopped' \in [Units -> BOOLEAN]
      /\ \A v \in Units : stopped[v] => stopped'[v]
  BY <1>2, Zenon DEF IInv, UnitInv, UnitTypes
<1> QED
  BY <1>3, <1>4, <1>5 DEF Rests

LEMMA CutShortKeeps ==
  ASSUME NEW u, NEW d, NEW alone, CutShort(u, d, alone)
  PROVE  accepted' = accepted /\ holes \subseteq holes'
BY DEF CutShort, works

\* It leaves nothing at all when it adds no hole.
LEMMA CutShortLeavesNothing ==
  ASSUME UnitInv, NEW u, NEW d, NEW alone, CutShort(u, d, alone), holes' = {}
  PROVE  alone /\ UNCHANGED <<place, stopped>>
<1>1. PICK started \in SUBSET Crew[u], told \in BOOLEAN :
        /\ told => started # {}
        /\ place' = [t \in Threads |-> IF t \in started THEN "ready" ELSE place[t]]
        /\ stopped' = [stopped EXCEPT ![u] = @ \/ told]
        /\ holes' = IF started = {} /\ alone THEN holes ELSE holes \cup {"constructor"}
  BY DEF CutShort
<1>2. started = {} /\ alone /\ ~told
  BY <1>1
<1>3. place' = place
  BY <1>1, <1>2 DEF UnitInv, UnitTypes
<1>4. stopped' = stopped
  BY <1>1, <1>2 DEF UnitInv, UnitTypes
<1> QED
  BY <1>2, <1>3, <1>4

\* The steps of the simulation.
LEMMA SimulationEffects ==
  ASSUME IInv, program = "simulation", SimulationNext
  PROVE  UnitEffect
<1>1. UNCHANGED <<works, crews, stopped>> => Rests
  BY DEF works, crews, Rests, IInv, UnitInv, UnitTypes
<1>2. UNCHANGED units => Rests
  BY <1>1 DEF units, works, crews
<1>3. ASSUME BuildUnit PROVE Rests
  <2>1. plan[k] \in Units
    BY <1>3, SimulationAssumption DEF BuildUnit, IInv, MainInv, MainTypes
  <2>2. accepted[plan[k]] = {}
    BY <1>3, <2>1 DEF BuildUnit, IInv, MainInv, Untouched, Early
  <2> QED
    BY <1>3, <2>1, <2>2, LaunchRests DEF BuildUnit, IInv
<1>4. ASSUME BuildCutShort PROVE Rests
  <2>1. PICK d \in Disruptions : CutShort(plan[k], d, owned = <<>>)
    BY <1>4 DEF BuildCutShort
  <2>2. plan[k] \in Units
    BY <1>4, SimulationAssumption DEF BuildCutShort, IInv, MainInv, MainTypes
  <2>3. accepted[plan[k]] = {}
    BY <1>4, <2>2 DEF BuildCutShort, IInv, MainInv, Untouched, Early
  <2> QED
    BY <2>1, <2>2, <2>3, CutShortRests
<1>5. ASSUME PutStep PROVE UnitEffect
  <2>1. PICK u \in Targets : Put(u, Head(todo).work)
    BY <1>5 DEF PutStep
  <2>2. u \in Units
    BY OwnedUnits DEF Targets, IInv, MainInv
  <2>3. Head(todo).work \in Works /\ Head(todo).work \notin accepted[u]
    <3>1. 1 \in DOMAIN todo /\ Head(todo) = todo[1]
      BY <1>5 DEF PutStep, IInv, MainInv, MainTypes
    <3> QED
      BY <1>5, <2>2, <3>1 DEF PutStep, IInv, MainInv, Fresh
  <2> QED
    BY <2>1, <2>2, <2>3, PutAccepts DEF UnitEffect
<1>6. ASSUME \/ Built \/ StartMonitor \/ MonitorFails \/ MonitorStarted \/ Draw \/ DrawRaises
             \/ LoopEnds \/ UnknownNode \/ NextId
             \/ AllWaited \/ AskMonitor \/ MonitorJoined \/ AllStopped
      PROVE  Rests
  BY <1>2, <1>6 DEF Built, StartMonitor, MonitorFails, MonitorStarted, Draw, DrawRaises, LoopEnds,
         UnknownNode, NextId, AllWaited, AskMonitor, MonitorJoined, JoinHelper, AllStopped
<1>7. Interrupt => Rests
  BY <1>1 DEF Interrupt
<1>8. Rests => UnitEffect
  BY DEF UnitEffect
<1> QED
  BY <1>3, <1>4, <1>5, <1>6, <1>7, <1>8 DEF SimulationNext, MainStep

\* The steps of a session.
LEMMA SessionEffects ==
  ASSUME IInv, program = "game", SessionNext
  PROVE  UnitEffect
<1>1. UNCHANGED <<works, crews, stopped>> => Rests
  BY DEF works, crews, Rests, IInv, UnitInv, UnitTypes
<1>2. UNCHANGED units => Rests
  BY <1>1 DEF units, works, crews
<1>3. ASSUME LoadNode PROVE Rests
  <2>1. saved[k] \in Units
    BY <1>3 DEF LoadNode, IInv, MainInv, MainTypes
  <2>2. accepted[saved[k]] = {}
    BY <1>3, <2>1 DEF LoadNode, IInv, MainInv, Untouched, Early
  <2> QED
    BY <1>3, <2>1, <2>2, LaunchRests DEF LoadNode, IInv
<1>4. ASSUME NEW u \in Units, PlaceNode(u) PROVE Rests
  <2>1. accepted[u] = {}
    BY <1>4, OwnedUnits DEF PlaceNode, IInv, MainInv, Untouched
  <2> QED
    BY <1>4, <2>1, LaunchRests DEF PlaceNode, IInv
<1>5. ASSUME RunJob PROVE UnitEffect
  <2>1. CASE serving = {}
    BY <1>2, <1>5, <2>1 DEF RunJob, UnitEffect
  <2>2. CASE serving # {}
    <3>1. PICK i \in DOMAIN owned : Put(owned[i], <<id, 0, TRUE>>)
      BY <1>5, <2>2 DEF RunJob
    <3>2. owned[i] \in Units
      BY OwnedUnits DEF IInv, MainInv
    <3>3. <<id, 0, TRUE>> \in Works
      <4>1. id \in 1 .. MaxJobs /\ 0 \in 0 .. MaxSteps
        BY <1>5, ProcessAssumption DEF RunJob, IInv, MainInv, MainTypes, Fresh
      <4> QED
        BY <4>1 DEF Works
    <3>4. <<id, 0, TRUE>> \notin accepted[owned[i]]
      <4> SUFFICES ASSUME <<id, 0, TRUE>> \in accepted[owned[i]] PROVE FALSE
        OBVIOUS
      <4>1. <<id, 0, TRUE>>[1] < id
        BY <3>2 DEF IInv, MainInv, Fresh
      <4> QED
        BY <4>1 DEF IInv, MainInv, MainTypes
    <3> QED
      BY <3>1, <3>2, <3>3, <3>4, PutAccepts DEF UnitEffect
  <2> QED
    BY <2>1, <2>2
<1>6. SessionStep => LoadNode \/ RunJob \/ AwaitSleeps \/ UNCHANGED units
  BY DEF SessionStep, Loaded, StartAutosave, OpenShell, JobRaises, AwaitReturns, RunEnds, Flushed,
         NoAutosave, AutosaveJoined, JoinHelper, NodesWaited, NodesStopped, Quiet
<1>7. Command => UNCHANGED units \/ \E u \in Units : PlaceNode(u)
  BY DEF Command, Enter, Leave, Cancel, BuyServer, Edit, Exit, UnbalancedQuote, AddNode, Commit,
         SetRole, RunWorkload, Quiet
<1>8. LoadFails \/ AutosaveFails \/ FlushFails \/ LoadInterrupted \/ GiveUpInterrupted
        => UNCHANGED units
  BY DEF LoadFails, AutosaveFails, FlushFails, LoadInterrupted, GiveUpInterrupted
<1>9. AwaitSleeps \/ CommandInterrupted \/ ShutdownInterrupted => Rests
  BY <1>1 DEF AwaitSleeps, CommandInterrupted, ShutdownInterrupted
<1>10. ASSUME LoadCutShort PROVE Rests
  <2>1. PICK d \in Disruptions : CutShort(saved[k], d, TRUE)
    BY <1>10 DEF LoadCutShort
  <2>2. saved[k] \in Units
    BY <1>10 DEF LoadCutShort, IInv, MainInv, MainTypes
  <2>3. accepted[saved[k]] = {}
    BY <1>10, <2>2 DEF LoadCutShort, IInv, MainInv, Untouched, Early
  <2> QED
    BY <2>1, <2>2, <2>3, CutShortRests
<1>11. ASSUME NEW u \in Units, PlaceCutShort(u) PROVE Rests
  <2>1. PICK d \in Disruptions : CutShort(u, d, TRUE)
    BY <1>11 DEF PlaceCutShort
  <2>2. accepted[u] = {}
    BY <1>11, OwnedUnits DEF PlaceCutShort, IInv, MainInv, Untouched
  <2> QED
    BY <2>1, <2>2, CutShortRests
<1> QED
  BY <1>2, <1>3, <1>4, <1>5, <1>6, <1>7, <1>8, <1>9, <1>10, <1>11 DEF SessionNext, UnitEffect

\* Whatever the programs do to the units is one of the movements of works that
\* UnitEffect lists, or nothing.
LEMMA Effects ==
  ASSUME IInv, [Next]_vars
  PROVE  UnitEffect
<1>1. UNCHANGED units => Rests
  BY DEF units, Rests, IInv, UnitInv, UnitTypes
<1>2. Shared => UnitEffect
  BY WorkerEffects, LoopEffects DEF Shared, Background, UnitEffect, IInv
<1>3. Simulate => UnitEffect
  BY SimulationEffects DEF Simulate
<1>4. Play => UnitEffect
  BY SessionEffects DEF Play
<1>5. UNCHANGED vars => UNCHANGED units
  BY DEF vars, processVars, units
<1> QED
  BY <1>1, <1>2, <1>3, <1>4, <1>5 DEF Next, Over, UnitEffect
-----------------------------------------------------------------------------
(* The units keep to the contract of a Node                                *)

Keeps(u) ==
  \/ UNCHANGED <<pool[u], current[u], worked[u], failed[u], stopped[u], accepted[u]>>
  \/ [Contract(u)!Next]_(Contract(u)!vars)

\* The status that the contract sees, before and after a step.
LEMMA StatusCases ==
  ASSUME NEW u, NEW w \in Works
  PROVE  /\ w \in current[u] => Status(u)[w] = "running"
         /\ w \notin current[u] /\ w \in failed[u] => Status(u)[w] = "failed"
         /\ w \notin current[u] \cup failed[u] /\ w \in worked[u] => Status(u)[w] = "completed"
         /\ w \notin current[u] \cup Recorded(u) /\ Contains(pool[u], w) => Status(u)[w] = "queued"
         /\ w \notin current[u] \cup Recorded(u) /\ ~Contains(pool[u], w) => Status(u)[w] = "new"
         /\ w \in current'[u] => Status(u)'[w] = "running"
         /\ w \notin current'[u] /\ w \in failed'[u] => Status(u)'[w] = "failed"
         /\ w \notin current'[u] \cup failed'[u] /\ w \in worked'[u] => Status(u)'[w] = "completed"
         /\ w \notin current'[u] \cup worked'[u] \cup failed'[u] /\ Contains(pool'[u], w)
              => Status(u)'[w] = "queued"
         /\ w \notin current'[u] \cup worked'[u] \cup failed'[u] /\ ~Contains(pool'[u], w)
              => Status(u)'[w] = "new"
BY DEF Status, Recorded

\* One status changes, and the others stay.
LEMMA StatusChanges ==
  ASSUME NEW u, NEW w \in Works, NEW s, Status(u)'[w] = s,
         \A v \in Works \ {w} : Status(u)'[v] = Status(u)[v]
  PROVE  Status(u)' = [Status(u) EXCEPT ![w] = s]
<1>1. /\ Status(u) = [v \in Works |-> Status(u)[v]]
      /\ Status(u)' = [v \in Works |-> Status(u)'[v]]
  BY DEF Status
<1> QED
  BY <1>1

\* A work that a step moves neither into a set nor out of it keeps its status.
LEMMA StatusStays ==
  ASSUME NEW u, NEW w \in Works,
         w \in current'[u] <=> w \in current[u], w \in failed'[u] <=> w \in failed[u],
         w \in worked'[u] <=> w \in worked[u], Contains(pool'[u], w) <=> Contains(pool[u], w)
  PROVE  Status(u)'[w] = Status(u)[w]
BY DEF Status

\* put is Accept.
LEMMA AcceptRefines ==
  ASSUME UnitInv, NEW u \in Units, NEW w \in Works, PutsNew(u, w), NEW v \in Units
  PROVE  Keeps(v)
<1>1. CASE v # u
  BY <1>1 DEF PutsNew, Keeps, UnitInv, UnitTypes
<1>2. CASE v = u
  <2>1. /\ pool'[u] = Append(pool[u], w) /\ accepted'[u] = accepted[u] \cup {w} /\ ~stopped[u]
        /\ UNCHANGED <<current, worked, failed, stopped>>
        /\ w \notin current[u] \cup Recorded(u) /\ ~Contains(pool[u], w) /\ w \notin accepted[u]
    BY DEF PutsNew, UnitInv, UnitTypes, Accounted
  <2>2. \A y : Contains(pool'[u], y) <=> Contains(pool[u], y) \/ y = w
    BY <2>1, AppendMembers DEF UnitInv, UnitTypes
  <2>3. Status(u)[w] = "new" /\ Status(u)'[w] = "queued"
    BY <2>1, <2>2, StatusCases DEF Recorded
  <2>4. Status(u)' = [Status(u) EXCEPT ![w] = "queued"]
    <3>1. \A x \in Works \ {w} : Status(u)'[x] = Status(u)[x]
      BY <2>1, <2>2, StatusStays
    <3> QED
      BY <2>3, <3>1, StatusChanges
  <2>5. [x \in Works |-> IF x \in accepted[u] THEN "its own" ELSE "none"]'
          = [[x \in Works |-> IF x \in accepted[u] THEN "its own" ELSE "none"]
               EXCEPT ![w] = "its own"]
    BY <2>1
  <2>6. Contract(u)!Accept(w)
    BY <2>1, <2>3, <2>4, <2>5 DEF Contract!Accept
  <2> QED
    BY <1>2, <2>6 DEF Contract!Next, Keeps
<1> QED
  BY <1>1, <1>2

\* Taking the head of the pool is Begin.
LEMMA TakeRefines ==
  ASSUME UnitInv, NEW u \in Units, NEW t \in Crew[u], Takes(u, t), NEW v \in Units
  PROVE  Keeps(v)
<1>0. PICK w : w = Head(pool[u])
  OBVIOUS
<1>1. CASE v # u
  BY <1>1 DEF Takes, Keeps, UnitInv, UnitTypes
<1>2. CASE v = u
  <2>1. /\ pool[u] # <<>> /\ pool'[u] = Tail(pool[u]) /\ current'[u] = current[u] \cup {w}
        /\ UNCHANGED <<worked, failed, accepted, stopped>>
    BY <1>0 DEF Takes, UnitInv, UnitTypes
  <2>2. /\ w \in Works /\ Contains(pool[u], w) /\ ~Contains(pool'[u], w)
        /\ \A y : Contains(pool[u], y) <=> y = w \/ Contains(pool'[u], y)
    BY <1>0, <2>1, TailMembers DEF UnitInv, UnitTypes, Accounted
  <2>3. w \notin current[u] \cup Recorded(u) /\ w \in accepted[u]
    BY <2>2 DEF UnitInv, Accounted
  <2>4. Status(u)[w] = "queued" /\ Status(u)'[w] = "running"
    BY <2>1, <2>2, <2>3, StatusCases
  <2>5. Status(u)' = [Status(u) EXCEPT ![w] = "running"]
    BY <2>1, <2>2, <2>4, StatusStays, StatusChanges
  <2>6. Contract(u)!Begin(w)
    BY <1>0, <2>1, <2>2, <2>3, <2>4, <2>5 DEF Contract!Begin
  <2> QED
    BY <1>2, <2>2, <2>6 DEF Contract!Next, Keeps
<1> QED
  BY <1>1, <1>2

\* Laying a work down is Finish.
LEMMA LaysDownRefines ==
  ASSUME UnitInv, NEW u \in Units, NEW t \in Crew[u],
         Succeeds(u, t) \/ FailsAtOnce(u, t) \/ Discards(u, t), NEW v \in Units
  PROVE  Keeps(v)
<1>1. PICK w \in current[u] : held[t] = {w} /\ (w \in failed[u] <=> place[t] = "failing")
  BY DEF Succeeds, FailsAtOnce, Discards, UnitInv, InHand
<1>2. CASE v # u
  BY <1>2 DEF Succeeds, FailsAtOnce, Discards, Keeps, UnitInv, UnitTypes
<1>3. CASE v = u
  <2>1. /\ w \in Works /\ current'[u] = current[u] \ {w}
        /\ \/ w \notin failed[u] /\ worked'[u] = worked[u] \cup {w} /\ failed'[u] = failed[u]
           \/ failed'[u] = failed[u] \cup {w} /\ worked'[u] = worked[u]
           \/ w \in failed[u] /\ failed'[u] = failed[u] /\ worked'[u] = worked[u]
        /\ UNCHANGED <<pool, accepted, stopped>>
    BY <1>1 DEF Succeeds, FailsAtOnce, Discards, UnitInv, UnitTypes
  <2>2. Status(u)[w] = "running"
    BY <1>1, <2>1, StatusCases
  <2>3. PICK o \in {"completed", "failed"} : Status(u)'[w] = o
    BY <2>1, StatusCases
  <2>4. Status(u)' = [Status(u) EXCEPT ![w] = o]
    BY <2>1, <2>3, StatusStays, StatusChanges
  <2>5. Contract(u)!Finish(w, o) /\ o \in Contract(u)!Outcomes
    BY <2>1, <2>2, <2>4 DEF Contract!Finish, Contract!Outcomes
  <2> QED
    BY <1>3, <2>1, <2>5 DEF Contract!Next, Keeps
<1> QED
  BY <1>2, <1>3

\* A failure that is recorded before the work is discarded shows in nothing.
LEMMA RecordRefines ==
  ASSUME UnitInv, NEW u \in Units, NEW t \in Crew[u], RecordsFailure(u, t), NEW v \in Units
  PROVE  Keeps(v)
<1>1. PICK w \in current[u] : held[t] = {w}
  BY DEF RecordsFailure, UnitInv, InHand
<1>2. CASE v # u
  BY <1>2 DEF RecordsFailure, Keeps, UnitInv, UnitTypes
<1>3. CASE v = u
  <2>1. /\ w \in Works /\ failed'[u] = failed[u] \cup {w}
        /\ UNCHANGED <<pool, current, worked, accepted, stopped>>
    BY <1>1 DEF RecordsFailure, UnitInv, UnitTypes
  <2>2. Status(u)[w] = "running" /\ Status(u)'[w] = "running"
    BY <1>1, <2>1, StatusCases
  <2>3. Status(u)' = Status(u)
    <3>1. \A x \in Works : Status(u)'[x] = Status(u)[x]
      BY <2>1, <2>2, StatusStays
    <3>2. /\ Status(u) = [x \in Works |-> Status(u)[x]]
          /\ Status(u)' = [x \in Works |-> Status(u)'[x]]
      BY DEF Status
    <3> QED
      BY <3>1, <3>2
  <2> QED
    BY <1>3, <2>1, <2>3 DEF Keeps, Contract!vars
<1> QED
  BY <1>2, <1>3

\* What a resting step shows of a unit is at most that it is stopped.
LEMMA RestRefines ==
  ASSUME UnitInv, Rests, NEW v \in Units
  PROVE  Keeps(v)
<1>1. CASE stopped'[v] = stopped[v]
  BY <1>1 DEF Rests, Keeps
<1>2. CASE stopped'[v] # stopped[v]
  <2>1. stopped'[v] = TRUE /\ UNCHANGED <<pool, current, worked, failed, accepted>>
    BY <1>2 DEF Rests, UnitInv, UnitTypes
  <2>2. Status(v)' = Status(v)
    BY <2>1 DEF Status
  <2>3. Contract(v)!Stop
    BY <2>1, <2>2 DEF Contract!Stop
  <2> QED
    BY <2>3 DEF Contract!Next, Keeps
<1> QED
  BY <1>1, <1>2

\* Each of these movements is a step of the contract of every unit.
LEMMA UnitsRefine ==
  ASSUME UnitInv, UnitEffect
  PROVE  UnitsStep
<1> SUFFICES ASSUME NEW v \in Units PROVE Keeps(v)
  BY DEF UnitsStep, Keeps
<1> QED
  BY AcceptRefines, TakeRefines, LaysDownRefines, RecordRefines, RestRefines
  DEF UnitEffect, AtWork, Executes

-----------------------------------------------------------------------------
(* The main thread                                                         *)

\* The programs begin in the invariant.
LEMMA IInvInit == Init => IInv
<1> SUFFICES ASSUME Init PROVE IInv
  OBVIOUS
<1>1. UnitInv
  <2>1. UnitTypes
    BY DEF Init, ProcessInit, UnitTypes, WorkerPlaces
  <2>2. \A u \in Units : Accounted(u)
    BY EmptyMembers DEF Init, ProcessInit, Accounted, Recorded
  <2>3. \A u \in Units : InHand(u)
    BY OneCrew DEF Init, ProcessInit, InHand
  <2> QED
    BY <2>1, <2>2, <2>3 DEF UnitInv
<1>2. MainTypes
  BY SessionAssumption, ProcessAssumption
  DEF Init, ProcessInit, SimulationInit, SessionInit, MainTypes
<1>3. Untouched /\ Fresh /\ Waited /\ AtHome
  BY DEF Init, ProcessInit, SessionInit, Untouched, Fresh, Waited, AtHome, InGame, InLoop
<1>4. Stopping /\ Helped
  BY OneCrew DEF Init, ProcessInit, Stopping, Helped
<1> QED
  BY <1>1, <1>2, <1>3, <1>4 DEF IInv, MainInv

\* What the constructor of the simulation knows after a unit more: a node may
\* have taken the place of another.
LEMMA KnownUnits ==
  ASSUME MainTypes, NEW u \in Units
  PROVE  /\ Known(u) \in Seq(Units)
         /\ \/ Known(u) = Append(owned, u)
            \/ Len(Known(u)) = Len(owned)
<1>1. CASE {i \in DOMAIN owned : Ids[owned[i]] = Ids[u]} = {}
  BY <1>1 DEF Known, MainTypes
<1>2. CASE {i \in DOMAIN owned : Ids[owned[i]] = Ids[u]} # {}
  <2>1. PICK j \in DOMAIN owned : Known(u) = [owned EXCEPT ![j] = u]
    BY <1>2 DEF Known
  <2> QED
    BY <2>1 DEF MainTypes
<1> QED
  BY <1>1, <1>2

\* Each program does only its own steps, at its own places.
LEMMA HomeStep ==
  ASSUME IInv, [Next]_vars
  PROVE  AtHome'
<1>1. AtHome /\ program' = program
  BY DEF IInv, MainInv, Next, Shared, Simulate, Play, Over, vars
<1>2. Shared => AtHome'
  BY <1>1 DEF Shared, Background, Worker, HelperEnds, HelperDies, WaitSleeps, WaitReturns, StopUnit,
              JoinUnit, main, AtHome, InGame, InLoop
<1>3. Simulate => AtHome'
  BY <1>1 DEF Simulate, SimulationNext, MainStep, BuildUnit, Built, StartMonitor,
      MonitorStarted, Draw, DrawRaises, LoopEnds, PutStep, UnknownNode, NextId, AllWaited,
      AskMonitor, MonitorJoined, JoinHelper, AllStopped, BuildCutShort, MonitorFails, Interrupt,
      AfterInterrupt, Finally, Goto, main, AtHome, InGame, InLoop
<1>4. Play => AtHome'
  BY <1>1 DEF Play, SessionNext, SessionStep, Command, LoadNode, Loaded, StartAutosave,
      OpenShell, RunJob, JobRaises, AwaitSleeps, AwaitReturns, RunEnds, Flushed, NoAutosave,
      AutosaveJoined, JoinHelper, NodesWaited, NodesStopped, Enter, Leave, Cancel, BuyServer,
      Edit, Exit, UnbalancedQuote, AddNode, Commit, PlaceNode, SetRole, RunWorkload, LoadFails,
      AutosaveFails, FlushFails, LoadCutShort, LoadInterrupted, GiveUpInterrupted,
      PlaceCutShort, CommandInterrupted, ShutdownInterrupted, StopAll, Goto, main, Prompts,
      AtHome, InGame, InLoop
<1>5. UNCHANGED vars => AtHome'
  BY <1>1 DEF vars, processVars, AtHome
<1> QED
  BY <1>2, <1>3, <1>4, <1>5 DEF Next, Over

\* A lookup comes to profiles of the first two lists of the file.
LEMMA ListedProfiles ==
  ASSUME MainTypes, NEW profile \in WorkCandidates(file, kind)
  PROVE  profile \in ToSet(file.profiles) \cup ToSet(file.infrastructure_profiles)
<1> DEFINE a == file.profiles
           b == file.infrastructure_profiles
<1>1. a \in Seq(ToSet(a)) /\ b \in Seq(ToSet(b))
  BY ProcessAssumption DEF MainTypes
<1>2. profile \in ToSet(a \o b)
  BY DEF WorkCandidates, Candidates, ToSet
<1> HIDE DEF a, b
<1>3. PICK i \in DOMAIN (a \o b) : profile = (a \o b)[i]
  BY <1>2 DEF ToSet
<1>4. profile \in ToSet(a) \cup ToSet(b)
  <2>1. /\ DOMAIN (a \o b) = 1 .. Len(a) + Len(b) /\ Len(a) \in Nat /\ Len(b) \in Nat
        /\ DOMAIN a = 1 .. Len(a) /\ DOMAIN b = 1 .. Len(b)
    BY <1>1
  <2>2. CASE i <= Len(a)
    BY <1>1, <1>3, <2>1, <2>2 DEF ToSet
  <2>3. CASE i > Len(a)
    <3>1. i - Len(a) \in DOMAIN b /\ profile = b[i - Len(a)]
      BY <1>1, <1>3, <2>1, <2>3
    <3> QED
      BY <3>1 DEF ToSet
  <2> QED
    BY <1>3, <2>1, <2>2, <2>3
<1> QED
  BY <1>4 DEF a, b

\* A draw gives works that are no other's: their ids are the next, and no two
\* are the same step.
LEMMA DrawnWorks ==
  ASSUME MainTypes, id <= MaxJobs, NEW profile \in WorkCandidates(file, kind),
         NEW works_, works_ = WorksOf(profile)
  PROVE  /\ works_ \in Seq(ToSet(works_))
         /\ \A i \in DOMAIN works_ : works_[i].work \in Works /\ works_[i].work[1] = id
         /\ \A i, j \in DOMAIN works_ : i # j => works_[i].work # works_[j].work
<1>1. id \in 1 .. MaxJobs
  BY ProcessAssumption DEF MainTypes
<1>2. profile \in ToSet(file.profiles) \cup ToSet(file.infrastructure_profiles)
  BY ListedProfiles
<1>3. PICK n \in 0 .. MaxSteps : DOMAIN StepsOf(profile) = 1 .. n
  <2>1. CASE "steps" \in DOMAIN profile
    <3>1. profile.steps \in Seq(ToSet(profile.steps)) /\ Len(profile.steps) <= MaxSteps
      BY <1>2, <2>1, ProcessAssumption DEF MainTypes
    <3> QED
      BY <2>1, <3>1, ProcessAssumption DEF StepsOf
  <2>2. CASE "steps" \notin DOMAIN profile
    <3>1. DOMAIN StepsOf(profile) = 1 .. 1
      BY <2>2 DEF StepsOf
    <3> QED
      BY <3>1, ProcessAssumption
  <2> QED
    BY <2>1, <2>2
<1>4. /\ \E m \in Nat : DOMAIN works_ = 1 .. m
      /\ \A i \in DOMAIN works_ : works_[i].work \in Works /\ works_[i].work[1] = id
      /\ \A i, j \in DOMAIN works_ : i # j => works_[i].work # works_[j].work
      /\ works_ = [i \in DOMAIN works_ |-> works_[i]]
  <2>1. CASE Infrastructure \/ "steps" \notin DOMAIN profile
    <3>1. works_ = [i \in 1 .. n |->
              [node |-> StepsOf(profile)[i].node,
               work |-> <<id, i, plan[1] \in Classic => Sound(StepsOf(profile)[i])>>]]
      BY <1>3, <2>1 DEF WorksOf
    <3>2. \A i \in 1 .. n : works_[i].work
                               = <<id, i, plan[1] \in Classic => Sound(StepsOf(profile)[i])>>
      BY <3>1
    <3>3. ASSUME NEW i \in 1 .. n PROVE works_[i].work \in Works
      <4>1. PICK able \in BOOLEAN : able = (plan[1] \in Classic => Sound(StepsOf(profile)[i]))
        BY DEF Sound
      <4>2. i \in 0 .. MaxSteps
        BY <1>3, ProcessAssumption
      <4>3. works_[i].work = <<id, i, able>>
        BY <3>2, <4>1
      <4>4. <<id, i, TRUE>> \in Works /\ <<id, i, FALSE>> \in Works
        BY <1>1, <4>2 DEF Works
      <4>5. able = TRUE \/ able = FALSE
        BY <4>1
      <4> QED
        BY <4>3, <4>4, <4>5
    <3>4. \A i \in 1 .. n : works_[i].work[1] = id /\ works_[i].work[2] = i
      BY <3>2
    <3>5. n \in Nat /\ DOMAIN works_ = 1 .. n
      BY <3>1, <1>3, ProcessAssumption
    <3>6. works_ = [i \in DOMAIN works_ |-> works_[i]]
      BY <3>1
    <3>7. \A i, j \in DOMAIN works_ : i # j => works_[i].work # works_[j].work
      BY <3>4, <3>5
    <3> QED
      BY <3>3, <3>4, <3>5, <3>6, <3>7
  <2>2. CASE ~(Infrastructure \/ "steps" \notin DOMAIN profile)
    <3>1. PICK r : r = [node |-> Nowhere, work |-> <<id, 0, FALSE>>] /\ works_ = <<r>>
      BY <2>2 DEF WorksOf
    <3>2. <<id, 0, FALSE>> \in Works
      <4>1. 0 \in 0 .. MaxSteps
        BY ProcessAssumption
      <4> QED
        BY <1>1, <4>1 DEF Works
    <3>3. /\ DOMAIN works_ = 1 .. 1 /\ works_[1] = r
          /\ works_ = [i \in DOMAIN works_ |-> works_[i]]
      BY <3>1
    <3>4. works_[1].work = <<id, 0, FALSE>>
      <4>1. r.work = <<id, 0, FALSE>>
        <5>1. r = [node |-> Nowhere, work |-> <<id, 0, FALSE>>]
          BY <3>1
        <5> QED
          BY <5>1
      <4> QED
        BY <3>3, <4>1
    <3>5. works_[1].work[1] = id
      BY <3>4
    <3>6. \A i \in DOMAIN works_ : i = 1
      BY <3>3
    <3> QED
      BY <3>2, <3>3, <3>4, <3>5, <3>6
  <2> QED
    BY <2>1, <2>2
<1>5. works_ \in Seq(ToSet(works_))
  <2>1. \A i \in DOMAIN works_ : works_[i] \in ToSet(works_)
    BY DEF ToSet
  <2> QED
    BY <1>4, <2>1
<1> QED
  BY <1>4, <1>5

\* The program learns of a unit when it starts it, or replaces one of its id.
LEMMA OwnedSteps ==
  ASSUME IInv, [Next]_vars
  PROVE  \/ owned' = owned
         \/ \E u \in Units : /\ owned' = Append(owned, u) /\ Launch(u) /\ accepted[u] = {}
                            /\ holes' = holes /\ pc' \in {"build", "load", "top"}
         \/ owned' \in Seq(Units) /\ holes' # {} /\ pc = "build" /\ pc' = "build"
<1> DEFINE Grows == \E u \in Units : /\ owned' = Append(owned, u) /\ Launch(u) /\ accepted[u] = {}
                                    /\ holes' = holes /\ pc' \in {"build", "load", "top"}
           Replaces == owned' \in Seq(Units) /\ holes' # {} /\ pc = "build" /\ pc' = "build"
<1>1. ASSUME BuildUnit PROVE Grows \/ Replaces
  <2>1. PICK u \in Units : u = plan[k] /\ Launch(u) /\ owned' = Known(u) /\ pc = "build" /\ pc' = pc
    BY <1>1, SimulationAssumption DEF BuildUnit, IInv, MainInv, MainTypes, AtHome, InLoop, InGame
  <2>2. accepted[u] = {}
    BY <2>1 DEF IInv, MainInv, Untouched, Early
  <2>3. CASE Len(owned') = Len(owned)
    BY <1>1, <2>1, <2>3, KnownUnits DEF BuildUnit, IInv, MainInv
  <2>4. CASE Len(owned') # Len(owned)
    BY <1>1, <2>1, <2>2, <2>4, KnownUnits DEF BuildUnit, IInv, MainInv
  <2> QED
    BY <2>3, <2>4
<1>2. ASSUME LoadNode PROVE Grows
  <2>1. PICK u \in Units : u = saved[k] /\ Launch(u) /\ owned' = Append(owned, u)
                            /\ pc = "load" /\ pc' = pc /\ holes' = holes
    BY <1>2 DEF LoadNode, IInv, MainInv, MainTypes
  <2> QED
    BY <2>1 DEF IInv, MainInv, Untouched, Early
<1>3. ASSUME NEW u \in Units, PlaceNode(u) PROVE Grows
  <2>1. accepted[u] = {}
    BY <1>3, OwnedUnits DEF PlaceNode, IInv, MainInv, Untouched
  <2> QED
    BY <1>3, <2>1 DEF PlaceNode, Goto
<1> HIDE DEF Grows, Replaces
<1>4. Shared => owned' = owned
  BY
  DEF Shared, Background, Worker, HelperEnds, HelperDies, WaitSleeps, WaitReturns, StopUnit,
      JoinUnit
<1>5. Simulate => owned' = owned \/ BuildUnit
  BY
  DEF Simulate, SimulationNext, MainStep, Built, StartMonitor, MonitorStarted, Draw, DrawRaises,
      LoopEnds, PutStep, UnknownNode, NextId, AllWaited, AskMonitor, MonitorJoined, JoinHelper,
      AllStopped, BuildCutShort, MonitorFails, Interrupt
<1>6. Play => owned' = owned \/ LoadNode \/ \E u \in Units : PlaceNode(u)
  BY
  DEF Play, SessionNext, SessionStep, Command, Loaded, StartAutosave, OpenShell, RunJob, JobRaises,
      AwaitSleeps, AwaitReturns, RunEnds, Flushed, NoAutosave, AutosaveJoined, JoinHelper,
      NodesWaited, NodesStopped, Enter, Leave, Cancel, BuyServer, Edit, Exit, UnbalancedQuote,
      AddNode, Commit, SetRole, RunWorkload, LoadFails, AutosaveFails, FlushFails,
      LoadCutShort, LoadInterrupted, GiveUpInterrupted, PlaceCutShort, CommandInterrupted,
      ShutdownInterrupted, Quiet
<1>7. UNCHANGED vars => owned' = owned
  BY DEF vars, processVars
<1> QED
  BY <1>1, <1>2, <1>3, <1>4, <1>5, <1>6, <1>7 DEF Next, Over, Grows, Replaces

\* put goes to a unit that the program owns, from run_workload or put_work.
LEMMA AcceptedSteps ==
  ASSUME IInv, [Next]_vars
  PROVE  \/ accepted' = accepted
         \/ \E u \in Units : \E w \in Works :
              /\ PutsNew(u, w) /\ Contains(owned, u) /\ owned' = owned
              /\ \/ /\ program = "simulation" /\ PutStep /\ pc = "put" /\ pc' = "put" /\ id' = id
                    /\ todo # <<>> /\ w = Head(todo).work /\ todo' = Tail(todo)
                 \/ program = "game" /\ pc = "draw" /\ pc' = "await" /\ w[1] = id /\ id' = id + 1
<1> DEFINE Puts(u, w) == PutsNew(u, w) /\ Contains(owned, u) /\ owned' = owned
<1>1. ASSUME program = "simulation", PutStep
      PROVE  \E u \in Units : \E w \in Works :
               /\ Puts(u, w) /\ pc = "put" /\ pc' = "put" /\ id' = id
               /\ todo # <<>> /\ w = Head(todo).work /\ todo' = Tail(todo)
  <2>1. PICK u \in Targets : Put(u, Head(todo).work)
    BY <1>1 DEF PutStep
  <2>2. u \in Units /\ Contains(owned, u)
    BY OwnedUnits DEF Targets, IInv, MainInv
  <2>3. PICK w \in Works : w = Head(todo).work /\ w \notin accepted[u]
    <3>1. 1 \in DOMAIN todo /\ Head(todo) = todo[1]
      BY <1>1 DEF PutStep, IInv, MainInv, MainTypes
    <3> QED
      BY <1>1, <2>2, <3>1 DEF PutStep, IInv, MainInv, Fresh
  <2>4. Puts(u, w)
    BY <1>1, <2>1, <2>2, <2>3, PutAccepts DEF PutStep
  <2> QED
    BY <1>1, <2>2, <2>3, <2>4 DEF PutStep, main, draws
<1>2. ASSUME program = "game", RunJob, accepted' # accepted
      PROVE  \E u \in Units : \E w \in Works :
               Puts(u, w) /\ pc = "draw" /\ pc' = "await" /\ w[1] = id /\ id' = id + 1
  <2>1. PICK i \in DOMAIN owned : Put(owned[i], <<id, 0, TRUE>>)
    BY <1>2 DEF RunJob, units
  <2>2. PICK u \in Units : u = owned[i] /\ Contains(owned, u)
    BY OwnedUnits DEF IInv, MainInv
  <2>3. PICK w : w = <<id, 0, TRUE>>
    OBVIOUS
  <2>4. w \in Works /\ w[1] = id
    <3>1. id \in 1 .. MaxJobs /\ 0 \in 0 .. MaxSteps
      BY <1>2, ProcessAssumption DEF RunJob, IInv, MainInv, MainTypes, Fresh
    <3> QED
      BY <2>3, <3>1 DEF Works
  <2>5. w \notin accepted[u]
    BY <1>2, <2>4 DEF IInv, MainInv, MainTypes, Fresh
  <2>6. Puts(u, w)
    BY <1>2, <2>1, <2>2, <2>3, <2>4, <2>5, PutAccepts DEF RunJob
  <2> QED
    BY <1>2, <2>4, <2>6 DEF RunJob, units
<1>3. Shared => accepted' = accepted
  BY
  DEF Shared, Background, Worker, HelperEnds, HelperDies, WaitSleeps, WaitReturns, StopUnit,
      JoinUnit, Sleeps, Leaves, Takes, Executes, Succeeds, FailsAtOnce, RecordsFailure,
      Discards, units, works
<1>4. Simulate => accepted' = accepted \/ PutStep
  BY CutShortKeeps
  DEF Simulate, SimulationNext, MainStep, BuildUnit, Built, StartMonitor, MonitorStarted, Draw,
      DrawRaises, LoopEnds, UnknownNode, NextId, AllWaited, AskMonitor, MonitorJoined,
      JoinHelper, AllStopped, BuildCutShort, MonitorFails, Interrupt, Launch, units, works
<1>5. Play => accepted' = accepted \/ RunJob
  BY CutShortKeeps
  DEF Play, SessionNext, SessionStep, Command, LoadNode, Loaded, StartAutosave, OpenShell,
      JobRaises, AwaitSleeps, AwaitReturns, RunEnds, Flushed, NoAutosave, AutosaveJoined,
      JoinHelper, NodesWaited, NodesStopped, Enter, Leave, Cancel, BuyServer, Edit, Exit,
      UnbalancedQuote, AddNode, Commit, PlaceNode, SetRole, RunWorkload, LoadFails,
      AutosaveFails, FlushFails, LoadCutShort, LoadInterrupted, GiveUpInterrupted,
      PlaceCutShort, CommandInterrupted, ShutdownInterrupted, Launch, Quiet, units, works
<1>6. UNCHANGED vars => accepted' = accepted
  BY DEF vars, processVars
<1>7. CASE program = "simulation" /\ PutStep
  BY <1>1, <1>7
<1>8. CASE program = "game" /\ RunJob /\ accepted' # accepted
  BY <1>2, <1>8
<1> QED
  BY <1>3, <1>4, <1>5, <1>6, <1>7, <1>8 DEF Next, Over, Simulate, Play

\* The types of what the main thread keeps.
LEMMA MainTypesStep ==
  ASSUME IInv, [Next]_vars
  PROVE  MainTypes'
<1>1. /\ MainTypes /\ AtHome /\ Fresh
      /\ UNCHANGED <<saved, program, plan, file>>
  BY DEF IInv, MainInv, Next, Shared, Simulate, Play, Over, vars, processVars, sessionVars,
      Background, Worker, HelperEnds, HelperDies, WaitSleeps, WaitReturns, StopUnit, JoinUnit,
      main, draws, SimulationNext, MainStep, BuildUnit, Built, StartMonitor, MonitorStarted,
      Draw, DrawRaises, LoopEnds, PutStep, UnknownNode, NextId, AllWaited, AskMonitor,
      MonitorJoined, JoinHelper, AllStopped, BuildCutShort, MonitorFails, Interrupt,
      AfterInterrupt, Finally, Goto, SessionNext, SessionStep, Command, LoadNode, Loaded,
      StartAutosave, OpenShell, RunJob, JobRaises, AwaitSleeps, AwaitReturns, RunEnds, Flushed,
      NoAutosave, AutosaveJoined, NodesWaited, NodesStopped, Enter, Leave, Cancel, BuyServer,
      Edit, Exit, UnbalancedQuote, AddNode, Commit, PlaceNode, SetRole, RunWorkload, LoadFails,
      AutosaveFails, FlushFails, LoadCutShort, LoadInterrupted, GiveUpInterrupted,
      PlaceCutShort, CommandInterrupted, ShutdownInterrupted, StopAll, Quiet, game, sessionVars,
      simulationVars
<1>2. owned' \in Seq(Units)
  <2>1. \A u \in Units : Append(owned, u) \in Seq(Units)
    BY <1>1 DEF MainTypes
  <2> QED
    BY <1>1, <2>1, OwnedSteps DEF MainTypes
<1>3. k' \in Nat \ {0} /\ helper' \in {"none", "running", "asked", "ended"}
  <2>1. Shared => k' \in {k, k + 1} /\ helper' \in {helper, "ended"}
    BY
    DEF Shared, Background, Worker, HelperEnds, HelperDies, WaitSleeps, WaitReturns, StopUnit,
        JoinUnit, main, draws
  <2>2. Simulate => k' \in {k, k + 1, 1} /\ helper' \in {helper, "running", "asked"}
    BY
    DEF Simulate, SimulationNext, MainStep, BuildUnit, Built, StartMonitor, MonitorStarted, Draw,
        DrawRaises, LoopEnds, PutStep, UnknownNode, NextId, AllWaited, AskMonitor, MonitorJoined,
        JoinHelper, AllStopped, BuildCutShort, MonitorFails, Interrupt, AfterInterrupt, Finally,
        Goto, main, AskHelper
  <2>3. Play => k' \in {k, k + 1, 1} \cup DOMAIN owned /\ helper' \in {helper, "running", "asked"}
    BY
    DEF Play, SessionNext, SessionStep, Command, LoadNode, Loaded, StartAutosave, OpenShell, RunJob,
        JobRaises, AwaitSleeps, AwaitReturns, RunEnds, Flushed, NoAutosave, AutosaveJoined,
        JoinHelper, NodesWaited, NodesStopped, Enter, Leave, Cancel, BuyServer, Edit, Exit,
        UnbalancedQuote, AddNode, Commit, PlaceNode, SetRole, RunWorkload, LoadFails,
        AutosaveFails, FlushFails, LoadCutShort, LoadInterrupted, GiveUpInterrupted,
        PlaceCutShort, CommandInterrupted, ShutdownInterrupted,
        StopAll, Quiet, Goto, main, game, draws, sessionVars, AskHelper
  <2>4. UNCHANGED vars => k' = k /\ helper' = helper
    BY DEF vars, processVars
  <2>5. \A i \in DOMAIN owned : i \in Nat \ {0}
    BY <1>1 DEF MainTypes
  <2>6. k \in Nat \ {0} /\ helper \in {"none", "running", "asked", "ended"}
    BY <1>1 DEF MainTypes
  <2> QED
    BY <2>1, <2>2, <2>3, <2>4, <2>5, <2>6 DEF Next, Over
<1>4. id' \in 1 .. MaxJobs + 1 /\ jobs' \in Nat
  <2>1. Shared => id' = id /\ jobs' = jobs
    BY
    DEF Shared, Background, Worker, HelperEnds, HelperDies, WaitSleeps, WaitReturns, StopUnit,
        JoinUnit, main, draws, sessionVars
  <2>2. Simulate => jobs' = jobs /\ (id' = id \/ (id' = id + 1 /\ pc = "put"))
    <3>1. NextId => id' = id + 1 /\ pc = "put"
      BY DEF NextId
    <3>2. SimulationNext => id' = id \/ NextId
      BY
      DEF SimulationNext, MainStep, BuildUnit, Built, StartMonitor, MonitorStarted, Draw,
          DrawRaises, LoopEnds, PutStep, UnknownNode, AllWaited, AskMonitor, MonitorJoined,
          JoinHelper, AllStopped, BuildCutShort, MonitorFails, Interrupt, draws
    <3> QED
      BY <3>1, <3>2 DEF Simulate, sessionVars
  <2>3. Play => \/ id' = id /\ jobs' \in {jobs, 0} \cup 1 .. MaxJobs
                \/ id' = id /\ jobs' = jobs - 1 /\ pc = "await"
                \/ id' = id + 1 /\ pc = "draw" /\ jobs > 0 /\ jobs' \in {0, jobs - 1, jobs}
    <3>1. RunJob \/ JobRaises => id' = id + 1 /\ pc = "draw" /\ jobs > 0 /\ jobs' \in {0, jobs - 1, jobs}
      BY DEF RunJob, JobRaises
    <3>2. AwaitReturns => id' = id /\ jobs' = jobs - 1 /\ pc = "await"
      BY DEF AwaitReturns, draws
    <3>3. ASSUME NEW n \in 1 .. MaxJobs, RunWorkload(n) PROVE id' = id /\ jobs' \in 1 .. MaxJobs
      BY <3>3 DEF RunWorkload
    <3>4. CommandInterrupted => id' = id /\ jobs' = 0
      BY DEF CommandInterrupted
    <3>5. SessionNext => \/ id' = id /\ jobs' = jobs
                        \/ RunJob \/ JobRaises \/ AwaitReturns \/ CommandInterrupted
                        \/ \E n \in 1 .. MaxJobs : RunWorkload(n)
      BY
      DEF SessionNext, SessionStep, Command, LoadNode, Loaded, StartAutosave, OpenShell,
          AwaitSleeps, RunEnds, Flushed, NoAutosave, AutosaveJoined, JoinHelper, NodesWaited,
          NodesStopped, Enter, Leave, Cancel, BuyServer, Edit, Exit, UnbalancedQuote, AddNode,
          Commit, PlaceNode, SetRole, LoadFails, AutosaveFails, FlushFails, LoadCutShort,
          LoadInterrupted, GiveUpInterrupted, PlaceCutShort, ShutdownInterrupted, StopAll,
          Quiet, game, draws, sessionVars
    <3> QED
      BY <3>1, <3>2, <3>3, <3>4, <3>5 DEF Play
  <2>4. UNCHANGED vars => id' = id /\ jobs' = jobs
    BY DEF vars, processVars, sessionVars
  <2>5. /\ id \in 1 .. MaxJobs + 1 /\ jobs \in Nat /\ MaxJobs \in Nat
        /\ pc = "put" => id <= MaxJobs
        /\ pc = "draw" /\ jobs > 0 => id <= MaxJobs
        /\ pc = "await" => jobs > 0
    BY <1>1, ProcessAssumption DEF MainTypes, Fresh
  <2> QED
    BY <2>1, <2>2, <2>3, <2>4, <2>5 DEF Next, Over
<1>5. todo' \in Seq(ToSet(todo'))
  <2>1. CASE todo' = todo
    BY <1>1, <2>1 DEF MainTypes
  <2>2. ASSUME Draw PROVE todo' \in Seq(ToSet(todo'))
    BY <1>1, <2>2, DrawnWorks, ProcessAssumption DEF Draw
  <2>3. ASSUME PutStep PROVE todo' \in Seq(ToSet(todo'))
    <3>1. Tail(todo) \in Seq(ToSet(todo))
      BY <1>1, <2>3 DEF PutStep, MainTypes
    <3> QED
      BY <2>3, <3>1, SetOfMembers DEF PutStep
  <2>4. Shared \/ Play => todo' = todo
    BY DEF Shared, Play, simulationVars
  <2>5. Simulate => todo' = todo \/ Draw \/ PutStep
    BY
    DEF Simulate, SimulationNext, MainStep, BuildUnit, Built, StartMonitor, MonitorStarted,
        DrawRaises, LoopEnds, UnknownNode, NextId, AllWaited, AskMonitor, MonitorJoined,
        JoinHelper, AllStopped, BuildCutShort, MonitorFails, Interrupt, simulationVars
  <2>6. UNCHANGED vars => todo' = todo
    BY DEF vars, simulationVars
  <2> QED
    BY <2>1, <2>2, <2>3, <2>4, <2>5, <2>6 DEF Next, Over
<1> QED
  BY <1>1, <1>2, <1>3, <1>4, <1>5 DEF MainTypes

\* Nothing is put before the units are there, and later into known units only.
LEMMA UntouchedStep ==
  ASSUME IInv, [Next]_vars
  PROVE  Untouched'
<1>1. Untouched
  BY DEF IInv, MainInv
<1>2. pc' \in Early => pc \in Early
  <2>1. Shared => (pc' \in Early => pc \in Early)
    BY
    DEF Shared, Background, Worker, HelperEnds, HelperDies, WaitSleeps, WaitReturns, StopUnit,
        JoinUnit, main, draws, Early
  <2>2. Simulate => (pc' \in Early => pc \in Early)
    BY
    DEF Simulate, SimulationNext, MainStep, BuildUnit, Built, StartMonitor, MonitorStarted, Draw,
        DrawRaises, LoopEnds, PutStep, UnknownNode, NextId, AllWaited, AskMonitor, MonitorJoined,
        JoinHelper, AllStopped, BuildCutShort, MonitorFails, Interrupt, AfterInterrupt, Finally,
        Goto, main, Early
  <2>3. Play => (pc' \in Early => pc \in Early)
    BY
    DEF Play, SessionNext, SessionStep, Command, LoadNode, Loaded, StartAutosave, OpenShell, RunJob,
        JobRaises, AwaitSleeps, AwaitReturns, RunEnds, Flushed, NoAutosave, AutosaveJoined,
        JoinHelper, NodesWaited, NodesStopped, Enter, Leave, Cancel, BuyServer, Edit, Exit,
        UnbalancedQuote, AddNode, Commit, PlaceNode, SetRole, RunWorkload, LoadFails,
        AutosaveFails, FlushFails, LoadCutShort, LoadInterrupted, GiveUpInterrupted,
        PlaceCutShort, CommandInterrupted, ShutdownInterrupted,
        StopAll, Quiet, Goto, main, game, draws, sessionVars, Prompts, Early
  <2>4. UNCHANGED vars => pc' = pc
    BY DEF vars, processVars
  <2> QED
    BY <2>1, <2>2, <2>3, <2>4 DEF Next, Over
<1>3. pc' \in Early => \A u \in Units : accepted'[u] = {}
  BY <1>1, <1>2, AcceptedSteps DEF Untouched, Early
<1>4. \A u \in Units : accepted[u] # {} => Contains(owned', u) \/ pc' \in Early
  <2>1. \A u \in Units : \A v : Contains(Append(owned, u), v) <=> Contains(owned, v) \/ v = u
    BY AppendMembers DEF IInv, MainInv, MainTypes
  <2> QED
    BY <1>1, <2>1, OwnedSteps DEF Untouched, Early
<1>5. \A u \in Units : accepted'[u] # {} => accepted[u] # {} \/ Contains(owned', u)
  BY AcceptedSteps DEF PutsNew, IInv, UnitInv, UnitTypes
<1> QED
  BY <1>3, <1>4, <1>5 DEF Untouched

\* How the main thread comes to where works are put, ...
LEMMA PutPlace ==
  ASSUME IInv, [Next]_vars, pc' = "put"
  PROVE  \/ Draw
         \/ PutStep
         \/ pc = "put" /\ UNCHANGED <<todo, id, accepted>>
<1>1. ASSUME Shared PROVE UNCHANGED <<pc, todo, id>>
  BY <1>1
  DEF Shared, Background, Worker, HelperEnds, HelperDies, WaitSleeps, WaitReturns, StopUnit,
      JoinUnit, main, draws, simulationVars
<1>2. ASSUME SimulationNext PROVE \/ Draw
                                  \/ PutStep
                                  \/ UNCHANGED <<pc, todo, id>>
  BY <1>2
  DEF SimulationNext, MainStep, BuildUnit, Built, StartMonitor, MonitorStarted, DrawRaises,
      LoopEnds, UnknownNode, NextId, AllWaited, AskMonitor, MonitorJoined, JoinHelper,
      AllStopped, BuildCutShort, MonitorFails, Interrupt, AfterInterrupt, Finally, Goto, main,
      draws, simulationVars
<1>3. ASSUME Play PROVE pc' # "put"
  <2>1. program = "game"
    BY <1>3 DEF Play
  <2> QED
    BY <1>3, <2>1, HomeStep DEF AtHome, InLoop, Play
<1>4. UNCHANGED vars => UNCHANGED <<pc, todo, id>>
  BY DEF vars, processVars, simulationVars
<1> QED
  BY <1>1, <1>2, <1>3, <1>4, AcceptedSteps DEF Next, Over, Simulate

\* ... to where they are drawn, ...
LEMMA LoopPlace ==
  ASSUME IInv, [Next]_vars, pc' = "loop"
  PROVE  /\ accepted' = accepted
         /\ \/ pc = "loop" /\ id' = id
            \/ pc = "flag"
            \/ pc = "put" /\ id' = id + 1
<1>1. Shared => UNCHANGED <<pc, id>>
  BY
  DEF Shared, Background, Worker, HelperEnds, HelperDies, WaitSleeps, WaitReturns, StopUnit,
      JoinUnit, main, draws
<1>2. SimulationNext => \/ pc = "loop" /\ id' = id
                        \/ pc = "flag"
                        \/ pc = "put" /\ id' = id + 1
  BY
  DEF SimulationNext, MainStep, BuildUnit, Built, StartMonitor, MonitorStarted, Draw,
      DrawRaises, LoopEnds, PutStep, UnknownNode, NextId, AllWaited, AskMonitor, MonitorJoined,
      JoinHelper, AllStopped, BuildCutShort, MonitorFails, Interrupt, AfterInterrupt, Finally,
      Goto, main, draws
<1>3. ASSUME Play PROVE pc' # "loop"
  <2>1. program = "game"
    BY <1>3 DEF Play
  <2> QED
    BY <1>3, <2>1, HomeStep DEF AtHome, InLoop, Play
<1>4. UNCHANGED vars => UNCHANGED <<pc, id>>
  BY DEF vars, processVars
<1> QED
  BY <1>1, <1>2, <1>3, <1>4, AcceptedSteps DEF Next, Over, Simulate

\* ... and to where jobs are run.
LEMMA RunPlace ==
  ASSUME IInv, [Next]_vars, pc' \in {"draw", "await"}
  PROVE  \/ UNCHANGED <<pc, id, jobs>>
         \/ /\ pc' = "draw" /\ id' = id
            /\ \/ jobs' \in 1 .. MaxJobs /\ id + jobs' - 1 <= MaxJobs
               \/ pc = "await" /\ jobs' = jobs - 1
         \/ /\ pc = "draw" /\ jobs > 0 /\ id' = id + 1
            /\ \/ pc' = "draw" /\ jobs' = jobs - 1
               \/ pc' = "await" /\ jobs' = jobs
<1>1. Shared => UNCHANGED <<pc, id, jobs>>
  BY
  DEF Shared, Background, Worker, HelperEnds, HelperDies, WaitSleeps, WaitReturns, StopUnit,
      JoinUnit, main, draws, sessionVars
<1>2. ASSUME Simulate PROVE FALSE
  <2>1. program = "simulation"
    BY <1>2 DEF Simulate
  <2> QED
    BY <1>2, <2>1, HomeStep DEF AtHome, InGame, Simulate
<1>3. ASSUME NEW n \in 1 .. MaxJobs, RunWorkload(n)
      PROVE  jobs' \in 1 .. MaxJobs /\ id + jobs' - 1 <= MaxJobs /\ pc' = "draw" /\ id' = id
  BY <1>3 DEF RunWorkload, Goto
<1>4. AwaitReturns => pc = "await" /\ pc' = "draw" /\ jobs' = jobs - 1 /\ id' = id
  BY DEF AwaitReturns, Goto, draws
<1>5. RunJob => /\ pc = "draw" /\ jobs > 0 /\ id' = id + 1
                /\ \/ pc' = "draw" /\ jobs' = jobs - 1
                   \/ pc' = "await" /\ jobs' = jobs
  BY DEF RunJob
<1>6. SessionNext => \/ UNCHANGED <<pc, id, jobs>>
                     \/ RunJob
                     \/ AwaitReturns
                     \/ \E n \in 1 .. MaxJobs : RunWorkload(n)
  BY
  DEF SessionNext, SessionStep, Command, LoadNode, Loaded, StartAutosave, OpenShell, JobRaises,
      AwaitSleeps, RunEnds, Flushed, NoAutosave, AutosaveJoined, JoinHelper, NodesWaited,
      NodesStopped, Enter, Leave, Cancel, BuyServer, Edit, Exit, UnbalancedQuote, AddNode,
      Commit, PlaceNode, SetRole, LoadFails, AutosaveFails, FlushFails, LoadCutShort,
      LoadInterrupted, GiveUpInterrupted, PlaceCutShort,
      CommandInterrupted, ShutdownInterrupted, StopAll, Quiet, Goto, main, game, draws,
      sessionVars, Prompts
<1>7. UNCHANGED vars => UNCHANGED <<pc, id, jobs>>
  BY DEF vars, processVars, sessionVars
<1> QED
  BY <1>1, <1>2, <1>3, <1>4, <1>5, <1>6, <1>7 DEF Next, Over, Play

\* A work that a unit accepts in a step is the next of a draw, or of the next id.
LEMMA NewlyAccepted ==
  ASSUME IInv, [Next]_vars, NEW u \in Units, NEW w \in accepted'[u], w \notin accepted[u]
  PROVE  \/ program = "simulation" /\ w = Head(todo).work
         \/ program = "game" /\ w[1] = id /\ id' = id + 1
<1>1. PICK v \in Units, x \in Works :
        /\ PutsNew(v, x)
        /\ \/ program = "simulation" /\ x = Head(todo).work
           \/ program = "game" /\ x[1] = id /\ id' = id + 1
  BY AcceptedSteps
<1>2. w = x
  BY <1>1 DEF PutsNew, IInv, UnitInv, UnitTypes
<1> QED
  BY <1>1, <1>2

\* Ids are drawn one after the other.
LEMMA IdSteps ==
  ASSUME IInv, [Next]_vars
  PROVE  id' = id \/ id' = id + 1
<1>1. Shared => id' = id
  BY
  DEF Shared, Background, Worker, HelperEnds, HelperDies, WaitSleeps, WaitReturns, StopUnit,
      JoinUnit, main, draws
<1>2. SimulationNext => id' = id \/ id' = id + 1
  BY
  DEF SimulationNext, MainStep, BuildUnit, Built, StartMonitor, MonitorStarted, Draw,
      DrawRaises, LoopEnds, PutStep, UnknownNode, NextId, AllWaited, AskMonitor, MonitorJoined,
      JoinHelper, AllStopped, BuildCutShort, MonitorFails, Interrupt, AfterInterrupt, Finally,
      Goto, main, draws
<1>3. SessionNext => id' = id \/ id' = id + 1
  BY
  DEF SessionNext, SessionStep, Command, LoadNode, Loaded, StartAutosave, OpenShell, RunJob,
      JobRaises, AwaitSleeps, AwaitReturns, RunEnds, Flushed, NoAutosave, AutosaveJoined,
      JoinHelper, NodesWaited, NodesStopped, Enter, Leave, Cancel, BuyServer, Edit, Exit,
      UnbalancedQuote, AddNode, Commit, PlaceNode, SetRole, RunWorkload, LoadFails,
      AutosaveFails, FlushFails, LoadCutShort, LoadInterrupted, GiveUpInterrupted,
      PlaceCutShort, CommandInterrupted, ShutdownInterrupted, StopAll, Quiet, Goto, main, game,
      draws, sessionVars
<1>4. UNCHANGED vars => id' = id
  BY DEF vars, processVars
<1> QED
  BY <1>1, <1>2, <1>3, <1>4 DEF Next, Over, Simulate, Play

\* The works to come stay new, and there stay ids for them.
LEMMA FreshStep ==
  ASSUME IInv, [Next]_vars
  PROVE  Fresh'
<1>1. MainTypes /\ Untouched /\ Fresh /\ AtHome /\ AtHome' /\ MainTypes' /\ program' = program
  BY HomeStep, MainTypesStep DEF IInv, MainInv, Next, Shared, Simulate, Play, Over, vars
<1>2. \A u \in Units : \A w \in accepted[u] : w \in Works /\ w[1] \in Nat
  BY DEF IInv, UnitInv, UnitTypes, Works
<1>3. ASSUME Draw PROVE Fresh'
  <2>1. /\ pc = "loop" /\ id <= MaxJobs /\ pc' = "put" /\ id' = id /\ accepted' = accepted
        /\ program = "simulation"
    BY <1>1, <1>3 DEF Draw, Goto, draws, units, AtHome, InLoop
  <2>2. PICK profile \in WorkCandidates(file, kind) : todo' = WorksOf(profile)
    BY <1>3 DEF Draw
  <2>3. /\ \A i \in DOMAIN todo' : todo'[i].work \in Works /\ todo'[i].work[1] = id
        /\ \A i, j \in DOMAIN todo' : i # j => todo'[i].work # todo'[j].work
    BY <1>1, <2>1, <2>2, DrawnWorks
  <2>4. \A u \in Units : \A w \in accepted[u] : w[1] < id
    BY <1>1, <2>1 DEF Fresh
  <2>5. id \in Nat
    BY <1>1 DEF MainTypes
  <2>6. \A i \in DOMAIN todo' : \A u \in Units : todo'[i].work \notin accepted[u]
    BY <2>3, <2>4, <2>5
  <2>7. \A u \in Units : \A w \in accepted[u] : w[1] <= id
    BY <1>2, <2>4, <2>5
  <2> QED
    BY <1>1, <2>1, <2>3, <2>6, <2>7 DEF Fresh
<1>4. ASSUME PutStep PROVE Fresh'
  <2>1. pc = "put" /\ pc' = "put" /\ id' = id /\ program = "simulation" /\ todo # <<>> /\ todo' = Tail(todo)
    BY <1>1, <1>4 DEF PutStep, main, draws, AtHome, InLoop
  <2>2. /\ \A u \in Units : \A w \in accepted'[u] : w \in accepted[u] \/ w = todo[1].work
        /\ 1 \in DOMAIN todo
    <3>1. 1 \in DOMAIN todo /\ Head(todo) = todo[1]
      BY <1>1, <2>1 DEF MainTypes
    <3> QED
      BY <2>1, <3>1, NewlyAccepted
  <2>3. \A i \in DOMAIN todo' : i + 1 \in DOMAIN todo /\ todo'[i] = todo[i + 1] /\ i + 1 # 1
    BY <1>1, <2>1 DEF MainTypes
  <2>4. /\ id <= MaxJobs /\ \A u \in Units : \A w \in accepted[u] : w[1] <= id
        /\ \A i \in DOMAIN todo :
             /\ todo[i].work \in Works /\ todo[i].work[1] = id
             /\ \A u \in Units : todo[i].work \notin accepted[u]
        /\ \A i, j \in DOMAIN todo : i # j => todo[i].work # todo[j].work
    BY <1>1, <2>1 DEF Fresh
  <2>5. \A u \in Units : \A w \in accepted'[u] : w[1] <= id'
    BY <1>1, <2>1, <2>2, <2>4 DEF MainTypes
  <2>6. \A i \in DOMAIN todo' :
          /\ todo'[i].work \in Works /\ todo'[i].work[1] = id'
          /\ \A u \in Units : todo'[i].work \notin accepted'[u]
    BY <2>1, <2>2, <2>3, <2>4
  <2>7. \A i, j \in DOMAIN todo' : i # j => todo'[i].work # todo'[j].work
    <3> SUFFICES ASSUME NEW i \in DOMAIN todo', NEW j \in DOMAIN todo', i # j
                 PROVE  todo'[i].work # todo'[j].work
      OBVIOUS
    <3>1. i \in Nat /\ j \in Nat
      BY <1>1 DEF MainTypes
    <3>2. i + 1 # j + 1
      BY <3>1
    <3> QED
      BY <2>3, <2>4, <3>2
  <2> QED
    BY <1>1, <2>1, <2>4, <2>5, <2>6, <2>7 DEF Fresh
<1>5. ASSUME ~Draw, ~PutStep PROVE Fresh'
  <2>1. pc' = "put" => pc = "put" /\ UNCHANGED <<todo, id, accepted>>
    BY <1>5, PutPlace
  <2>2. ASSUME program' = "game" \/ pc' = "loop", NEW u \in Units, NEW w \in accepted'[u] PROVE w[1] < id'
    <3>1. CASE pc' = "loop"
      <4>1. accepted' = accepted
        BY <3>1, LoopPlace
      <4>2. CASE pc = "loop" /\ id' = id
        BY <1>1, <2>2, <4>1, <4>2 DEF Fresh
      <4>3. CASE pc = "flag"
        BY <1>1, <2>2, <4>1, <4>3 DEF Untouched, Early
      <4>4. CASE pc = "put" /\ id' = id + 1
        BY <1>1, <1>2, <2>2, <4>1, <4>4 DEF Fresh, MainTypes
      <4> QED
        BY <3>1, <4>2, <4>3, <4>4, LoopPlace
    <3>2. CASE program = "game"
      <4>1. \A v \in accepted[u] : v[1] < id /\ v[1] \in Nat
        BY <1>1, <1>2, <3>2 DEF Fresh
      <4>2. id \in Nat /\ (id' = id \/ id' = id + 1)
        BY <1>1, <3>2, IdSteps DEF MainTypes
      <4>3. CASE w \in accepted[u]
        BY <4>1, <4>2, <4>3
      <4>4. CASE w \notin accepted[u]
        <5>1. w[1] = id /\ id' = id + 1
          BY <2>2, <3>2, <4>4, NewlyAccepted
        <5> QED
          BY <4>2, <5>1
      <4> QED
        BY <4>3, <4>4
    <3> QED
      BY <1>1, <2>2, <3>1, <3>2
  <2>3. ASSUME pc' \in {"draw", "await"}
        PROVE  /\ pc' = "draw" => id' + jobs' <= MaxJobs + 1
               /\ pc' = "await" => jobs' > 0 /\ id' + jobs' <= MaxJobs + 2
    <3>1. /\ id \in Nat /\ jobs \in Nat /\ MaxJobs \in Nat
          /\ pc = "draw" => id + jobs <= MaxJobs + 1
          /\ pc = "await" => jobs > 0 /\ id + jobs <= MaxJobs + 2
      BY <1>1, ProcessAssumption DEF MainTypes, Fresh
    <3> QED
      BY <2>3, <3>1, RunPlace
  <2> QED
    BY <1>1, <2>1, <2>2, <2>3 DEF Fresh
<1> QED
  BY <1>3, <1>4, <1>5

\* A unit with nothing to do gets nothing to do while nothing is put.
LEMMA IdleStays ==
  ASSUME UnitInv, UnitEffect, NEW u \in Units, ~Busy(u), accepted' = accepted
  PROVE  ~Busy(u)'
<1>1. CASE Rests
  BY <1>1 DEF Rests, Busy
<1>2. ASSUME NEW v \in Units, NEW w \in Works, PutsNew(v, w) PROVE FALSE
  BY <1>2 DEF PutsNew, UnitInv, UnitTypes
<1>3. ASSUME NEW v \in Units, NEW t \in Crew[v], AtWork(v, t)
      PROVE  pool'[u] = <<>> /\ current'[u] = {}
  BY <1>3 DEF AtWork, Executes, Takes, Succeeds, FailsAtOnce, RecordsFailure, Discards, Busy,
              UnitInv, UnitTypes
<1> QED
  BY <1>1, <1>2, <1>3 DEF UnitEffect, Busy

\* How the main thread comes to where it waits, and how far it is then.
LEMMA WaitPlace ==
  ASSUME IInv, [Next]_vars, pc' = "wait"
  PROVE  /\ \/ k' = 1
            \/ pc = "wait" /\ k' = k
            \/ WaitReturns
         /\ UNCHANGED <<owned, accepted>>
<1>1. Shared => \/ pc = "wait" /\ k' = k
                \/ WaitReturns
  BY
  DEF Shared, Background, Worker, HelperEnds, HelperDies, WaitSleeps, StopUnit, JoinUnit, main,
      draws
<1>2. SimulationNext => k' = 1
  BY
  DEF SimulationNext, MainStep, BuildUnit, Built, StartMonitor, MonitorStarted, Draw,
      DrawRaises, LoopEnds, PutStep, UnknownNode, NextId, AllWaited, AskMonitor, MonitorJoined,
      JoinHelper, AllStopped, BuildCutShort, MonitorFails, Interrupt, AfterInterrupt, Finally,
      Goto, main
<1>3. SessionNext => \/ k' = 1
                     \/ pc = "wait" /\ k' = k
  BY
  DEF SessionNext, SessionStep, Command, LoadNode, Loaded, StartAutosave, OpenShell, RunJob,
      JobRaises, AwaitSleeps, AwaitReturns, RunEnds, Flushed, NoAutosave, AutosaveJoined,
      JoinHelper, NodesWaited, NodesStopped, Enter, Leave, Cancel, BuyServer, Edit, Exit,
      UnbalancedQuote, AddNode, Commit, PlaceNode, SetRole, RunWorkload, LoadFails,
      AutosaveFails, FlushFails, LoadCutShort, LoadInterrupted, GiveUpInterrupted,
      PlaceCutShort, CommandInterrupted, ShutdownInterrupted, StopAll, Quiet, Goto, main, game,
      draws, sessionVars, Prompts
<1>4. UNCHANGED vars => UNCHANGED <<pc, k>>
  BY DEF vars, processVars
<1>5. UNCHANGED <<owned, accepted>>
  BY AcceptedSteps, OwnedSteps
<1> QED
  BY <1>1, <1>2, <1>3, <1>4, <1>5 DEF Next, Over, Simulate, Play

\* The units that are waited for stay idle, and one more when the wait returns.
LEMMA WaitedStep ==
  ASSUME IInv, [Next]_vars
  PROVE  Waited'
<1> SUFFICES ASSUME pc' = "wait", NEW i \in 1 .. k' - 1
             PROVE  i \in DOMAIN owned /\ ~Busy(owned[i])'
  BY WaitPlace DEF Waited
<1>1. MainTypes /\ Waited /\ UnitInv /\ UnitEffect /\ UNCHANGED <<owned, accepted>>
  BY Effects, WaitPlace DEF IInv, MainInv
<1>2. CASE pc = "wait" /\ i \in 1 .. k - 1
  <2>1. i \in DOMAIN owned /\ ~Busy(owned[i]) /\ owned[i] \in Units
    BY <1>1, <1>2, OwnedUnits DEF Waited
  <2> QED
    BY <1>1, <2>1, IdleStays
<1>3. CASE WaitReturns /\ i = k
  <2>1. i \in DOMAIN owned /\ ~Busy(owned[i]) /\ owned[i] \in Units
    BY <1>1, <1>3, OwnedUnits DEF WaitReturns, AtUnit, Here, MainTypes
  <2> QED
    BY <1>1, <2>1, IdleStays
<1>4. \/ pc = "wait" /\ i \in 1 .. k - 1
      \/ WaitReturns /\ i = k
  <2>1. k \in Nat
    BY <1>1 DEF MainTypes
  <2>2. k' # 1
    OBVIOUS
  <2>3. WaitReturns => k' = k + 1 /\ pc = "wait"
    BY DEF WaitReturns
  <2> QED
    BY <2>1, <2>2, <2>3, WaitPlace
<1> QED
  BY <1>2, <1>3, <1>4

\* What is out of hand stays so.
LEMMA HolesGrow ==
  ASSUME [Next]_vars
  PROVE  holes \subseteq holes'
<1>1. Shared => holes' = holes
  BY
  DEF Shared, Background, Worker, HelperEnds, HelperDies, WaitSleeps, WaitReturns, StopUnit,
      JoinUnit, main, draws
<1>2. SimulationNext => holes \subseteq holes'
  BY CutShortKeeps
  DEF SimulationNext, MainStep, BuildUnit, Built, StartMonitor, MonitorStarted, Draw,
      DrawRaises, LoopEnds, PutStep, UnknownNode, NextId, AllWaited, AskMonitor, MonitorJoined,
      JoinHelper, AllStopped, BuildCutShort, MonitorFails, Interrupt, AfterInterrupt, Finally,
      Goto, main
<1>3. SessionNext => holes \subseteq holes'
  BY CutShortKeeps
  DEF SessionNext, SessionStep, Command, LoadNode, Loaded, StartAutosave, OpenShell, RunJob,
      JobRaises, AwaitSleeps, AwaitReturns, RunEnds, Flushed, NoAutosave, AutosaveJoined,
      JoinHelper, NodesWaited, NodesStopped, Enter, Leave, Cancel, BuyServer, Edit, Exit,
      UnbalancedQuote, AddNode, Commit, PlaceNode, SetRole, RunWorkload, LoadFails,
      AutosaveFails, FlushFails, LoadCutShort, LoadInterrupted, GiveUpInterrupted,
      PlaceCutShort, CommandInterrupted, ShutdownInterrupted, StopAll, Quiet, Goto, main, game,
      draws, sessionVars
<1>4. UNCHANGED vars => holes' = holes
  BY DEF vars, processVars
<1> QED
  BY <1>1, <1>2, <1>3, <1>4 DEF Next, Over, Simulate, Play

\* Threads change place by what they do, or because their unit is started.
LEMMA PlaceSteps ==
  ASSUME IInv, [Next]_vars, holes' = {}, NEW u \in Units, NEW t \in Crew[u],
         place'[t] # place[t]
  PROVE  \/ Worker(u, t)
         \/ Contains(owned', u) /\ pc' \in {"build", "load", "top"}
<1>1. ASSUME NEW v \in Units, NEW s \in Crew[v], Worker(v, s)
      PROVE  place'[t] = place[t] \/ (v = u /\ s = t)
  BY <1>1, OneCrew DEF Worker, Sleeps, Leaves, Takes, Executes, Succeeds, FailsAtOnce, RecordsFailure,
                       Discards, crews, IInv, UnitInv, UnitTypes
<1>2. ASSUME NEW v \in Units, Launch(v), owned' = Append(owned, v)
      PROVE  place'[t] = place[t] \/ Contains(owned', u)
  <2>1. place'[t] = place[t] \/ v = u
    BY <1>2, OneCrew DEF Launch
  <2>2. Contains(Append(owned, v), v)
    BY AppendMembers DEF IInv, MainInv, MainTypes
  <2> QED
    BY <1>2, <2>1, <2>2
<1>3. \A v, d, alone : CutShort(v, d, alone) => place' = place
  BY CutShortLeavesNothing DEF IInv
<1>4. Shared => place' = place \/ \E v \in Units : \E s \in Crew[v] : Worker(v, s)
  BY
  DEF Shared, Background, HelperEnds, HelperDies, WaitSleeps, WaitReturns, StopUnit, JoinUnit,
      crews, units
<1>5. SimulationNext => place' = place \/ BuildUnit
  BY <1>3
  DEF SimulationNext, MainStep, Built, StartMonitor, MonitorStarted, Draw, DrawRaises, LoopEnds,
      PutStep, UnknownNode, NextId, AllWaited, AskMonitor, MonitorJoined, JoinHelper,
      AllStopped, BuildCutShort, MonitorFails, Interrupt, Put, crews, units
<1>6. SessionNext => place' = place \/ LoadNode \/ \E v \in Units : PlaceNode(v)
  BY <1>3
  DEF SessionNext, SessionStep, Command, Loaded, StartAutosave, OpenShell, RunJob, JobRaises,
      AwaitSleeps, AwaitReturns, RunEnds, Flushed, NoAutosave, AutosaveJoined, JoinHelper,
      NodesWaited, NodesStopped, Enter, Leave, Cancel, BuyServer, Edit, Exit, UnbalancedQuote,
      AddNode, Commit, SetRole, RunWorkload, LoadFails, AutosaveFails, FlushFails, LoadCutShort,
      LoadInterrupted, GiveUpInterrupted, PlaceCutShort, CommandInterrupted,
      ShutdownInterrupted, Put, Quiet, crews, units
<1>7. UNCHANGED vars => place' = place
  BY DEF vars, processVars
<1>8. ASSUME BuildUnit \/ LoadNode \/ \E v \in Units : PlaceNode(v)
      PROVE  \E v \in Units : /\ Launch(v) /\ owned' = Append(owned, v)
                              /\ pc' \in {"build", "load", "top"}
  <2>1. ASSUME BuildUnit
        PROVE  plan[k] \in Units /\ Launch(plan[k]) /\ owned' = Append(owned, plan[k]) /\ pc' = "build"
    <3>1. plan[k] \in Units
      BY <2>1, SimulationAssumption DEF BuildUnit, IInv, MainInv, MainTypes, AtHome, InLoop, InGame
    <3>2. Len(owned') # Len(owned)
      BY <2>1 DEF BuildUnit
    <3> QED
      BY <2>1, <3>1, <3>2, KnownUnits DEF BuildUnit, IInv, MainInv
  <2>2. ASSUME LoadNode
        PROVE  saved[k] \in Units /\ Launch(saved[k]) /\ owned' = Append(owned, saved[k]) /\ pc' = "load"
    BY <2>2 DEF LoadNode, IInv, MainInv, MainTypes
  <2>3. \A v \in Units : PlaceNode(v) => Launch(v) /\ owned' = Append(owned, v) /\ pc' = "top"
    BY DEF PlaceNode, Goto
  <2> QED
    BY <1>8, <2>1, <2>2, <2>3
<1> QED
  BY <1>1, <1>2, <1>4, <1>5, <1>6, <1>7, <1>8 DEF Next, Over, Simulate, Play

\* How the main thread comes to join a unit, ...
LEMMA JoinPlace ==
  ASSUME IInv, [Next]_vars, pc' = "join"
  PROVE  /\ owned' = owned
         /\ \/ StopUnit
            \/ pc = "join" /\ k' = k
<1>1. Shared => \/ StopUnit
                \/ pc = "join" /\ k' = k
  BY
  DEF Shared, Background, Worker, HelperEnds, HelperDies, WaitSleeps, WaitReturns, JoinUnit,
      main, draws
<1>2. SimulationNext => pc = "join" /\ k' = k
  BY
  DEF SimulationNext, MainStep, BuildUnit, Built, StartMonitor, MonitorStarted, Draw,
      DrawRaises, LoopEnds, PutStep, UnknownNode, NextId, AllWaited, AskMonitor, MonitorJoined,
      JoinHelper, AllStopped, BuildCutShort, MonitorFails, Interrupt, AfterInterrupt, Finally,
      Goto, main
<1>3. SessionNext => pc = "join" /\ k' = k
  BY
  DEF SessionNext, SessionStep, Command, LoadNode, Loaded, StartAutosave, OpenShell, RunJob,
      JobRaises, AwaitSleeps, AwaitReturns, RunEnds, Flushed, NoAutosave, AutosaveJoined,
      JoinHelper, NodesWaited, NodesStopped, Enter, Leave, Cancel, BuyServer, Edit, Exit,
      UnbalancedQuote, AddNode, Commit, PlaceNode, SetRole, RunWorkload, LoadFails,
      AutosaveFails, FlushFails, LoadCutShort, LoadInterrupted, GiveUpInterrupted,
      PlaceCutShort, CommandInterrupted, ShutdownInterrupted, StopAll, Quiet, Goto, main, game,
      draws, sessionVars, Prompts
<1>4. UNCHANGED vars => UNCHANGED <<pc, k>>
  BY DEF vars, processVars
<1> QED
  BY <1>1, <1>2, <1>3, <1>4, OwnedSteps DEF Next, Over, Simulate, Play

\* ... to stop the next one, ...
LEMMA StopPlace ==
  ASSUME IInv, [Next]_vars, pc' = "stop", holes' = {}
  PROVE  /\ owned' = owned
         /\ \/ k' = 1
            \/ pc = "stop" /\ k' = k
            \/ JoinUnit
<1>1. Shared => \/ pc = "stop" /\ k' = k
                \/ JoinUnit
  BY
  DEF Shared, Background, Worker, HelperEnds, HelperDies, WaitSleeps, WaitReturns, StopUnit,
      main, draws
<1>2. SimulationNext => \/ k' = 1
                        \/ pc = "stop" /\ k' = k
  BY
  DEF SimulationNext, MainStep, BuildUnit, Built, StartMonitor, MonitorStarted, Draw,
      DrawRaises, LoopEnds, PutStep, UnknownNode, NextId, AllWaited, AskMonitor, MonitorJoined,
      JoinHelper, AllStopped, BuildCutShort, MonitorFails, Interrupt, AfterInterrupt, Finally,
      Goto, main
<1>3. SessionNext => \/ k' = 1
                     \/ pc = "stop" /\ k' = k
  BY
  DEF SessionNext, SessionStep, Command, LoadNode, Loaded, StartAutosave, OpenShell, RunJob,
      JobRaises, AwaitSleeps, AwaitReturns, RunEnds, Flushed, NoAutosave, AutosaveJoined,
      JoinHelper, NodesWaited, NodesStopped, Enter, Leave, Cancel, BuyServer, Edit, Exit,
      UnbalancedQuote, AddNode, Commit, PlaceNode, SetRole, RunWorkload, LoadFails,
      AutosaveFails, FlushFails, LoadCutShort, LoadInterrupted, GiveUpInterrupted,
      PlaceCutShort, CommandInterrupted, ShutdownInterrupted, StopAll, Quiet, Goto, main, game,
      draws, sessionVars, Prompts
<1>4. UNCHANGED vars => UNCHANGED <<pc, k>>
  BY DEF vars, processVars
<1> QED
  BY <1>1, <1>2, <1>3, <1>4, OwnedSteps DEF Next, Over, Simulate, Play

\* ... and to the end.
LEMMA OverPlace ==
  ASSUME IInv, [Next]_vars, pc' = "over", holes' = {}
  PROVE  /\ owned' = owned
         /\ \/ pc = "over"
            \/ pc = "stop" /\ ~AtUnit
            \/ owned = <<>>
<1>1. Shared => pc = "over"
  BY
  DEF Shared, Background, Worker, HelperEnds, HelperDies, WaitSleeps, WaitReturns, StopUnit,
      JoinUnit, main, draws
<1>2. SimulationNext => \/ pc = "stop" /\ ~AtUnit
                        \/ owned = <<>>
  <2>1. BuildCutShort => owned = <<>>
    BY CutShortLeavesNothing DEF BuildCutShort, IInv
  <2>2. Interrupt => \/ pc = "stop" /\ ~AtUnit
                     \/ owned = <<>>
    <3>1. pc = "join" => AtUnit
      BY OwnedUnits DEF IInv, MainInv, MainTypes, Stopping, AtUnit
    <3> QED
      BY <3>1 DEF Interrupt, AfterInterrupt, HoleAt, Goto
  <2>3. SimulationNext => BuildCutShort \/ Interrupt \/ (pc = "stop" /\ ~AtUnit)
    BY
    DEF SimulationNext, MainStep, BuildUnit, Built, StartMonitor, MonitorStarted, Draw,
        DrawRaises, LoopEnds, PutStep, UnknownNode, NextId, AllWaited, AskMonitor, MonitorJoined,
        JoinHelper, AllStopped, MonitorFails, Finally, Goto, main
  <2> QED
    BY <2>1, <2>2, <2>3
<1>3. SessionNext => \/ pc = "stop" /\ ~AtUnit
                     \/ owned = <<>>
  BY
  DEF SessionNext, SessionStep, Command, LoadNode, Loaded, StartAutosave, OpenShell, RunJob,
      JobRaises, AwaitSleeps, AwaitReturns, RunEnds, Flushed, NoAutosave, AutosaveJoined,
      JoinHelper, NodesWaited, NodesStopped, Enter, Leave, Cancel, BuyServer, Edit, Exit,
      UnbalancedQuote, AddNode, Commit, PlaceNode, SetRole, RunWorkload, LoadFails,
      AutosaveFails, FlushFails, LoadCutShort, LoadInterrupted, GiveUpInterrupted,
      PlaceCutShort, CommandInterrupted, ShutdownInterrupted, StopAll, Quiet, BuildFirst, Goto,
      main, game, draws, sessionVars, Prompts
<1>4. UNCHANGED vars => UNCHANGED pc
  BY DEF vars, processVars
<1> QED
  BY <1>1, <1>2, <1>3, <1>4, OwnedSteps DEF Next, Over, Simulate, Play

\* A unit that is stopped and left by its threads stays so.
LEMMA GoneStays ==
  ASSUME IInv, [Next]_vars, holes' = {}, pc' \notin {"build", "load", "top"},
         NEW u \in Units, Gone(u)
  PROVE  Gone(u)'
<1>1. \A t \in Crew[u] : ~Worker(u, t)
  BY DEF Gone, Worker, Sleeps, Leaves, Takes, Executes, Succeeds, FailsAtOnce, RecordsFailure, Discards
<1>2. stopped'[u]
  BY Effects DEF UnitEffect, Rests, PutsNew, AtWork, Takes, Executes, Succeeds, FailsAtOnce,
                 RecordsFailure, Discards, Gone
<1> QED
  BY <1>1, <1>2, PlaceSteps DEF Gone

\* The loop over the units leaves none behind.
LEMMA StoppingStep ==
  ASSUME IInv, [Next]_vars
  PROVE  Stopping'
<1>1. MainTypes /\ Stopping
  BY DEF IInv, MainInv
<1>2. ASSUME pc' = "join" PROVE k' \in DOMAIN owned' /\ stopped'[owned'[k']]
  <2>1. CASE StopUnit
    BY <1>1, <1>2, <2>1, JoinPlace, OwnedUnits DEF StopUnit, AtUnit, Here, MainTypes, IInv, UnitInv, UnitTypes
  <2>2. CASE pc = "join" /\ k' = k
    <3>1. k \in DOMAIN owned /\ stopped[owned[k]] /\ owned[k] \in Units /\ owned' = owned
      BY <1>1, <1>2, <2>2, JoinPlace, OwnedUnits DEF Stopping
    <3>2. \A u \in Units : stopped[u] => stopped'[u]
      BY Effects DEF UnitEffect, Rests, PutsNew, AtWork, Takes, Executes, Succeeds, FailsAtOnce,
                     RecordsFailure, Discards
    <3> QED
      BY <2>2, <3>1, <3>2
  <2> QED
    BY <1>2, <2>1, <2>2, JoinPlace
<1>3. ASSUME holes' = {}, NEW u \in Units, ~Contains(owned', u), NEW t \in Crew[u]
      PROVE  place'[t] = "new"
  <2>1. holes = {}
    BY <1>3, HolesGrow
  <2>2. ~Contains(owned, u)
    <3>1. \A v \in Units : Contains(owned, u) => Contains(Append(owned, v), u)
      BY <1>1, AppendMembers DEF MainTypes
    <3> QED
      BY <1>3, <3>1, OwnedSteps
  <2>3. place[t] = "new"
    BY <1>1, <2>1, <2>2 DEF Stopping
  <2>4. ~Worker(u, t)
    BY <2>3 DEF Worker, Sleeps, Leaves, Takes, Executes, Succeeds, FailsAtOnce, RecordsFailure, Discards
  <2> QED
    BY <1>3, <2>3, <2>4, PlaceSteps
<1>4. ASSUME holes' = {}, pc' \in {"stop", "join"}, NEW i \in 1 .. k' - 1
      PROVE  i \in DOMAIN owned' /\ Gone(owned[i])'
  <2>1. owned' = owned /\ holes = {} /\ k \in Nat
    BY <1>1, <1>4, JoinPlace, StopPlace, HolesGrow DEF MainTypes
  <2>2. i \in DOMAIN owned /\ Gone(owned[i])
    <3>1. CASE pc \in {"stop", "join"} /\ i \in 1 .. k - 1
      BY <1>1, <2>1, <3>1 DEF Stopping
    <3>2. CASE JoinUnit /\ i = k
      BY <1>1, <2>1, <3>2 DEF Stopping, JoinUnit, Gone, Here
    <3>3. \/ pc \in {"stop", "join"} /\ i \in 1 .. k - 1
          \/ JoinUnit /\ i = k
      <4>1. k' # 1
        BY <1>4
      <4>2. CASE pc' = "stop"
        BY <1>4, <2>1, <4>1, <4>2, StopPlace DEF JoinUnit
      <4>3. CASE pc' = "join"
        BY <1>4, <2>1, <4>1, <4>3, JoinPlace DEF StopUnit
      <4> QED
        BY <1>4, <4>2, <4>3
    <3> QED
      BY <3>1, <3>2, <3>3
  <2>3. owned[i] \in Units
    BY <1>1, <2>2, OwnedUnits
  <2> QED
    BY <1>4, <2>1, <2>2, <2>3, GoneStays
<1>5. ASSUME holes' = {}, pc' = "over", NEW i \in DOMAIN owned'
      PROVE  Gone(owned[i])'
  <2>1. owned' = owned /\ holes = {} /\ i \in DOMAIN owned
    BY <1>5, OverPlace, HolesGrow
  <2>2. CASE pc = "stop" /\ ~AtUnit
    <3>1. i \in 1 .. k - 1
      BY <1>1, <2>1, <2>2, OwnedUnits DEF AtUnit, MainTypes
    <3>2. Gone(owned[i])
      BY <1>1, <2>1, <2>2, <3>1 DEF Stopping
    <3> QED
      BY <1>1, <1>5, <2>1, <3>2, OwnedUnits, GoneStays
  <2>3. CASE pc = "over"
    BY <1>1, <1>5, <2>1, <2>3, OwnedUnits, GoneStays DEF Stopping
  <2>4. owned # <<>>
    BY <2>1
  <2> QED
    BY <1>5, <2>2, <2>3, <2>4, OverPlace
<1> QED
  BY <1>2, <1>3, <1>4, <1>5 DEF Stopping

\* The other thread is told to end before the last unit is stopped.
LEMMA HelpedStep ==
  ASSUME IInv, [Next]_vars
  PROVE  Helped'
<1>1. Helped /\ Untouched /\ AtHome /\ AtHome' /\ program' = program /\ holes \subseteq holes'
  BY HomeStep, HolesGrow DEF IInv, MainInv, Next, Shared, Simulate, Play, Over, vars
<1>2. CASE Shared
  BY <1>1, <1>2
  DEF Shared, Background, Worker, HelperEnds, HelperDies, WaitSleeps, WaitReturns, StopUnit,
      JoinUnit, main, draws, sessionVars, Helped
<1>3. CASE Simulate
  BY <1>1, <1>3
  DEF Simulate, SimulationNext, MainStep, BuildUnit, Built, StartMonitor, MonitorStarted, Draw,
      DrawRaises, LoopEnds, PutStep, UnknownNode, NextId, AllWaited, AskMonitor, MonitorJoined,
      JoinHelper, AllStopped, BuildCutShort, MonitorFails, Interrupt, AfterInterrupt, Finally,
      Goto, main, HoleAt, AskHelper, Helped, AtHome, InLoop, InGame
<1>4. CASE Play
  BY <1>1, <1>4
  DEF Play, SessionNext, SessionStep, Command, LoadNode, Loaded, StartAutosave, OpenShell, RunJob,
      JobRaises, AwaitSleeps, AwaitReturns, RunEnds, Flushed, NoAutosave, AutosaveJoined,
      JoinHelper, NodesWaited, NodesStopped, Enter, Leave, Cancel, BuyServer, Edit, Exit,
      UnbalancedQuote, AddNode, Commit, PlaceNode, SetRole, RunWorkload, LoadFails,
      AutosaveFails, FlushFails, LoadCutShort, LoadInterrupted, GiveUpInterrupted,
      PlaceCutShort, CommandInterrupted, ShutdownInterrupted,
      StopAll, Quiet, Goto, main, game, draws, sessionVars, AskHelper, BuildFirst, Prompts,
      Helped, AtHome, InLoop, InGame
<1>5. CASE UNCHANGED vars
  BY <1>1, <1>5 DEF vars, processVars, sessionVars, Helped
<1> QED
  BY <1>2, <1>3, <1>4, <1>5 DEF Next, Over
-----------------------------------------------------------------------------
(* The results                                                             *)

\* The accounting of the units and the ways of the main thread hold for ever,
\* in both programs, whatever fails and is interrupted.
THEOREM Invariance == Spec => []IInv
<1>1. IInv /\ [Next]_vars => IInv'
  BY Effects, EffectKeeps, MainTypesStep, UntouchedStep, FreshStep, WaitedStep, HomeStep,
     StoppingStep, HelpedStep DEF IInv, MainInv
<1> QED
  BY <1>1, IInvInit, PTL DEF Spec

\* When wait_all has returned from a unit, each work put into it is recorded,
\* once, and none is between the two critical sections of a failure.
THEOREM WaitingRecords == Spec => []WaitedMeansRecorded
<1>1. ASSUME IInv, pc = "wait", NEW i \in 1 .. k - 1
      PROVE  /\ accepted[owned[i]] = worked[owned[i]] \cup failed[owned[i]]
             /\ worked[owned[i]] \cap failed[owned[i]] = {}
             /\ \A t \in Crew[owned[i]] : place[t] \notin {"running", "failing"}
  <2>1. PICK u \in Units : u = owned[i] /\ ~Busy(u)
    BY <1>1, OwnedUnits DEF IInv, MainInv, Waited
  <2>2. /\ current[u] = {} /\ \A w : ~Contains(pool[u], w)
        /\ Accounted(u) /\ InHand(u)
    BY <1>1, <2>1, EmptyMembers DEF Busy, IInv, UnitInv
  <2> QED
    BY <2>1, <2>2 DEF Accounted, Recorded, InHand
<1>2. IInv => WaitedMeansRecorded
  BY <1>1 DEF WaitedMeansRecorded
<1> QED
  BY <1>2, Invariance, PTL

\* Nodes and HardwareModules keep to the contract of a Node in both programs.
THEOREM UnitsAreNodes == Spec => UnitsKeepContract
<1>1. IInv /\ [Next]_vars => UnitsStep
  BY Effects, UnitsRefine DEF IInv
<1>2. Init => UnitsBegin
  <2> SUFFICES ASSUME Init, NEW u \in Units PROVE Contract(u)!Init
    BY DEF UnitsBegin
  <2>1. /\ pool[u] = <<>> /\ current[u] = {} /\ worked[u] = {} /\ failed[u] = {}
        /\ accepted[u] = {} /\ stopped[u] = FALSE
    BY DEF Init, ProcessInit
  <2>2. Status(u) = [w \in Works |-> "new"]
    BY <2>1, EmptyMembers DEF Status
  <2> QED
    BY <2>1, <2>2 DEF Contract!Init
<1> QED
  BY <1>1, <1>2, Invariance, PTL DEF Spec, UnitsKeepContract

\* A program that is over has stopped what it started: no unit has a thread
\* left and no monitor or autosave goes on, but for the known holes.
THEOREM EndsClean == Spec => []NothingLeftBehind
<1>1. ASSUME IInv, pc = "over", holes = {}
      PROVE  /\ \A u \in Units : Gone(u) \/ \A t \in Crew[u] : place[t] = "new"
             /\ helper # "running"
  <2>1. ASSUME NEW u \in Units, Contains(owned, u) PROVE Gone(u)
    <3>1. PICK i \in DOMAIN owned : owned[i] = u
      BY <1>1, <2>1, OwnedUnits DEF Contains, IInv, MainInv
    <3> QED
      BY <1>1, <3>1 DEF IInv, MainInv, Stopping
  <2> QED
    BY <1>1, <2>1 DEF IInv, MainInv, Stopping, Helped
<1>2. IInv => NothingLeftBehind
  BY <1>1 DEF NothingLeftBehind, Gone
<1> QED
  BY <1>2, Invariance, PTL

-----------------------------------------------------------------------------
(* The simulation of a sound catalog, when nothing fails or interrupts     *)

\* Some unit the program knows has the id of the planned one.
Serves(i) == \E j \in DOMAIN owned : Ids[owned[j]] = Ids[plan[i]]
Planned(node) == node = Nowhere \/ \E i \in DOMAIN plan : Ids[plan[i]] = node

Undisturbed == faults = 0 /\ interrupts = 0 /\ FileSound
Finishing == {"wait", "ask", "joinHelper", "stop", "join", "over"}
Smooth ==
  /\ error = "none"
  /\ pc \in Finishing => id = MaxJobs + 1
  /\ \A i \in DOMAIN plan : pc # "build" \/ i < k => Serves(i)
  /\ pc = "put" => \A i \in DOMAIN todo : Planned(todo[i].node)

\* What the game does is not spoken of here.
SoundRun ==
  program = "simulation" =>
    /\ faults \in Nat /\ interrupts \in Nat /\ Loads(file)
    /\ Undisturbed => Smooth

\* The steps of a profile that a lookup comes to are sound, and their ranges
\* are pairs of numbers.
LEMMA SoundSteps ==
  ASSUME MainTypes, Loads(file), FileSound,
         NEW profile \in WorkCandidates(file, kind)
  PROVE  /\ ProfileSound(profile)
         /\ StepsOf(profile) # <<>>
         /\ \A step \in ToSet(StepsOf(profile)) :
              /\ RangesSound(step.requirements)
              /\ \A r \in RangesOf(step.requirements) : r[2] \in Int \X Int
<1>1. profile \in ToSet(file.profiles) \cup ToSet(file.infrastructure_profiles)
  BY ListedProfiles
<1>2. profile \in ToSet(file.profiles \o file.infrastructure_profiles)
  BY DEF WorkCandidates, Candidates, ToSet
<1>3. ProfileSound(profile)
  BY <1>2 DEF FileSound
<1>4. ASSUME NEW step \in ToSet(StepsOf(profile)), NEW r \in RangesOf(step.requirements)
      PROVE  r[2] \in Int \X Int
  BY <1>1, <1>4, ProcessAssumption DEF MainTypes
<1>5. CASE "steps" \in DOMAIN profile
  <2>1. StepsOf(profile) = profile.steps
    BY <1>5 DEF StepsOf
  <2> QED
    BY <1>3, <1>4, <1>5, <2>1 DEF ProfileSound
<1>6. CASE "steps" \notin DOMAIN profile
  <2>1. PICK step : /\ step = [node |-> Nowhere, requirements |-> profile.requirements]
                    /\ StepsOf(profile) = <<step>>
    BY <1>6 DEF StepsOf
  <2>2. step.requirements = profile.requirements
    BY <2>1
  <2>3. ToSet(StepsOf(profile)) = {step} /\ StepsOf(profile) # <<>>
    BY <2>1 DEF ToSet
  <2>4. RangesSound(profile.requirements)
    BY <1>3, <1>6 DEF ProfileSound
  <2> QED
    BY <1>3, <1>4, <2>2, <2>3, <2>4
<1> QED
  BY <1>5, <1>6

\* Requirements with sound ranges can be drawn without an exception.
LEMMA SoundNeverRaises ==
  ASSUME NEW requirements, RangesSound(requirements),
         \A r \in RangesOf(requirements) : r[2] \in Int \X Int
  PROVE  ~MayRaise(requirements)
<1>1. ASSUME NEW r \in RangesOf(requirements)
      PROVE  /\ ~(r[2][1] > r[2][2])
             /\ \A drawn \in r[2][1] .. r[2][2] : ~(drawn < Least(r[1]))
  <2>1. PICK low \in Int, high \in Int : r[2] = <<low, high>>
    BY <1>1
  <2>2. Least(r[1]) \in Int
    BY DEF Least
  <2>3. Least(r[1]) <= low /\ low <= high
    BY <2>1 DEF RangesSound
  <2> QED
    BY <2>1, <2>2, <2>3
<1> QED
  BY <1>1 DEF MayRaise, RangesSound

\* A sound file has a profile for the kind asked for.
LEMMA SoundHasProfile ==
  ASSUME MainTypes, FileSound
  PROVE  WorkCandidates(file, kind) # {}
<1> DEFINE profiles == file.profiles \o file.infrastructure_profiles
<1>1. ToSet(profiles) # {} /\ (kind # NoKind => \E p \in ToSet(profiles) : p.kind = kind)
  BY DEF FileSound
<1>2. PICK n \in Nat : DOMAIN profiles = 1 .. n
  <2>1. PICK a, b : a = file.profiles /\ b = file.infrastructure_profiles
    OBVIOUS
  <2>2. a \in Seq(ToSet(a)) /\ b \in Seq(ToSet(b))
    BY <2>1, ProcessAssumption DEF MainTypes
  <2>3. DOMAIN (a \o b) = 1 .. Len(a) + Len(b) /\ Len(a) + Len(b) \in Nat
    BY <2>2
  <2> QED
    BY <2>1, <2>3
<1>3. WorkCandidates(file, kind) = Candidates(profiles, kind)
  BY DEF WorkCandidates
<1> HIDE DEF profiles
<1>4. CASE kind = NoKind
  BY <1>1, <1>3, <1>4 DEF Candidates
<1>5. CASE kind # NoKind
  <2> DEFINE T == {j \in DOMAIN profiles : profiles[j].kind = kind}
  <2>1. T # {} /\ T \subseteq Nat
    BY <1>1, <1>2, <1>5 DEF ToSet
  <2>2. PICK x \in T : \A y \in T : x <= y
    BY <2>1, HasLeast
  <2>3. \A l \in 1 .. x - 1 : l \in DOMAIN profiles => profiles[l].kind # kind
    BY <1>2, <2>2
  <2>4. 1 .. x - 1 \subseteq DOMAIN profiles
    BY <1>2, <2>2
  <2>5. profiles[x] \in Candidates(profiles, kind)
    BY <1>5, <2>2, <2>3, <2>4 DEF Candidates
  <2> QED
    BY <1>3, <2>5
<1> QED
  BY <1>4, <1>5

\* No draw from a sound file raises.
LEMMA SoundDraws ==
  ASSUME MainTypes, Loads(file), FileSound
  PROVE  ~DrawRaises
<1>1. ASSUME NEW profile \in WorkCandidates(file, kind)
      PROVE  /\ ~WorkMayRaise(profile)
             /\ "steps" \notin DOMAIN profile => "cpu" \in DOMAIN profile.requirements
  <2>1. ~WorkMayRaise(profile)
    BY SoundSteps, SoundNeverRaises DEF WorkMayRaise
  <2>2. ProfileSound(profile)
    BY SoundSteps
  <2> QED
    BY <2>1, <2>2 DEF ProfileSound
<1> QED
  BY <1>1, SoundHasProfile DEF DrawRaises

\* Every step of a drawn work names a node of the plan or none.
LEMMA DrawnIsPlanned ==
  ASSUME MainTypes, Loads(file), FileSound, program = "simulation",
         NEW profile \in WorkCandidates(file, kind),
         NEW i \in DOMAIN WorksOf(profile)
  PROVE  Planned(WorksOf(profile)[i].node)
<1>1. ProfileSound(profile)
  BY SoundSteps
<1>2. plan \in Seq(Units) /\ plan # <<>>
  BY SimulationAssumption DEF MainTypes
<1>3. CASE "steps" \notin DOMAIN profile
  <2>1. StepsOf(profile) = <<[node |-> Nowhere, requirements |-> profile.requirements]>>
    BY <1>3 DEF StepsOf
  <2>2. DOMAIN StepsOf(profile) = {1} /\ StepsOf(profile)[1].node = Nowhere
    BY <2>1
  <2>3. WorksOf(profile)[i].node = Nowhere
    BY <1>3, <2>2 DEF WorksOf
  <2> QED
    BY <2>3 DEF Planned
<1>4. CASE "steps" \in DOMAIN profile /\ Infrastructure
  <2>1. StepsOf(profile) = profile.steps
    BY <1>4 DEF StepsOf
  <2>2. i \in DOMAIN profile.steps /\ WorksOf(profile)[i].node = profile.steps[i].node
    BY <1>4, <2>1 DEF WorksOf
  <2>3. PICK u \in ToSet(plan) : Ids[u] = profile.steps[i].node
    BY <1>1, <1>4, <2>2 DEF ProfileSound, ToSet
  <2> QED
    BY <2>2, <2>3 DEF Planned, ToSet
<1>5. CASE "steps" \in DOMAIN profile /\ ~Infrastructure
  <2>1. PICK r : r = [node |-> Nowhere, work |-> <<id, 0, FALSE>>] /\ WorksOf(profile) = <<r>>
    BY <1>5 DEF WorksOf
  <2>2. r.node = Nowhere
    BY <2>1
  <2>3. i = 1
    BY <2>1
  <2>4. WorksOf(profile)[i].node = Nowhere
    BY <2>1, <2>2, <2>3
  <2> QED
    BY <2>4 DEF Planned
<1> QED
  BY <1>3, <1>4, <1>5

\* A planned step finds its node, or the first one.
LEMMA PlannedIsFound ==
  ASSUME MainTypes, program = "simulation", todo # <<>>, Planned(Head(todo).node),
         \A i \in DOMAIN plan : Serves(i)
  PROVE  Targets # {}
<1>1. plan \in Seq(Units) /\ 1 \in DOMAIN plan
  BY SimulationAssumption DEF MainTypes
<1>2. 1 \in DOMAIN owned
  BY <1>1 DEF Serves, MainTypes
<1>3. CASE Head(todo).node = Nowhere
  BY <1>2, <1>3 DEF Targets, ToSet
<1>4. CASE Head(todo).node # Nowhere
  <2>1. PICK i \in DOMAIN plan : Ids[plan[i]] = Head(todo).node
    BY <1>4 DEF Planned
  <2>2. PICK j \in DOMAIN owned : Ids[owned[j]] = Ids[plan[i]]
    BY <2>1 DEF Serves
  <2>3. owned[j] \in ToSet(owned) /\ Ids[owned[j]] = Head(todo).node
    BY <2>1, <2>2 DEF ToSet
  <2> QED
    BY <1>4, <2>3 DEF Targets
<1> QED
  BY <1>3, <1>4

\* The ids that the constructor has served stay served, and the next one is.
LEMMA BuildServes ==
  ASSUME MainTypes, program = "simulation", BuildUnit
  PROVE  \A i \in DOMAIN plan : Serves(i) \/ i = k => \E j \in DOMAIN owned' : Ids[owned'[j]] = Ids[plan[i]]
<1>1. PICK u \in Units : u = plan[k] /\ owned' = Known(u)
  BY SimulationAssumption DEF BuildUnit, MainTypes
<1> DEFINE same == {i \in DOMAIN owned : Ids[owned[i]] = Ids[u]}
<1>2. /\ \A i \in DOMAIN owned : \E j \in DOMAIN owned' : Ids[owned'[j]] = Ids[owned[i]]
      /\ \E j \in DOMAIN owned' : Ids[owned'[j]] = Ids[u]
  <2>1. CASE same = {}
    <3>1. owned' = Append(owned, u)
      BY <1>1, <2>1 DEF Known
    <3>2. /\ DOMAIN owned' = 1 .. Len(owned) + 1 /\ DOMAIN owned = 1 .. Len(owned)
          /\ Len(owned) \in Nat /\ owned'[Len(owned) + 1] = u
          /\ \A i \in 1 .. Len(owned) : owned'[i] = owned[i]
      BY <3>1, AppendPlaces DEF MainTypes
    <3> QED
      BY <3>2
  <2>2. CASE same # {}
    <3>1. PICK j \in same : owned' = [owned EXCEPT ![j] = u]
      BY <1>1, <2>2 DEF Known
    <3> QED
      BY <3>1 DEF MainTypes
  <2> QED
    BY <2>1, <2>2
<1> QED
  BY <1>1, <1>2 DEF Serves

\* A run that nothing has disturbed had not been disturbed before.
LEMMA StaysUndisturbed ==
  ASSUME IInv, SoundRun, program = "simulation", [Next]_vars
  PROVE  /\ program' = "simulation" /\ faults' \in Nat /\ interrupts' \in Nat
         /\ file' = file /\ kind' = kind /\ plan' = plan
         /\ Undisturbed' => Undisturbed
         /\ Fault \/ Interrupted \/ BuildCutShort => ~Undisturbed'
<1>1. /\ faults \in Nat /\ interrupts \in Nat
      /\ file' = file /\ kind' = kind /\ plan' = plan /\ program' = program
      /\ \/ /\ faults' = faults \/ faults' = faults + 1
            /\ interrupts' = interrupts \/ interrupts' = interrupts + 1
         \/ BuildCutShort
  BY
  DEF SoundRun, Next, Over, vars, processVars, simulationVars, bounds, Fault, Interrupted,
      Shared, Background, Worker, HelperEnds, HelperDies, WaitSleeps, WaitReturns, StopUnit,
      JoinUnit, main, draws,
      Play, Simulate, SimulationNext, MainStep, BuildUnit, Built, StartMonitor, MonitorStarted,
      Draw, DrawRaises, LoopEnds, PutStep, UnknownNode, NextId, AllWaited, AskMonitor,
      MonitorJoined, JoinHelper, AllStopped, BuildCutShort, MonitorFails, Interrupt
<1>2. FileSound' <=> FileSound
  BY <1>1 DEF FileSound, ProfileSound, RangesSound, Infrastructure
<1>3. BuildCutShort => /\ faults' \in Nat /\ interrupts' \in Nat
                       /\ faults' # 0 \/ interrupts' # 0
  BY <1>1 DEF BuildCutShort, CutShort, Disruptions
<1> QED
  BY <1>1, <1>2, <1>3 DEF Undisturbed, Fault, Interrupted

\* Nothing that the simulation does in a sound, undisturbed run goes wrong.
LEMMA SoundStep ==
  ASSUME IInv, SoundRun, [Next]_vars
  PROVE  SoundRun'
<1> SUFFICES ASSUME program = "simulation", Undisturbed' PROVE Smooth'
  <2>1. program' = program
    BY DEF Next, Shared, Simulate, Play, Over, vars
  <2>2. program = "simulation" => faults' \in Nat /\ interrupts' \in Nat /\ Loads(file)'
    BY StaysUndisturbed DEF SoundRun
  <2> QED
    BY <2>1, <2>2 DEF SoundRun
<1>1. /\ Undisturbed /\ Smooth /\ Loads(file) /\ FileSound
      /\ ~Fault /\ ~Interrupted /\ ~BuildCutShort /\ plan' = plan
      /\ MainTypes /\ AtHome
  BY StaysUndisturbed DEF SoundRun, Undisturbed, IInv, MainInv
<1>2. ~DrawRaises
  BY <1>1, SoundDraws
<1>3. ~UnknownNode
  <2> SUFFICES ASSUME UnknownNode PROVE FALSE
    OBVIOUS
  <2>1. 1 \in DOMAIN todo /\ Head(todo) = todo[1] /\ pc = "put"
    BY <1>1 DEF UnknownNode, MainTypes
  <2>2. Planned(Head(todo).node) /\ \A i \in DOMAIN plan : Serves(i)
    BY <1>1, <2>1 DEF Smooth
  <2> QED
    BY <1>1, <2>2, PlannedIsFound DEF UnknownNode
<1>4. error' = "none"
  BY <1>1, <1>2, <1>3
  DEF Smooth, Next, Over, vars, processVars,
      Shared, Background, Worker, HelperEnds, HelperDies, WaitSleeps, WaitReturns, StopUnit,
      JoinUnit, main,
      Play, Simulate, SimulationNext, MainStep, BuildUnit, Built, StartMonitor, MonitorStarted,
      Draw, LoopEnds, PutStep, NextId, AllWaited, AskMonitor, MonitorJoined, JoinHelper,
      AllStopped, MonitorFails, Interrupt
<1>5. pc' \in Finishing => id' = MaxJobs + 1
  <2>1. LoopEnds => id' = MaxJobs + 1
    <3>1. MaxJobs \in Nat /\ id \in 1 .. MaxJobs + 1
      BY <1>1, ProcessAssumption DEF MainTypes
    <3>2. LoopEnds => id' = id /\ id > MaxJobs
      BY DEF LoopEnds, draws
    <3> QED
      BY <3>1, <3>2
  <2> QED
    BY <1>1, <1>2, <1>3, <2>1
    DEF Smooth, Finishing, Next, Over, vars, processVars,
      Shared, Background, Worker, HelperEnds, HelperDies, WaitSleeps, WaitReturns, StopUnit,
      JoinUnit, main, draws, Goto,
      Play, Simulate, SimulationNext, MainStep, BuildUnit, Built, StartMonitor, MonitorStarted,
      Draw, PutStep, NextId, AllWaited, AskMonitor, MonitorJoined, JoinHelper, AllStopped,
      MonitorFails, Interrupt
<1>6. \A i \in DOMAIN plan' : pc' # "build" \/ i < k' => Serves(i)'
  <2>1. CASE BuildUnit
    <3>1. k' = k + 1 /\ pc' = pc /\ pc = "build" /\ k \in Nat
      BY <1>1, <2>1 DEF BuildUnit, MainTypes
    <3>2. \A i \in DOMAIN plan : i < k + 1 => i < k \/ i = k
      BY <3>1, <1>1, SimulationAssumption DEF MainTypes
    <3>3. \A i \in DOMAIN plan : Serves(i) \/ i = k => \E j \in DOMAIN owned' : Ids[owned'[j]] = Ids[plan[i]]
      BY <1>1, <2>1, BuildServes
    <3> QED
      BY <1>1, <3>1, <3>2, <3>3 DEF Smooth, Serves
  <2>2. CASE Built
    <3>1. \A i \in DOMAIN plan : i < k
      BY <1>1, <2>2, SimulationAssumption DEF Built, MainTypes
    <3> QED
      BY <1>1, <2>2, <3>1 DEF Built, Smooth, Serves
  <2>3. ~BuildUnit /\ ~Built => owned' = owned /\ (pc = "build" => pc' = "build" /\ k' = k)
    BY <1>1, <1>2, <1>3
    DEF Next, Over, vars, processVars,
      Shared, Background, Worker, HelperEnds, HelperDies, WaitSleeps, WaitReturns, StopUnit,
      JoinUnit, main,
      Play, Simulate, SimulationNext, MainStep, StartMonitor, MonitorStarted, Draw, LoopEnds,
      PutStep, NextId, AllWaited, AskMonitor, MonitorJoined, JoinHelper, AllStopped, 
      MonitorFails, Interrupt
  <2>4. pc' = "build" => pc = "build"
    BY
    DEF Next, Over, vars, processVars,
      Shared, Background, Worker, HelperEnds, HelperDies, WaitSleeps, WaitReturns, StopUnit,
      JoinUnit, main, Goto, Finally, AfterInterrupt,
      Play, Simulate, SimulationNext, MainStep, BuildUnit, Built, StartMonitor, MonitorStarted,
      Draw, DrawRaises, LoopEnds, PutStep, UnknownNode, NextId, AllWaited, AskMonitor,
      MonitorJoined, JoinHelper, AllStopped, BuildCutShort, MonitorFails, Interrupt
  <2>5. CASE ~BuildUnit /\ ~Built
    BY <1>1, <2>3, <2>4, <2>5 DEF Smooth, Serves
  <2> QED
    BY <2>1, <2>2, <2>5
<1>7. pc' = "put" => \A i \in DOMAIN todo' : Planned(todo'[i].node)
  <2>1. CASE Draw
    <3>1. PICK profile \in WorkCandidates(file, kind) : todo' = WorksOf(profile)
      BY <2>1 DEF Draw
    <3> QED
      BY <1>1, <3>1, DrawnIsPlanned
  <2>2. CASE PutStep
    <3>1. pc = "put" /\ todo # <<>> /\ todo' = Tail(todo)
      BY <2>2 DEF PutStep
    <3>2. \A i \in DOMAIN todo' : i + 1 \in DOMAIN todo /\ todo'[i] = todo[i + 1]
      BY <1>1, <3>1 DEF MainTypes
    <3> QED
      BY <1>1, <3>1, <3>2 DEF Smooth
  <2>3. CASE ~Draw /\ ~PutStep
    <3>1. pc' = "put" => pc = "put" /\ todo' = todo
      BY <2>3
      DEF Next, Over, vars, processVars, simulationVars,
        Shared, Background, Worker, HelperEnds, HelperDies, WaitSleeps, WaitReturns, StopUnit,
        JoinUnit, main, Goto, Finally, AfterInterrupt,
        Play, Simulate, SimulationNext, MainStep, BuildUnit, Built, StartMonitor,
        MonitorStarted, DrawRaises, LoopEnds, UnknownNode, NextId, AllWaited, AskMonitor,
        MonitorJoined, JoinHelper, AllStopped, BuildCutShort, MonitorFails, Interrupt
    <3> QED
      BY <1>1, <3>1 DEF Smooth
  <2> QED
    BY <2>1, <2>2, <2>3
<1> QED
  BY <1>1, <1>4, <1>5, <1>6, <1>7 DEF Smooth, Planned

\* A simulation of a sound file that nothing fails in and nobody interrupts
\* returns without an error, after all its works.
THEOREM SoundRunsEnd == Spec => []SoundRunsReturn
<1>1. Init => SoundRun
  BY SimulationAssumption DEF Init, ProcessInit, SimulationInit, SoundRun, Smooth, Finishing
<1>2. IInv /\ SoundRun /\ [Next]_vars => SoundRun'
  BY SoundStep
<1>3. SoundRun => SoundRunsReturn
  BY DEF SoundRun, Undisturbed, Smooth, Finishing, SoundRunsReturn
<1> QED
  BY <1>1, <1>2, <1>3, Invariance, PTL DEF Spec

-----------------------------------------------------------------------------
(* The draft of the build shell                                            *)

\* A step edits the draft, drops it, or leaves it alone.
LEMMA DraftSteps ==
  ASSUME [Next]_vars
  PROVE  EditDraft \/ draft' = NewDraft \/ draft' = draft
<1>1. Command => EditDraft \/ draft' = NewDraft \/ draft' = draft
  BY DEF Command, Enter, Leave, Cancel, BuyServer, Edit, Exit, UnbalancedQuote, AddNode, Commit,
         SetRole, RunWorkload, sessionVars
<1>2. SessionStep => draft' = draft
  BY DEF SessionStep, LoadNode, Loaded, StartAutosave, OpenShell, RunJob, JobRaises, AwaitSleeps,
         AwaitReturns, RunEnds, Flushed, NoAutosave, AutosaveJoined, NodesWaited, NodesStopped,
         sessionVars
<1>3. SessionNext => EditDraft \/ draft' = NewDraft \/ draft' = draft
  BY <1>1, <1>2 DEF SessionNext, LoadFails, AutosaveFails, FlushFails, LoadCutShort,
      LoadInterrupted, GiveUpInterrupted, PlaceCutShort, CommandInterrupted,
      ShutdownInterrupted, sessionVars
<1> QED
  BY <1>3 DEF Next, Shared, Simulate, Play, Over, vars, sessionVars

\* The draft is a well-formed kit at any time.
LEMMA DraftType == Spec => []KitType(draft)
<1>1. Init => KitType(draft)
  BY NewDraftType DEF Init, SessionInit
<1>2. KitType(draft) /\ [Next]_vars => KitType(draft)'
  BY DraftSteps, EditKeepsType, NewDraftType
<1> QED
  BY <1>1, <1>2, PTL DEF Spec

\* Whatever the board and the order of the player's edits, a build that is
\* accepted has a slot of its own for each card.
THEOREM CardsHaveSlots == Spec => []BuiltCardsHaveSlots
<1>1. KitType(draft) => BuiltCardsHaveSlots
  BY AcceptedCardsMount DEF BuiltCardsHaveSlots, Valid
<1> QED
  BY <1>1, DraftType, PTL

\* On every regular board the verdict on a complete draft is exact.
THEOREM VerdictsAreExact == Spec => []VerdictIsExact
<1>1. KitType(draft) => VerdictIsExact
  BY VerdictOfKit DEF VerdictIsExact
<1> QED
  BY <1>1, DraftType, PTL
=============================================================================
