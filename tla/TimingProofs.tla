---------------------------- MODULE TimingProofs ----------------------------
(***************************************************************************)
(* Theorems about Timing: for any times, any games and any savestates.     *)
(***************************************************************************)
EXTENDS Timing, TLAPS, FiniteSetTheorems

-----------------------------------------------------------------------------
(* The events and the lists                                                *)

LEMMA EventsDiffer ==
  /\ Video # IRQ /\ Video # Timer /\ Video # Dma /\ IRQ # Timer /\ IRQ # Dma /\ Timer # Dma
  /\ Nil \notin Events /\ Cardinality(Events) = 4
<1>1. IsFiniteSet({}) /\ Cardinality({}) = 0
  BY FS_EmptySet
<1> DEFINE one == {} \cup {Dma}   two == one \cup {Timer}   three == two \cup {IRQ}
<1>2. IsFiniteSet(one) /\ Cardinality(one) = 1
  BY <1>1, FS_AddElement
<1> HIDE DEF one
<1>3. IsFiniteSet(two) /\ Cardinality(two) = IF Timer \in one THEN 1 ELSE 2
  BY <1>2, FS_AddElement
<1> HIDE DEF two
<1>4. IsFiniteSet(three) /\ Cardinality(three) = IF IRQ \in two THEN Cardinality(two) ELSE Cardinality(two) + 1
  BY <1>3, FS_AddElement
<1> HIDE DEF three
<1>5. Cardinality(three \cup {Video}) = IF Video \in three THEN Cardinality(three) ELSE Cardinality(three) + 1
  BY <1>4, FS_AddElement
<1>6. Events = three \cup {Video}
  BY DEF Events, one, two, three
<1>7. Cardinality(Events) = 4 /\ Nil \notin Events
  BY EventsAssumption
<1>8. Video \notin three /\ IRQ \notin two /\ Timer \notin one
  BY <1>3, <1>4, <1>5, <1>6, <1>7
<1> QED
  BY <1>7, <1>8 DEF one, two, three

\* The event behind x.
Behind(s, x) == IF x = Nil THEN Nil ELSE s.next[x]

LEMMA WalkIs ==
  ASSUME NEW s, NEW p
  PROVE  /\ Walk(s, p) = [n \in 0..4 |-> Walk(s, p)[n]]
         /\ Walk(s, p)[0] = p
         /\ \A n \in 1..4 : Walk(s, p)[n] = Behind(s, Walk(s, p)[n - 1])
<1> DEFINE a1 == Behind(s, p)  a2 == Behind(s, a1)  a3 == Behind(s, a2)  a4 == Behind(s, a3)
           f == [n \in 0..4 |-> IF n = 0 THEN p ELSE IF n = 1 THEN a1 ELSE IF n = 2 THEN a2
                                ELSE IF n = 3 THEN a3 ELSE a4]
           Is(g) == g = [n \in 0..4 |-> IF n = 0 THEN p ELSE IF g[n - 1] = Nil THEN Nil ELSE s.next[g[n - 1]]]
<1>1. Is(f)
  <2>1. f[0] = p /\ f[1] = a1 /\ f[2] = a2 /\ f[3] = a3 /\ f[4] = a4
    OBVIOUS
  <2>2. \A n \in 0..4 : f[n] = IF n = 0 THEN p ELSE IF f[n - 1] = Nil THEN Nil ELSE s.next[f[n - 1]]
    <3> HIDE DEF f
    <3> QED  BY <2>1 DEF Behind
  <2> QED
    BY <2>2
<1>2. Walk(s, p) = CHOOSE g : Is(g)
  BY EventsDiffer DEF Walk
<1>3. Is(Walk(s, p))
  <2> HIDE DEF Is
  <2> QED  BY <1>1, <1>2
<1> QED
  BY <1>3 DEF Behind

-----------------------------------------------------------------------------
(* The machine, with times as integers                                     *)

Links == Events \cup {Nil}
Clocks ==
  [root : Links, reroot : Links, next : [Events -> Links], when : [Events -> Int],
   masterCycles : Int, cycles : Int, nextEvent : Int, halted : BOOLEAN,
   cpuBlocked : BOOLEAN, words : Int, asked : SUBSET Events]

\* From p on, every event comes once, and the list ends.
IsList(s, p) ==
  LET w == Walk(s, p)
  IN  /\ \A n \in 0..4 : w[n] \in Links
      /\ \A n, m \in 0..4 : w[n] = w[m] /\ w[n] # Nil => n = m
      /\ w[4] = Nil

\* Walk only looks at next.
LEMMA WalkSame ==
  ASSUME NEW s, NEW t, NEW p, t.next = s.next
  PROVE  Walk(t, p) = Walk(s, p) /\ Linked(t, p) = Linked(s, p) /\ (IsList(t, p) <=> IsList(s, p))
<1>1. Walk(t, p) = Walk(s, p)
  BY DEF Walk
<1> QED
  BY <1>1 DEF Linked, IsList

LEMMA WalkAt ==
  ASSUME NEW s, NEW p
  PROVE  LET w == Walk(s, p)
         IN  /\ w[0] = p /\ w[1] = Behind(s, w[0]) /\ w[2] = Behind(s, w[1])
             /\ w[3] = Behind(s, w[2]) /\ w[4] = Behind(s, w[3])
<1>1. 1 \in 1..4 /\ 2 \in 1..4 /\ 3 \in 1..4 /\ 4 \in 1..4
  OBVIOUS
<1>2. 1 - 1 = 0 /\ 2 - 1 = 1 /\ 3 - 1 = 2 /\ 4 - 1 = 3
  OBVIOUS
<1> QED
  BY <1>1, <1>2, WalkIs

LEMMA LinkedIs ==
  ASSUME NEW s, NEW p
  PROVE  Linked(s, p) = {Walk(s, p)[n] : n \in 0..4} \ {Nil}
BY EventsDiffer DEF Linked

\* The empty list.
LEMMA NilList == ASSUME NEW s PROVE IsList(s, Nil) /\ Linked(s, Nil) = {}
<1>1. \A n \in 0..4 : Walk(s, Nil)[n] = Nil
  BY WalkAt DEF Behind
<1> QED
  BY <1>1, LinkedIs DEF IsList, Links

\* An event that is not in a list leaves room in it.
LEMMA RoomLeft ==
  ASSUME NEW s, NEW p, IsList(s, p), NEW e \in Events, e \notin Linked(s, p)
  PROVE  Walk(s, p)[3] = Nil
<1> DEFINE w == Walk(s, p)
<1>1. \A n \in 0..4 : w[n] \in Links /\ w[n] # e
  BY LinkedIs, EventsDiffer DEF IsList
<1>2. ASSUME w[3] # Nil PROVE FALSE
  <2>1. w[0] # Nil /\ w[1] # Nil /\ w[2] # Nil
    BY <1>2, WalkAt DEF Behind
  <2>2. w[0] # w[1] /\ w[0] # w[2] /\ w[0] # w[3] /\ w[1] # w[2] /\ w[1] # w[3] /\ w[2] # w[3]
    BY <1>2, <2>1 DEF IsList
  <2> HIDE DEF w
  <2> QED
    BY <1>1, <1>2, <2>1, <2>2 DEF Links, Events
<1> QED
  BY <1>2

\* Once the list has ended it does not go on.
LEMMA EndsOnce ==
  ASSUME NEW s, NEW p, NEW n \in 0..4, NEW m \in 0..n, Walk(s, p)[m] = Nil
  PROVE  Walk(s, p)[n] = Nil
BY WalkAt DEF Behind

\* Putting e at the place n: what was before it stays, the others move up.
LEMMA InsertedWalk ==
  ASSUME NEW s \in Clocks, IsList(s, s.root), NEW e \in Events, e \notin Linked(s, s.root),
         NEW n \in 0..3, n > 0 => Walk(s, s.root)[n - 1] # Nil
  PROVE  LET t == InsertAt(s, e, n)
             w == Walk(s, s.root)
             v == Walk(t, t.root)
         IN  /\ t.next \in [Events -> Links] /\ t.root \in Links
             /\ \A m \in 0..4 : v[m] = IF m < n THEN w[m] ELSE IF m = n THEN e ELSE w[m - 1]
<1> DEFINE t == InsertAt(s, e, n)
           w == Walk(s, s.root)
           v == Walk(t, t.root)
<1> SUFFICES /\ t.next \in [Events -> Links] /\ t.root \in Links
             /\ \A m \in 0..4 : v[m] = IF m < n THEN w[m] ELSE IF m = n THEN e ELSE w[m - 1]
  OBVIOUS
<1>1. s.next \in [Events -> Links] /\ s.root \in Links /\ Nil \notin Events
  BY EventsDiffer DEF Clocks
<1>2. \A m \in 0..4 : w[m] \in Links /\ w[m] # e
  BY LinkedIs, EventsDiffer DEF IsList
<1>3. w[3] = Nil /\ w[4] = Nil
  BY RoomLeft DEF IsList
<1>4. /\ w[0] = s.root /\ w[1] = Behind(s, w[0]) /\ w[2] = Behind(s, w[1])
      /\ w[3] = Behind(s, w[2])
  BY WalkAt
<1>5. /\ v[0] = t.root /\ v[1] = Behind(t, v[0]) /\ v[2] = Behind(t, v[1])
      /\ v[3] = Behind(t, v[2]) /\ v[4] = Behind(t, v[3])
  BY WalkAt
<1>6. \A i, j \in 0..4 : w[i] = w[j] /\ w[i] # Nil => i = j
  BY DEF IsList
<1>7. n = 0 => t.root = e /\ t.next = [s.next EXCEPT ![e] = w[0]]
  BY <1>1 DEF InsertAt, Clocks
<1>8. n > 0 => /\ t.root = s.root
               /\ t.next = [[s.next EXCEPT ![e] = w[n]] EXCEPT ![w[n - 1]] = e]
  <2> SUFFICES ASSUME n > 0 PROVE /\ t.root = s.root
                                  /\ t.next = [[s.next EXCEPT ![e] = w[n]] EXCEPT ![w[n - 1]] = e]
    OBVIOUS
  <2> QED
    BY <1>1 DEF InsertAt, Clocks
<1> HIDE DEF t, w, v
<1> DEFINE put == \A m \in 0..4 : v[m] = IF m < n THEN w[m] ELSE IF m = n THEN e ELSE w[m - 1]
<1>13. /\ n = 0 => v[0] = e /\ v[1] = w[0] /\ v[2] = w[1] /\ v[3] = w[2] /\ v[4] = w[3]
       /\ n = 1 => v[0] = w[0] /\ v[1] = e /\ v[2] = w[1] /\ v[3] = w[2] /\ v[4] = w[3]
       /\ n = 2 => v[0] = w[0] /\ v[1] = w[1] /\ v[2] = e /\ v[3] = w[2] /\ v[4] = w[3]
       /\ n = 3 => v[0] = w[0] /\ v[1] = w[1] /\ v[2] = w[2] /\ v[3] = e /\ v[4] = w[3]
       => put
  OBVIOUS
<1>9. CASE n = 0
  <2>1. t.root = e /\ t.next = [s.next EXCEPT ![e] = w[0]]
    BY <1>7, <1>9
  <2>2. t.next \in [Events -> Links] /\ t.root \in Links
    BY <1>1, <1>2, <2>1 DEF Links
  <2>3. Behind(t, e) = w[0]
    BY <1>1, <2>1 DEF Behind
  <2>4. ASSUME NEW x \in Links, x # e PROVE Behind(t, x) = Behind(s, x)
    BY <1>1, <2>1, <2>4 DEF Behind, Links
  <2>5. v[0] = e /\ v[1] = w[0] /\ v[2] = w[1] /\ v[3] = w[2] /\ v[4] = w[3]
    BY <1>2, <1>4, <1>5, <2>1, <2>3, <2>4
  <2> QED
    BY <1>9, <1>13, <2>2, <2>5
<1>10. ASSUME n > 0
       PROVE  /\ t.next \in [Events -> Links] /\ t.root = w[0] /\ t.root \in Links
              /\ w[n - 1] \in Events
              /\ Behind(t, w[n - 1]) = e /\ Behind(t, e) = w[n]
              /\ \A x \in Links : x # e /\ x # w[n - 1] => Behind(t, x) = Behind(s, x)
  <2>1. t.root = s.root /\ t.next = [[s.next EXCEPT ![e] = w[n]] EXCEPT ![w[n - 1]] = e]
    BY <1>8, <1>10
  <2>2. w[n - 1] \in Events /\ w[n - 1] # e /\ w[n] \in Links
    <3>1. n - 1 \in 0..4 /\ n \in 0..4
      BY <1>10
    <3>2. w[n - 1] # Nil
      BY <1>10 DEF w
    <3> QED
      BY <1>2, <3>1, <3>2 DEF Links
  <2> DEFINE before == w[n - 1]   behind == w[n]
  <2>3. /\ t.next = [[s.next EXCEPT ![e] = behind] EXCEPT ![before] = e]
        /\ before \in Events /\ before # e /\ behind \in Links
    BY <2>1, <2>2
  <2> HIDE DEF before, behind
  <2>4. t.next \in [Events -> Links] /\ t.next[before] = e /\ t.next[e] = behind
        /\ \A x \in Events : x # e /\ x # before => t.next[x] = s.next[x]
    BY <1>1, <2>3 DEF Links
  <2>5. Behind(t, before) = e /\ Behind(t, e) = behind
        /\ \A x \in Links : x # e /\ x # before => Behind(t, x) = Behind(s, x)
    BY <1>1, <2>3, <2>4 DEF Behind, Links
  <2> QED
    BY <1>1, <1>4, <2>1, <2>2, <2>4, <2>5 DEF before, behind
<1>11. \A i, j \in 0..4 : i # j /\ w[j] # Nil => w[i] # w[j]
  BY <1>6
<1>12. Behind(t, Nil) = Nil
  BY DEF Behind
<1>14. CASE n = 1
  <2>1. /\ t.root = w[0] /\ w[0] \in Events
        /\ Behind(t, w[0]) = e /\ Behind(t, e) = w[1]
        /\ \A x \in Links : x # e /\ x # w[0] => Behind(t, x) = Behind(s, x)
    BY <1>10, <1>14
  <2>2. v[0] = w[0] /\ v[1] = e /\ v[2] = w[1]
    BY <1>5, <2>1
  <2>3. w[1] # w[0] /\ w[2] # w[0]
    BY <1>1, <1>11, <2>1
  <2>4. v[3] = w[2] /\ v[4] = w[3]
    BY <1>2, <1>4, <1>5, <2>1, <2>2, <2>3
  <2> QED
    BY <1>10, <1>13, <1>14, <2>2, <2>4
<1>15. CASE n = 2
  <2>1. /\ t.root = w[0] /\ w[1] \in Events
        /\ Behind(t, w[1]) = e /\ Behind(t, e) = w[2]
        /\ \A x \in Links : x # e /\ x # w[1] => Behind(t, x) = Behind(s, x)
    BY <1>10, <1>15
  <2>2. w[0] # w[1] /\ w[2] # w[1]
    BY <1>1, <1>11, <2>1
  <2>3. v[0] = w[0] /\ v[1] = w[1] /\ v[2] = e /\ v[3] = w[2]
    BY <1>2, <1>4, <1>5, <2>1, <2>2
  <2>4. v[4] = w[3]
    BY <1>2, <1>4, <1>5, <2>1, <2>2, <2>3
  <2> QED
    BY <1>10, <1>13, <1>15, <2>3, <2>4
<1>16. CASE n = 3
  <2>1. /\ t.root = w[0] /\ w[2] \in Events
        /\ Behind(t, w[2]) = e /\ Behind(t, e) = w[3]
        /\ \A x \in Links : x # e /\ x # w[2] => Behind(t, x) = Behind(s, x)
    BY <1>10, <1>16
  <2>2. w[0] # w[2] /\ w[1] # w[2]
    BY <1>1, <1>11, <2>1
  <2>3. v[0] = w[0] /\ v[1] = w[1] /\ v[2] = w[2] /\ v[3] = e /\ v[4] = w[3]
    BY <1>2, <1>4, <1>5, <2>1, <2>2
  <2> QED
    BY <1>10, <1>13, <1>16, <2>3
<1> QED
  BY <1>9, <1>14, <1>15, <1>16

\* Taking the event at the place n out: those behind it move down.
LEMMA RemovedWalk ==
  ASSUME NEW s \in Clocks, IsList(s, s.root), NEW n \in 0..3, Walk(s, s.root)[n] # Nil,
         NEW t, t.root = IF n = 0 THEN s.next[Walk(s, s.root)[n]] ELSE s.root,
         t.next = [(IF n = 0 THEN s.next
                    ELSE [s.next EXCEPT ![Walk(s, s.root)[n - 1]] = s.next[Walk(s, s.root)[n]]])
                   EXCEPT ![Walk(s, s.root)[n]] = Nil]
  PROVE  /\ t.next \in [Events -> Links] /\ t.root \in Links
         /\ \A m \in 0..4 : Walk(t, t.root)[m] =
              IF m < n THEN Walk(s, s.root)[m] ELSE IF m < 4 THEN Walk(s, s.root)[m + 1] ELSE Nil
<1> DEFINE w == Walk(s, s.root)
           v == Walk(t, t.root)
<1> SUFFICES /\ t.next \in [Events -> Links] /\ t.root \in Links
             /\ \A m \in 0..4 : v[m] = IF m < n THEN w[m] ELSE IF m < 4 THEN w[m + 1] ELSE Nil
  OBVIOUS
<1> DEFINE e == w[n]
<1>1. s.next \in [Events -> Links] /\ s.root \in Links /\ Nil \notin Events
  BY EventsDiffer DEF Clocks
<1>2. \A m \in 0..4 : w[m] \in Links
  BY DEF IsList
<1>3. w[4] = Nil
  BY DEF IsList
<1>4. /\ w[0] = s.root /\ w[1] = Behind(s, w[0]) /\ w[2] = Behind(s, w[1])
      /\ w[3] = Behind(s, w[2]) /\ w[4] = Behind(s, w[3])
  BY WalkAt
<1>5. /\ v[0] = t.root /\ v[1] = Behind(t, v[0]) /\ v[2] = Behind(t, v[1])
      /\ v[3] = Behind(t, v[2]) /\ v[4] = Behind(t, v[3])
  BY WalkAt
<1>6. \A i, j \in 0..4 : i # j /\ w[j] # Nil => w[i] # w[j]
  BY DEF IsList
<1>7. e \in Events /\ s.next[e] = w[n + 1]
  <2>1. e \in Events
    BY <1>2 DEF Links
  <2>2. s.next[e] = Behind(s, e)
    BY <1>1, <2>1 DEF Behind
  <2> QED
    BY <1>4, <2>1, <2>2
<1> DEFINE put == \A m \in 0..4 : v[m] = IF m < n THEN w[m] ELSE IF m < 4 THEN w[m + 1] ELSE Nil
<1>8. Behind(t, Nil) = Nil
  BY DEF Behind
<1>9. /\ n = 0 => v[0] = w[1] /\ v[1] = w[2] /\ v[2] = w[3] /\ v[3] = w[4] /\ v[4] = Nil
      /\ n = 1 => v[0] = w[0] /\ v[1] = w[2] /\ v[2] = w[3] /\ v[3] = w[4] /\ v[4] = Nil
      /\ n = 2 => v[0] = w[0] /\ v[1] = w[1] /\ v[2] = w[3] /\ v[3] = w[4] /\ v[4] = Nil
      /\ n = 3 => v[0] = w[0] /\ v[1] = w[1] /\ v[2] = w[2] /\ v[3] = w[4] /\ v[4] = Nil
      => put
  <2> HIDE DEF v, w
  <2> QED  OBVIOUS
<1>10. n = 0 => t.root = w[1] /\ t.next = [s.next EXCEPT ![e] = Nil]
  BY <1>7
<1>11. n > 0 => /\ t.root = w[0]
                /\ t.next = [[s.next EXCEPT ![w[n - 1]] = w[n + 1]] EXCEPT ![e] = Nil]
  BY <1>4, <1>7
<1> HIDE DEF w, v, e
<1>12. CASE n = 0
  <2>1. t.root = w[1] /\ t.next = [s.next EXCEPT ![e] = Nil]
    BY <1>10, <1>12
  <2>2. t.next \in [Events -> Links] /\ t.root \in Links
    <3>1. Nil \in Links /\ e \in Events
      BY <1>7 DEF Links
    <3>2. t.next \in [Events -> Links]
      BY <1>1, <2>1, <3>1
    <3> QED
      BY <1>2, <2>1, <3>2
  <2>3. ASSUME NEW x \in Links, x # e PROVE Behind(t, x) = Behind(s, x)
    BY <1>1, <2>1, <2>3 DEF Behind, Links
  <2>4. e = w[0] /\ w[1] # e /\ w[2] # e /\ w[3] # e
    BY <1>1, <1>6, <1>7, <1>12 DEF e
  <2>5. v[0] = w[1] /\ v[1] = w[2] /\ v[2] = w[3] /\ v[3] = w[4] /\ v[4] = Nil
    BY <1>2, <1>3, <1>4, <1>5, <1>8, <2>1, <2>3, <2>4
  <2> QED
    BY <1>9, <1>12, <2>2, <2>5
<1>13. ASSUME n > 0
       PROVE  /\ t.next \in [Events -> Links] /\ t.root = w[0] /\ t.root \in Links
              /\ w[n - 1] \in Events
              /\ Behind(t, w[n - 1]) = w[n + 1]
              /\ \A x \in Links : x # e /\ x # w[n - 1] => Behind(t, x) = Behind(s, x)
              /\ \A i \in 0..4 : i # n - 1 => w[i] # w[n - 1]
              /\ \A i \in 0..4 : i # n => w[i] # e
  <2>1. n - 1 \in 0..4 /\ n \in 0..4 /\ n + 1 \in 0..4 /\ n - 1 # n
    BY <1>13
  <2>2. w[n - 1] # Nil
    <3>1. n - 1 \in 0..n
      BY <1>13
    <3> QED
      BY <2>1, <3>1, EndsOnce DEF w
  <2>3. w[n - 1] \in Events /\ w[n - 1] # e /\ w[n + 1] \in Links
    BY <1>2, <1>6, <2>1, <2>2, <1>1, <1>7 DEF Links, e
  <2>4. /\ \A i \in 0..4 : i # n - 1 => w[i] # w[n - 1]
        /\ \A i \in 0..4 : i # n => w[i] # e
    BY <1>1, <1>6, <1>7, <2>1, <2>2 DEF e
  <2> DEFINE before == w[n - 1]   behind == w[n + 1]
  <2>5. /\ t.next = [[s.next EXCEPT ![before] = behind] EXCEPT ![e] = Nil]
        /\ before \in Events /\ before # e /\ behind \in Links
    BY <1>11, <1>13, <2>3
  <2> HIDE DEF before, behind
  <2>6. t.next \in [Events -> Links] /\ t.next[before] = behind
        /\ \A x \in Events : x # e /\ x # before => t.next[x] = s.next[x]
    BY <1>1, <1>7, <2>5 DEF Links
  <2>7. Behind(t, before) = behind
        /\ \A x \in Links : x # e /\ x # before => Behind(t, x) = Behind(s, x)
    BY <1>1, <2>5, <2>6 DEF Behind, Links
  <2> QED
    BY <1>1, <1>4, <1>11, <1>13, <2>3, <2>4, <2>6, <2>7 DEF before, behind
<1>14. CASE n = 1
  <2>1. /\ t.root = w[0] /\ Behind(t, w[0]) = w[2]
        /\ \A x \in Links : x # e /\ x # w[0] => Behind(t, x) = Behind(s, x)
        /\ w[2] # w[0] /\ w[3] # w[0] /\ w[2] # e /\ w[3] # e
    BY <1>13, <1>14
  <2>2. v[0] = w[0] /\ v[1] = w[2]
    BY <1>5, <2>1
  <2>3. v[2] = w[3] /\ v[3] = w[4]
    BY <1>2, <1>4, <1>5, <2>1, <2>2
  <2> QED
    BY <1>3, <1>5, <1>8, <1>9, <1>13, <1>14, <2>2, <2>3
<1>15. CASE n = 2
  <2>1. /\ t.root = w[0] /\ Behind(t, w[1]) = w[3]
        /\ \A x \in Links : x # e /\ x # w[1] => Behind(t, x) = Behind(s, x)
        /\ w[0] # w[1] /\ w[0] # e /\ w[3] # w[1] /\ w[3] # e
    BY <1>13, <1>15
  <2>2. v[0] = w[0] /\ v[1] = w[1] /\ v[2] = w[3]
    BY <1>2, <1>4, <1>5, <2>1
  <2>3. v[3] = w[4]
    BY <1>2, <1>4, <1>5, <2>1, <2>2
  <2> QED
    BY <1>3, <1>5, <1>8, <1>9, <1>13, <1>15, <2>2, <2>3
<1>16. CASE n = 3
  <2>1. /\ t.root = w[0] /\ Behind(t, w[2]) = w[4]
        /\ \A x \in Links : x # e /\ x # w[2] => Behind(t, x) = Behind(s, x)
        /\ w[0] # w[2] /\ w[0] # e /\ w[1] # w[2] /\ w[1] # e
    BY <1>13, <1>16
  <2>2. v[0] = w[0] /\ v[1] = w[1] /\ v[2] = w[2] /\ v[3] = w[4]
    BY <1>2, <1>4, <1>5, <2>1
  <2> QED
    BY <1>3, <1>5, <1>8, <1>9, <1>13, <1>16, <2>2
<1> QED
  BY <1>12, <1>14, <1>15, <1>16

LEMMA InsertedList ==
  ASSUME NEW s \in Clocks, IsList(s, s.root), NEW e \in Events, e \notin Linked(s, s.root),
         NEW n \in 0..3, n > 0 => Walk(s, s.root)[n - 1] # Nil
  PROVE  LET t == InsertAt(s, e, n)
         IN  IsList(t, t.root) /\ Linked(t, t.root) = Linked(s, s.root) \cup {e}
<1> DEFINE t == InsertAt(s, e, n)
           w == Walk(s, s.root)
           v == Walk(t, t.root)
<1> SUFFICES IsList(t, t.root) /\ Linked(t, t.root) = Linked(s, s.root) \cup {e}
  OBVIOUS
<1>1. \A m \in 0..4 : v[m] = IF m < n THEN w[m] ELSE IF m = n THEN e ELSE w[m - 1]
  BY InsertedWalk
<1>2. /\ \A m \in 0..4 : w[m] \in Links /\ w[m] # e
      /\ \A i, j \in 0..4 : w[i] = w[j] /\ w[i] # Nil => i = j
      /\ w[3] = Nil /\ w[4] = Nil
  BY RoomLeft, LinkedIs, EventsDiffer DEF IsList
<1>3. Linked(s, s.root) = {w[m] : m \in 0..4} \ {Nil} /\ Linked(t, t.root) = {v[m] : m \in 0..4} \ {Nil}
  BY LinkedIs
<1>4. e \in Links /\ e # Nil
  BY EventsDiffer DEF Links
<1> HIDE DEF w, v, t
<1>5. IsList(t, t.root)
  <2>1. ASSUME NEW m \in 0..4 PROVE v[m] \in Links
    <3>1. m > n => m - 1 \in 0..4
      OBVIOUS
    <3> QED
      BY <1>1, <1>2, <1>4, <3>1
  <2>2. ASSUME NEW i \in 0..4, NEW j \in 0..4, v[i] = v[j], v[i] # Nil PROVE i = j
    <3>1. /\ i > n => i - 1 \in 0..4
          /\ j > n => j - 1 \in 0..4
      OBVIOUS
    <3>2. i = n \/ j = n => i = j
      BY <1>1, <1>2, <2>2, <3>1
    <3>3. CASE i # n /\ j # n
      <4> DEFINE a == IF i < n THEN i ELSE i - 1
                 b == IF j < n THEN j ELSE j - 1
      <4>1. a \in 0..4 /\ b \in 0..4 /\ v[i] = w[a] /\ v[j] = w[b]
        BY <1>1, <3>1, <3>3
      <4>2. a = b
        BY <1>2, <2>2, <4>1
      <4> QED
        BY <3>3, <4>2
    <3> QED
      BY <3>2, <3>3
  <2>3. v[4] = Nil
    BY <1>1, <1>2
  <2> QED
    BY <2>1, <2>2, <2>3 DEF IsList, v
<1>6. {v[m] : m \in 0..4} \ {Nil} \subseteq ({w[m] : m \in 0..4} \ {Nil}) \cup {e}
  <2> SUFFICES ASSUME NEW m \in 0..4, v[m] # Nil, v[m] # e PROVE \E i \in 0..4 : v[m] = w[i]
    OBVIOUS
  <2>1. m > n => m - 1 \in 0..4
    OBVIOUS
  <2> QED
    BY <1>1, <2>1
<1>7. ({w[m] : m \in 0..4} \ {Nil}) \cup {e} \subseteq {v[m] : m \in 0..4} \ {Nil}
  <2>1. v[n] = e /\ n \in 0..4
    BY <1>1
  <2>2. ASSUME NEW m \in 0..4, w[m] # Nil PROVE \E i \in 0..4 : w[m] = v[i]
    <3>1. m # 3 /\ m # 4
      BY <1>2, <2>2
    <3>2. CASE m < n
      BY <1>1, <3>2
    <3>3. CASE ~(m < n)
      <4>1. m + 1 \in 0..4 /\ ~(m + 1 < n) /\ m + 1 # n /\ (m + 1) - 1 = m
        BY <3>1, <3>3
      <4>2. v[m + 1] = w[(m + 1) - 1]
        BY <1>1, <4>1
      <4> QED
        BY <4>1, <4>2
    <3> QED
      BY <3>2, <3>3
  <2> QED
    BY <1>4, <2>1, <2>2
<1> QED
  BY <1>3, <1>5, <1>6, <1>7

LEMMA RemovedList ==
  ASSUME NEW s, NEW p, IsList(s, p), NEW n \in 0..3, Walk(s, p)[n] # Nil, NEW t, NEW q,
         \A m \in 0..4 : Walk(t, q)[m] =
              IF m < n THEN Walk(s, p)[m] ELSE IF m < 4 THEN Walk(s, p)[m + 1] ELSE Nil
  PROVE  IsList(t, q) /\ Linked(t, q) = Linked(s, p) \ {Walk(s, p)[n]}
<1> DEFINE w == Walk(s, p)
           v == Walk(t, q)
<1>1. \A m \in 0..4 : v[m] = IF m < n THEN w[m] ELSE IF m < 4 THEN w[m + 1] ELSE Nil
  OBVIOUS
<1>2. /\ \A m \in 0..4 : w[m] \in Links
      /\ \A i, j \in 0..4 : w[i] = w[j] /\ w[i] # Nil => i = j
      /\ w[4] = Nil /\ w[n] # Nil
  BY DEF IsList
<1>3. Linked(s, p) = {w[m] : m \in 0..4} \ {Nil} /\ Linked(t, q) = {v[m] : m \in 0..4} \ {Nil}
  BY LinkedIs
<1> SUFFICES IsList(t, q) /\ Linked(t, q) = Linked(s, p) \ {w[n]}
  OBVIOUS
<1> HIDE DEF w, v
<1>4. \A m \in 0..4 : m < 4 => m + 1 \in 0..4
  OBVIOUS
<1>5. IsList(t, q)
  <2>1. ASSUME NEW m \in 0..4 PROVE v[m] \in Links
    BY <1>1, <1>2, <1>4 DEF Links
  <2>2. ASSUME NEW i \in 0..4, NEW j \in 0..4, v[i] = v[j], v[i] # Nil PROVE i = j
    <3> DEFINE a == IF i < n THEN i ELSE i + 1
               b == IF j < n THEN j ELSE j + 1
    <3>1. i < n \/ i < 4
      BY <1>1, <2>2
    <3>2. j < n \/ j < 4
      BY <1>1, <2>2
    <3>3. a \in 0..4 /\ b \in 0..4 /\ v[i] = w[a] /\ v[j] = w[b]
      BY <1>1, <1>4, <2>2, <3>1, <3>2
    <3>4. a = b
      BY <1>2, <2>2, <3>3
    <3> QED
      BY <3>4
  <2>3. v[4] = Nil
    BY <1>1
  <2> QED
    BY <2>1, <2>2, <2>3 DEF IsList, v
<1>6. ASSUME NEW m \in 0..4, v[m] # Nil PROVE v[m] # w[n] /\ \E i \in 0..4 : v[m] = w[i]
  <2> DEFINE a == IF m < n THEN m ELSE m + 1
  <2>1. a \in 0..4 /\ a # n /\ v[m] = w[a]
    BY <1>1, <1>4, <1>6
  <2> QED
    BY <1>2, <1>6, <2>1
<1>7. ASSUME NEW m \in 0..4, w[m] # Nil, w[m] # w[n] PROVE \E i \in 0..4 : w[m] = v[i]
  <2>1. m # n
    BY <1>7
  <2>2. CASE m < n
    BY <1>1, <2>2
  <2>3. CASE m > n
    <3>1. m - 1 \in 0..4 /\ ~(m - 1 < n) /\ m - 1 < 4 /\ (m - 1) + 1 = m
      BY <2>3
    <3>2. v[m - 1] = w[(m - 1) + 1]
      BY <1>1, <3>1
    <3> QED
      BY <3>1, <3>2
  <2> QED
    BY <2>1, <2>2, <2>3
<1> QED
  BY <1>3, <1>5, <1>6, <1>7

LEMMA MinIs ==
  ASSUME NEW S \in SUBSET (0..4), S # {}
  PROVE  Min(S) \in S /\ \A y \in S : Min(S) <= y
<1>1. \E x \in S : \A y \in S : x <= y
  <2>1. CASE 0 \in S
    BY <2>1
  <2>2. CASE 0 \notin S /\ 1 \in S
    BY <2>2
  <2>3. CASE S \subseteq 2..4 /\ 2 \in S
    BY <2>3
  <2>4. CASE S \subseteq 3..4 /\ 3 \in S
    BY <2>4
  <2>5. CASE S \subseteq {4}
    <3>1. \A x \in S : x = 4
      BY <2>5
    <3>2. PICK x \in S : TRUE
      OBVIOUS
    <3> QED
      BY <3>1, <3>2
  <2> QED
    BY <2>1, <2>2, <2>3, <2>4, <2>5
<1> QED
  BY <1>1 DEF Min

-----------------------------------------------------------------------------
(* Words                                                                   *)

LEMMA ModulusIs ==
  /\ Modulus \in Int /\ Modulus >= 4 /\ IntMax \in Int /\ IntMax >= 1
  /\ 2 * (IntMax + 1) <= Modulus
<1>1. Modulus \in Int
  BY TimesAssumption DEF Modulus
<1> HIDE DEF Modulus
<1>2. IntMax = Modulus \div 2 - 1
  BY DEF IntMax
<1>3. IntMax \in Int
  BY <1>1, <1>2
<1>4. Line \in 1 .. IntMax
  BY TimesAssumption
<1>5. IntMax >= 1
  BY <1>3, <1>4
<1> QED
  BY <1>1, <1>2, <1>3, <1>5

LEMMA WordsAre ==
  ASSUME NEW x \in Int
  PROVE  Word(x) \in 0 .. Modulus - 1 /\ Word(x) \in Int /\ Signed(x) \in Int
<1> HIDE DEF Modulus
<1>1. Word(x) \in 0 .. Modulus - 1
  BY ModulusIs, SMTT(20) DEF Word
<1> QED
  BY <1>1, ModulusIs DEF Signed

LEMMA LeftIs == ASSUME NEW s \in Clocks, NEW e \in Events PROVE Left(s, e) \in Int
<1>1. s.when[e] - s.masterCycles \in Int
  BY DEF Clocks
<1> QED
  BY <1>1, WordsAre DEF Left

-----------------------------------------------------------------------------
(* core/timing.c                                                           *)

\* The fields that only the callers look at.
Untouched(s, t) ==
  /\ t.reroot = s.reroot /\ t.masterCycles = s.masterCycles /\ t.cycles = s.cycles
  /\ t.halted = s.halted /\ t.cpuBlocked = s.cpuBlocked /\ t.words = s.words

\* The machine with the time of e set, before it is linked.
NextAt(s, delay) == Signed(delay + s.cycles)
Timed(s, e, delay) ==
  [s EXCEPT !.when[e] = Word(NextAt(s, delay) + s.masterCycles),
            !.nextEvent = Lesser(@, NextAt(s, delay)), !.asked = @ \cup {e}]
\* o comes after e when that is NextAt.
After(t, o, e, at) ==
  \/ Left(t, o) > at
  \/ Left(t, o) = at /\ Priority(o) > Priority(e)

LEMMA TimedIs ==
  ASSUME NEW s \in Clocks, NEW e \in Events, NEW d \in Int
  PROVE  LET t == Timed(s, e, d)
         IN  /\ t \in Clocks /\ Untouched(s, t) /\ t.root = s.root /\ t.next = s.next
             /\ t.when = [s.when EXCEPT ![e] = Word(NextAt(s, d) + s.masterCycles)]
             /\ t.nextEvent = Lesser(s.nextEvent, NextAt(s, d)) /\ t.asked = s.asked \cup {e}
<1> DEFINE at == NextAt(s, d)   word == Word(at + s.masterCycles)   first == Lesser(s.nextEvent, at)
<1>1. at \in Int
  <2>1. d + s.cycles \in Int
    BY DEF Clocks
  <2> QED
    BY <2>1, WordsAre DEF NextAt
<1>2. word \in Int
  <2>1. at + s.masterCycles \in Int
    BY <1>1 DEF Clocks
  <2> QED
    BY <2>1, WordsAre
<1>3. first \in Int
  BY <1>1 DEF Clocks, Lesser
<1>4. Timed(s, e, d) = [s EXCEPT !.when[e] = word, !.nextEvent = first, !.asked = @ \cup {e}]
  BY DEF Timed
<1> DEFINE t == Timed(s, e, d)
<1> SUFFICES /\ t \in Clocks /\ Untouched(s, t) /\ t.root = s.root /\ t.next = s.next
             /\ t.when = [s.when EXCEPT ![e] = word]
             /\ t.nextEvent = first /\ t.asked = s.asked \cup {e}
  OBVIOUS
<1> HIDE DEF at, word, first, t
<1>5. t = [s EXCEPT !.when = [s.when EXCEPT ![e] = word], !.nextEvent = first, !.asked = s.asked \cup {e}]
  BY <1>4 DEF t, Clocks
<1>6. [s.when EXCEPT ![e] = word] \in [Events -> Int] /\ s.asked \cup {e} \in SUBSET Events
  BY <1>2 DEF Clocks
<1>7. t \in Clocks
  BY <1>3, <1>5, <1>6 DEF Clocks
<1>8. Untouched(s, t) /\ t.root = s.root /\ t.next = s.next
  BY <1>5 DEF Clocks, Untouched
<1>9. t.when = [s.when EXCEPT ![e] = word] /\ t.nextEvent = first /\ t.asked = s.asked \cup {e}
  BY <1>5 DEF Clocks
<1> QED
  BY <1>7, <1>8, <1>9

LEMMA InsertIs ==
  ASSUME NEW s \in Clocks, IsList(s, s.root), NEW e \in Events, e \notin Linked(s, s.root),
         NEW n \in 0..3, n > 0 => Walk(s, s.root)[n - 1] # Nil
  PROVE  LET t == InsertAt(s, e, n)
         IN  /\ t \in Clocks /\ Untouched(s, t) /\ t.when = s.when
             /\ t.nextEvent = s.nextEvent /\ t.asked = s.asked
<1> DEFINE t == InsertAt(s, e, n)   w == Walk(s, s.root)
<1>1. t.next \in [Events -> Links] /\ t.root \in Links
  BY InsertedWalk
<1>2. \/ t = [[s EXCEPT !.next[e] = w[n]] EXCEPT !.root = e]
      \/ t = [[s EXCEPT !.next[e] = w[n]] EXCEPT !.next[w[n - 1]] = e]
  BY DEF InsertAt
<1>3. \E f, r : t = [s EXCEPT !.next = f, !.root = r]
  <2> HIDE DEF w, t
  <2>1. CASE t = [[s EXCEPT !.next[e] = w[n]] EXCEPT !.root = e]
    <3>1. t = [s EXCEPT !.next = [s.next EXCEPT ![e] = w[n]], !.root = e]
      BY <2>1 DEF Clocks
    <3> QED
      BY <3>1
  <2>2. CASE t = [[s EXCEPT !.next[e] = w[n]] EXCEPT !.next[w[n - 1]] = e]
    <3>1. t = [s EXCEPT !.next = [[s.next EXCEPT ![e] = w[n]] EXCEPT ![w[n - 1]] = e], !.root = s.root]
      BY <2>2 DEF Clocks
    <3> QED
      BY <3>1
  <2> QED
    BY <1>2, <2>1, <2>2
<1> HIDE DEF t
<1>4. PICK f, r : t = [s EXCEPT !.next = f, !.root = r]
  BY <1>3
<1>5. t.next = f /\ t.root = r
  BY <1>4 DEF Clocks
<1> QED
  BY <1>1, <1>4, <1>5 DEF Clocks, Untouched, t

\* Where e is put: behind every event it comes after, before the first it does not.
LEMMA ScheduledAt ==
  ASSUME NEW s \in Clocks, IsList(s, s.root), NEW e \in Events, e \notin Linked(s, s.root), NEW d \in Int
  PROVE  LET t == Timed(s, e, d)
             w == Walk(s, s.root)
         IN  \E n \in 0..3 : /\ mTimingSchedule(s, e, d) = InsertAt(t, e, n)
                             /\ \A m \in 0..4 : m < n => w[m] # Nil /\ ~After(t, w[m], e, NextAt(s, d))
                             /\ w[n] = Nil \/ After(t, w[n], e, NextAt(s, d))
<1> DEFINE t == Timed(s, e, d)   w == Walk(s, s.root)   at == NextAt(s, d)
           stops == {n \in 0..4 : IF w[n] = Nil THEN TRUE ELSE After(t, w[n], e, at)}
           n == Min(stops)
<1>1. w[3] = Nil /\ w[4] = Nil
  BY RoomLeft DEF IsList
<1>2. 3 \in stops /\ 4 \in stops
  BY <1>1
<1>3. n \in stops /\ \A y \in stops : n <= y
  <2> HIDE DEF stops
  <2>1. stops \in SUBSET (0..4)
    BY DEF stops
  <2> QED
    BY <1>2, <2>1, MinIs
<1>4. n \in 0..3
  <2>1. n <= 3 /\ n \in 0..4
    BY <1>2, <1>3
  <2> QED
    BY <2>1
<1>5. mTimingSchedule(s, e, d) = InsertAt(t, e, n)
  <2>1. stops \cup {4} = stops
    BY <1>2
  <2>2. DOMAIN w = 0..4
    BY WalkIs
  <2>3. mTimingSchedule(s, e, d) =
          InsertAt(t, e, Min({k \in DOMAIN w : IF w[k] = Nil THEN TRUE ELSE After(t, w[k], e, at)}
                             \cup {Cardinality(Events)}))
    BY DEF mTimingSchedule, Timed, NextAt, After
  <2>4. mTimingSchedule(s, e, d) = InsertAt(t, e, Min(stops \cup {4}))
    BY <2>2, <2>3, EventsDiffer
  <2> QED
    BY <2>1, <2>4
<1> HIDE DEF n
<1>6. \A m \in 0..4 : m < n => w[m] # Nil /\ ~After(t, w[m], e, at)
  <2> SUFFICES ASSUME NEW m \in 0..4, m < n PROVE m \notin stops
    OBVIOUS
  <2> HIDE DEF stops
  <2> QED
    BY <1>3, <1>4
<1>7. w[n] = Nil \/ After(t, w[n], e, at)
  BY <1>3
<1> QED
  BY <1>4, <1>5, <1>6, <1>7

LEMMA ScheduleIs ==
  ASSUME NEW s \in Clocks, IsList(s, s.root), NEW e \in Events, e \notin Linked(s, s.root), NEW d \in Int
  PROVE  LET t == mTimingSchedule(s, e, d)
         IN  /\ t \in Clocks /\ Untouched(s, t) /\ IsList(t, t.root)
             /\ Linked(t, t.root) = Linked(s, s.root) \cup {e}
             /\ t.when = [s.when EXCEPT ![e] = Word(NextAt(s, d) + s.masterCycles)]
             /\ t.nextEvent = Lesser(s.nextEvent, NextAt(s, d)) /\ t.asked = s.asked \cup {e}
<1> DEFINE u == Timed(s, e, d)   w == Walk(s, s.root)
<1>1. PICK n \in 0..3 : /\ mTimingSchedule(s, e, d) = InsertAt(u, e, n)
                        /\ \A m \in 0..4 : m < n => w[m] # Nil
  BY ScheduledAt
<1>2. /\ u \in Clocks /\ Untouched(s, u) /\ u.root = s.root /\ u.next = s.next
      /\ u.when = [s.when EXCEPT ![e] = Word(NextAt(s, d) + s.masterCycles)]
      /\ u.nextEvent = Lesser(s.nextEvent, NextAt(s, d)) /\ u.asked = s.asked \cup {e}
  BY TimedIs
<1> HIDE DEF u
<1>3. Walk(u, u.root) = w /\ Linked(u, u.root) = Linked(s, s.root) /\ IsList(u, u.root)
  BY <1>2, WalkSame
<1>4. n > 0 => Walk(u, u.root)[n - 1] # Nil
  <2>1. n > 0 => n - 1 \in 0..4 /\ n - 1 < n
    OBVIOUS
  <2> QED
    BY <1>1, <1>3, <2>1
<1> DEFINE t == InsertAt(u, e, n)
<1>5. /\ t \in Clocks /\ Untouched(u, t) /\ t.when = u.when
      /\ t.nextEvent = u.nextEvent /\ t.asked = u.asked
  BY <1>2, <1>3, <1>4, InsertIs
<1>6. IsList(t, t.root) /\ Linked(t, t.root) = Linked(u, u.root) \cup {e}
  BY <1>2, <1>3, <1>4, InsertedList
<1> HIDE DEF t
<1> QED
  BY <1>1, <1>2, <1>3, <1>5, <1>6 DEF Untouched, t

-----------------------------------------------------------------------------
(* What holds between the steps of a callback                              *)

\* The list is what was asked for.
Listed(s) == s \in Clocks /\ IsList(s, s.root) /\ s.asked = Linked(s, s.root)
\* And no other is set aside.
Sound(s) == s \in Clocks /\ IsList(s, s.root) /\ s.reroot = Nil /\ s.asked = Linked(s, s.root)

\* t is s without the event e: the others move up.
Dropped(s, e, t) ==
  /\ Sound(t) /\ Untouched(s, t) /\ t.nextEvent = s.nextEvent /\ t.asked = s.asked \ {e}
  /\ \A o \in Events : o # e => t.when[o] = s.when[o]
  /\ \E n \in 0..4 : \A m \in 0..4 :
       Walk(t, t.root)[m] = IF m < n THEN Walk(s, s.root)[m] ELSE IF m < 4 THEN Walk(s, s.root)[m + 1] ELSE Nil

\* The machine without the event e, the n-th of its list.
Without(s, e, n) ==
  [s EXCEPT !.root = IF n = 0 THEN s.next[e] ELSE s.root,
            !.next = [(IF n = 0 THEN s.next
                       ELSE [s.next EXCEPT ![Walk(s, s.root)[n - 1]] = s.next[e]])
                      EXCEPT ![e] = Nil],
            !.when = [s.when EXCEPT ![e] = 0], !.asked = s.asked \ {e}]

LEMMA RemovedIs ==
  ASSUME NEW s, Sound(s), NEW n \in 0..3, NEW e \in Events, e = Walk(s, s.root)[n]
  PROVE  Dropped(s, e, Without(s, e, n))
<1> DEFINE r == IF n = 0 THEN s.next[e] ELSE s.root
           f == [(IF n = 0 THEN s.next
                  ELSE [s.next EXCEPT ![Walk(s, s.root)[n - 1]] = s.next[e]])
                 EXCEPT ![e] = Nil]
           left == s.asked \ {e}
           times == [s.when EXCEPT ![e] = 0]
           t == Without(s, e, n)
<1>1. t = [s EXCEPT !.root = r, !.next = f, !.when = times, !.asked = left] /\ s \in Clocks
  BY DEF Sound, Without
<1>2. times \in [Events -> Int] /\ left \in SUBSET Events /\ \A o \in Events : o # e => times[o] = s.when[o]
  BY <1>1 DEF Clocks
<1> HIDE DEF r, f, times, left, t
<1>3. t.root = r /\ t.next = f /\ t.when = times /\ t.asked = left
  BY <1>1 DEF Clocks
<1>4. Walk(s, s.root)[n] # Nil
  BY EventsDiffer
<1>5. /\ t.next \in [Events -> Links] /\ t.root \in Links
      /\ \A m \in 0..4 : Walk(t, t.root)[m] =
           IF m < n THEN Walk(s, s.root)[m] ELSE IF m < 4 THEN Walk(s, s.root)[m + 1] ELSE Nil
  <2>1. /\ s \in Clocks /\ IsList(s, s.root)
        /\ t.root = IF n = 0 THEN s.next[Walk(s, s.root)[n]] ELSE s.root
        /\ t.next = [(IF n = 0 THEN s.next
                      ELSE [s.next EXCEPT ![Walk(s, s.root)[n - 1]] = s.next[Walk(s, s.root)[n]]])
                     EXCEPT ![Walk(s, s.root)[n]] = Nil]
    BY <1>3 DEF r, f, Sound
  <2> QED
    BY ONLY <1>4, <2>1, RemovedWalk, n \in 0..3
<1>6. IsList(t, t.root) /\ Linked(t, t.root) = Linked(s, s.root) \ {e}
  <2>1. IsList(s, s.root)
    BY DEF Sound
  <2> QED
    BY ONLY <1>4, <1>5, <2>1, RemovedList, n \in 0..3, e = Walk(s, s.root)[n]
<1>7. t \in Clocks
  BY <1>1, <1>2, <1>3, <1>5 DEF Clocks
<1>8. Untouched(s, t) /\ t.nextEvent = s.nextEvent /\ t.reroot = Nil
  BY <1>1 DEF Clocks, Untouched, Sound
<1>9. Sound(t) /\ t.asked = s.asked \ {e}
  BY <1>3, <1>6, <1>7, <1>8 DEF Sound, left
<1>10. n \in 0..4
  OBVIOUS
<1> QED
  BY <1>2, <1>3, <1>5, <1>8, <1>9, <1>10 DEF Dropped, t

LEMMA DescheduleIs ==
  ASSUME NEW s, Sound(s), NEW e \in Events
  PROVE  Dropped(s, e, mTimingDeschedule(s, e))
<1> DEFINE w == Walk(s, s.root)
           found == {n \in 0..4 : w[n] = e}
           n == Min(found)
           without == IF n = 0 THEN [s EXCEPT !.root = s.next[e]]
                      ELSE [s EXCEPT !.next[w[n - 1]] = s.next[e]]
           t == mTimingDeschedule(s, e)
<1>1. t = IF found = {} THEN [s EXCEPT !.asked = @ \ {e}] ELSE Unlinked(without, e)
  <2>1. DOMAIN w = 0..4
    BY WalkIs
  <2> QED
    BY <2>1 DEF mTimingDeschedule
<1>2. /\ s \in Clocks /\ s.asked = {w[m] : m \in 0..4} \ {Nil} /\ w[4] = Nil
      /\ s.reroot = Nil /\ IsList(s, s.root)
  BY LinkedIs DEF Sound, IsList
<1>3. CASE found = {}
  <2>1. e \notin s.asked
    BY <1>2, <1>3
  <2>2. t = s
    <3>1. t = [s EXCEPT !.asked = @ \ {e}] /\ s.asked \ {e} = s.asked
      BY <1>1, <1>3, <2>1
    <3> HIDE DEF t
    <3>2. [s EXCEPT !.asked = s.asked] = s
      BY <1>2 DEF Clocks
    <3> QED
      BY <3>1, <3>2
  <2> HIDE DEF t, w
  <2>3. \A m \in 0..4 : w[m] = IF m < 4 THEN w[m] ELSE IF m < 4 THEN w[m + 1] ELSE Nil
    BY <1>2
  <2>4. Untouched(s, s) /\ 4 \in 0..4 /\ s.asked = s.asked \ {e}
    BY <2>1 DEF Untouched
  <2>5. Dropped(s, e, s)
    BY <2>3, <2>4 DEF Dropped, w
  <2> QED
    BY <2>2, <2>5 DEF t
<1>4. CASE found # {}
  <2>1. n \in found
    <3>1. found \in SUBSET (0..4)
      OBVIOUS
    <3> HIDE DEF found
    <3> QED
      BY <1>4, <3>1, MinIs
  <2>2. w[n] = e /\ n \in 0..3
    <3>1. n \in 0..4 /\ w[n] = e
      BY <2>1
    <3>2. n # 4
      BY <1>2, <3>1, EventsDiffer
    <3> HIDE DEF n
    <3> QED
      BY <3>1, <3>2
  <2>3. t = Unlinked(without, e)
    BY <1>1, <1>4
  <2> HIDE DEF n, w, t, found
  <2>4. t = Without(s, e, n)
    <3>1. CASE n = 0
      <4>1. without = [s EXCEPT !.root = s.next[e]]
        BY <3>1
      <4>2. Unlinked([s EXCEPT !.root = s.next[e]], e) =
              [s EXCEPT !.root = s.next[e], !.next = [s.next EXCEPT ![e] = Nil],
                        !.when = [s.when EXCEPT ![e] = 0], !.asked = s.asked \ {e}]
        BY <1>2 DEF Unlinked, Clocks
      <4> QED
        BY <2>3, <3>1, <4>1, <4>2 DEF Without
    <3>2. CASE n # 0
      <4> DEFINE f == [s.next EXCEPT ![w[n - 1]] = s.next[e]]
      <4>1. without = [s EXCEPT !.next = f]
        BY <1>2, <3>2 DEF Clocks
      <4> HIDE DEF f
      <4>2. Unlinked([s EXCEPT !.next = f], e) =
              [s EXCEPT !.root = s.root, !.next = [f EXCEPT ![e] = Nil],
                        !.when = [s.when EXCEPT ![e] = 0], !.asked = s.asked \ {e}]
        BY <1>2 DEF Unlinked, Clocks
      <4> QED
        BY <2>3, <3>2, <4>1, <4>2 DEF f, Without, w
    <3> QED
      BY <3>1, <3>2
  <2> QED
    BY <2>2, <2>4, RemovedIs DEF w, t
<1> QED
  BY <1>3, <1>4

\* Scheduling an event that is not in the list.
LEMMA ScheduleSound ==
  ASSUME NEW s, Sound(s), NEW e \in Events, e \notin s.asked, NEW d \in Int
  PROVE  /\ Sound(mTimingSchedule(s, e, d)) /\ Untouched(s, mTimingSchedule(s, e, d))
         /\ mTimingSchedule(s, e, d).asked = s.asked \cup {e}
<1> DEFINE t == mTimingSchedule(s, e, d)
<1>1. s \in Clocks /\ IsList(s, s.root) /\ e \notin Linked(s, s.root)
  BY DEF Sound
<1>2. /\ t \in Clocks /\ Untouched(s, t) /\ IsList(t, t.root)
      /\ Linked(t, t.root) = Linked(s, s.root) \cup {e} /\ t.asked = s.asked \cup {e}
  BY <1>1, ScheduleIs
<1> HIDE DEF t
<1> SUFFICES Sound(t) /\ Untouched(s, t) /\ t.asked = s.asked \cup {e}
  BY DEF t
<1> QED
  BY <1>2 DEF Sound, Untouched

\* The list of a loaded state, set aside.
Aside(s) == s \in Clocks /\ s.root = Nil /\ IsList(s, s.reroot) /\ s.asked = Linked(s, s.reroot)

\* Changing what the lists do not depend on.
LEMMA OtherFields ==
  ASSUME NEW s, Sound(s), NEW t \in Clocks, t.root = s.root, t.next = s.next,
         t.reroot = s.reroot, t.asked = s.asked
  PROVE  Sound(t)
BY WalkSame DEF Sound

LEMMA OtherFieldsAside ==
  ASSUME NEW s, Aside(s), NEW t \in Clocks, t.root = s.root, t.next = s.next,
         t.reroot = s.reroot, t.asked = s.asked
  PROVE  Aside(t)
BY WalkSame DEF Aside

-----------------------------------------------------------------------------
(* The callers keep the list sound                                         *)

LEMMA TimesAre ==
  /\ Line \in Int /\ Reload \in Int /\ Reload > 0 /\ IrqDelay \in Int /\ DmaDelay \in Int
  /\ Unit \in Int /\ Words \in Int /\ IrqLength \in Int /\ \A c \in Lengths : c \in Int /\ c >= 1
  /\ Line >= 1 /\ IrqDelay >= 1 /\ DmaDelay >= 1 /\ Unit >= 1 /\ Words >= 1 /\ IrqLength >= 0
<1>1. IntMax \in Int
  BY ModulusIs
<1>2. IrqLength \in 0 .. IntMax /\ \A c \in {Line, Reload, IrqDelay, DmaDelay, Unit, Words} \cup Lengths : c \in 1 .. IntMax
  BY TimesAssumption
<1> HIDE DEF IntMax
<1> QED
  BY <1>1, <1>2

LEMMA NotScheduled ==
  ASSUME NEW s, Sound(s), NEW e \in Events
  PROVE  mTimingIsScheduled(s, e) <=> e \in s.asked
BY NilList DEF mTimingIsScheduled, Sound

LEMMA RaiseSound ==
  ASSUME NEW s, Sound(s), NEW t \in GBARaiseIRQ(s)
  PROVE  Sound(t) /\ Untouched(s, t)
<1>1. t = s \/ (IRQ \notin s.asked /\ t = mTimingSchedule(s, IRQ, IrqDelay))
  <2>1. mTimingIsScheduled(s, IRQ) <=> IRQ \in s.asked
    BY NotScheduled DEF Events
  <2>2. t = s \/ (~mTimingIsScheduled(s, IRQ) /\ t = mTimingSchedule(s, IRQ, IrqDelay))
    BY DEF GBARaiseIRQ
  <2> QED
    BY <2>1, <2>2
<1>2. IrqDelay \in Int /\ IRQ \in Events
  BY TimesAre DEF Events
<1> QED
  BY <1>1, <1>2, ScheduleSound DEF Untouched

LEMMA RescheduleSound ==
  ASSUME NEW s, Sound(s), NEW e \in Events, NEW d \in Int, NEW t \in Reschedule(s, e, d)
  PROVE  Sound(t) /\ Untouched(s, t)
<1> DEFINE u == mTimingDeschedule(s, e)
<1>1. Sound(u) /\ Untouched(s, u) /\ e \notin u.asked
  BY DescheduleIs DEF Dropped
<1>2. t = mTimingSchedule(u, e, d)
  BY DEF Reschedule
<1>3. Sound(t) /\ Untouched(u, t)
  BY <1>1, <1>2, ScheduleSound
<1> QED
  BY <1>1, <1>3 DEF Untouched

LEMMA UpdateRegisterSound ==
  ASSUME NEW s, Sound(s), NEW late \in Int, NEW t \in GBATimerUpdateRegister(s, late)
  PROVE  Sound(t) /\ Untouched(s, t)
<1>1. s.cycles \in Int
  BY DEF Sound, Clocks
<1>2. Reload - (s.cycles % Reload) - late \in Int /\ Timer \in Events
  BY <1>1, TimesAre, SMTT(20) DEF Events
<1> QED
  BY <1>2, RescheduleSound DEF GBATimerUpdateRegister

LEMMA UpdateSound ==
  ASSUME NEW s, Sound(s), NEW late \in Int, NEW t \in GBATimerUpdate(s, late)
  PROVE  Sound(t)
<1>1. PICK u \in GBATimerUpdateRegister(s, late) : t \in GBARaiseIRQ(u)
  BY DEF GBATimerUpdate
<1>2. Sound(u)
  BY UpdateRegisterSound
<1> QED
  BY <1>1, <1>2, RaiseSound

LEMMA WriteSound ==
  ASSUME NEW s, Sound(s), NEW t \in GBATimerWriteTMCNT_HI(s)
  PROVE  Sound(t)
<1>1. t = s \/ t \in Reschedule(s, Timer, Reload) \/ t = mTimingDeschedule(s, Timer)
  BY DEF GBATimerWriteTMCNT_HI
<1>2. Reload \in Int /\ Timer \in Events
  BY TimesAre DEF Events
<1> QED
  BY <1>1, <1>2, RescheduleSound, DescheduleIs DEF Dropped

LEMMA RunSound ==
  ASSUME NEW s, Sound(s), NEW c \in Int, NEW t \in GBADMARun(s, c)
  PROVE  Sound(t)
<1> DEFINE u == [s EXCEPT !.words = Words + 1]
<1>1. t = s \/ t \in Reschedule(u, Dma, DmaDelay + c)
  BY DEF GBADMARun
<1>2. Sound(u)
  <2>1. s \in Clocks /\ Words + 1 \in Int
    BY TimesAre DEF Sound
  <2>2. u \in Clocks /\ u.root = s.root /\ u.next = s.next /\ u.reroot = s.reroot /\ u.asked = s.asked
    BY <2>1 DEF Clocks
  <2> HIDE DEF u
  <2> QED
    BY <2>2, OtherFields
<1>3. DmaDelay + c \in Int /\ Dma \in Events
  BY TimesAre DEF Events
<1> HIDE DEF u
<1> QED
  BY <1>1, <1>2, <1>3, RescheduleSound

LEMMA FieldsAre ==
  ASSUME NEW s \in Clocks, NEW w \in Int, NEW b \in BOOLEAN
  PROVE  LET t == [s EXCEPT !.words = w, !.cpuBlocked = b]
         IN  /\ t \in Clocks /\ t.root = s.root /\ t.next = s.next /\ t.reroot = s.reroot
             /\ t.asked = s.asked /\ t.when = s.when /\ t.masterCycles = s.masterCycles
             /\ t.cycles = s.cycles /\ t.nextEvent = s.nextEvent /\ t.halted = s.halted
BY DEF Clocks

LEMMA DmaSound ==
  ASSUME NEW s, Sound(s), NEW late \in Int, NEW t \in DmaEvent(s, late)
  PROVE  Sound(t)
<1> DEFINE done == [s EXCEPT !.words = 0, !.cpuBlocked = FALSE]
           on == [s EXCEPT !.words = @ - 1, !.cpuBlocked = TRUE]
           from == IF s.words = Words + 1 THEN mTimingCurrentTime(s) ELSE s.masterCycles - late
           d == Signed(from + Unit - mTimingCurrentTime(s))
<1>1. t \in GBARaiseIRQ(done) \/ t \in Reschedule(on, Dma, d)
  BY DEF DmaEvent
<1>2. s \in Clocks
  BY DEF Sound
<1>3. /\ done \in Clocks /\ done.root = s.root /\ done.next = s.next
      /\ done.reroot = s.reroot /\ done.asked = s.asked
  <2>1. 0 \in Int /\ FALSE \in BOOLEAN
    OBVIOUS
  <2> QED
    BY <1>2, <2>1, FieldsAre
<1>4. /\ on \in Clocks /\ on.root = s.root /\ on.next = s.next
      /\ on.reroot = s.reroot /\ on.asked = s.asked
  <2>1. s.words - 1 \in Int
    BY <1>2 DEF Clocks
  <2> QED
    BY <1>2, <2>1 DEF Clocks
<1>5. d \in Int /\ Dma \in Events
  <2>1. s.masterCycles + s.cycles \in Int /\ s.masterCycles - late \in Int
    BY <1>2 DEF Clocks
  <2>2. mTimingCurrentTime(s) \in Int
    BY <2>1, WordsAre DEF mTimingCurrentTime
  <2>3. from + Unit - mTimingCurrentTime(s) \in Int
    BY <2>1, <2>2, TimesAre
  <2> HIDE DEF from
  <2> QED
    BY <2>3, WordsAre DEF Events
<1> HIDE DEF done, on, d
<1>6. Sound(done) /\ Sound(on)
  BY <1>3, <1>4, OtherFields
<1> QED
  BY <1>1, <1>5, <1>6, RaiseSound, RescheduleSound

LEMMA TriggerSound ==
  ASSUME NEW s, Sound(s), NEW t \in TriggerIRQ(s)
  PROVE  Sound(t)
<1>1. PICK c \in {0, IrqLength} : t = [s EXCEPT !.halted = FALSE, !.cycles = @ + c]
  BY DEF TriggerIRQ
<1>2. s \in Clocks /\ s.cycles + c \in Int
  BY TimesAre DEF Sound, Clocks
<1>3. t \in Clocks /\ t.root = s.root /\ t.next = s.next /\ t.reroot = s.reroot /\ t.asked = s.asked
  BY <1>1, <1>2 DEF Clocks
<1> QED
  BY <1>3, OtherFields

LEMMA RestoredListed ==
  ASSUME NEW s, Listed(s), NEW e \in Events, e \notin s.asked, NEW left \in {Nil} \cup Int,
         NEW t, t = Restored(s, e, left)
  PROVE  Listed(t) /\ Untouched(s, t) /\ t.asked = IF left = Nil THEN s.asked ELSE s.asked \cup {e}
<1>1. CASE left = Nil
  BY <1>1 DEF Restored, Untouched
<1>2. CASE left # Nil
  <2> DEFINE u == mTimingSchedule(s, e, left)
  <2>1. left \in Int
    BY <1>2
  <2>2. s \in Clocks /\ IsList(s, s.root) /\ e \notin Linked(s, s.root)
    BY DEF Listed
  <2>3. /\ u \in Clocks /\ Untouched(s, u) /\ IsList(u, u.root)
        /\ Linked(u, u.root) = Linked(s, s.root) \cup {e} /\ u.asked = s.asked \cup {e}
    BY <2>1, <2>2, ScheduleIs
  <2>4. t = u
    BY <1>2 DEF Restored
  <2> HIDE DEF u
  <2> QED
    BY <1>2, <2>3, <2>4 DEF Listed
<1> QED
  BY <1>1, <1>2

LEMMA SavedAre ==
  ASSUME NEW saved \in SavedStates
  PROVE  /\ saved.masterCycles \in Int /\ saved.cycles \in Int /\ saved.nextEvent \in Int
         /\ saved.halted \in BOOLEAN /\ saved.words \in Int /\ saved.words >= 0
         /\ saved.irq \in {Nil} \cup Int /\ saved.video \in Int /\ saved.video # Nil
         /\ saved.timer \in {Nil} \cup Int /\ saved.dma \in {Nil} \cup Int
         /\ saved.words > 0 => saved.dma # Nil
<1> DEFINE m == Modulus - 1   n == Words + 1
<1>1. /\ saved \in [made : {"between", "frame"}, masterCycles : 0 .. m, cycles : Int,
                    nextEvent : Int, halted : BOOLEAN, words : 0 .. n, video : Int \ {Nil},
                    irq : {Nil} \cup Int, timer : {Nil} \cup Int, dma : {Nil} \cup Int]
      /\ saved.words > 0 => saved.dma # Nil
  BY StatesAssumption
<1>2. m \in Int /\ n \in Int
  BY ModulusIs, TimesAre
<1> HIDE DEF m, n
<1> QED
  BY <1>1, <1>2

\* GBADeserialize step by step: the registers, and the events one by one.
Blank(s, saved) ==
  [s EXCEPT !.root = Nil, !.masterCycles = saved.masterCycles, !.cycles = saved.cycles,
            !.nextEvent = saved.nextEvent, !.halted = saved.halted, !.asked = {}]
First(s, saved) == Restored(Blank(s, saved), IRQ, saved.irq)
Second(s, saved) == Restored(First(s, saved), Video, saved.video)
Third(s, saved) == Restored(Second(s, saved), Timer, saved.timer)
Fourth(s, saved) == [Third(s, saved) EXCEPT !.words = saved.words]
SetAside(s) == [s EXCEPT !.reroot = s.root, !.root = Nil]

LEMMA BlankIs ==
  ASSUME NEW s \in Clocks, NEW saved \in SavedStates, NEW t, t = Blank(s, saved)
  PROVE  /\ t \in Clocks /\ t.root = Nil /\ t.asked = {} /\ t.cycles = saved.cycles
         /\ t.nextEvent = saved.nextEvent /\ t.halted = saved.halted
<1> DEFINE none == {}   c == saved.cycles   m == saved.masterCycles   x == saved.nextEvent   h == saved.halted
<1>1. none \in SUBSET Events /\ Nil \in Links /\ c \in Int /\ m \in Int /\ x \in Int /\ h \in BOOLEAN
  BY SavedAre DEF Links
<1>2. t = [s EXCEPT !.root = Nil, !.masterCycles = m, !.cycles = c, !.nextEvent = x, !.halted = h,
                    !.asked = none]
  BY DEF Blank
<1> HIDE DEF none, c, m, x, h
<1>3. t \in Clocks /\ t.root = Nil /\ t.asked = none /\ t.cycles = c /\ t.nextEvent = x /\ t.halted = h
  BY <1>1, <1>2 DEF Clocks
<1> QED
  BY <1>3 DEF none, c, x, h

LEMMA DeserializeIs ==
  ASSUME NEW s, NEW saved, NEW t \in GBADeserialize(s, saved)
  PROVE  \E u \in GBADMAUpdate(Fourth(s, saved), saved.dma) : t = SetAside(u)
<1> DEFINE timed == UNION {{Restored(v, Timer, saved.timer) : v \in {Restored(u, Video, saved.video)}} :
                             u \in {Restored(Blank(s, saved), IRQ, saved.irq)}}
           updated == UNION {GBADMAUpdate([u EXCEPT !.words = saved.words], saved.dma) : u \in timed}
<1>1. timed = {Third(s, saved)}
  BY DEF Third, Second, First
<1>2. t \in {SetAside(u) : u \in updated}
  BY DEF GBADeserialize, Blank, SetAside
<1> HIDE DEF timed
<1>3. updated = GBADMAUpdate(Fourth(s, saved), saved.dma)
  BY <1>1 DEF Fourth
<1> HIDE DEF updated
<1> QED
  BY <1>2, <1>3

\* Nothing of a DMA is in the list yet.
LEMMA UpdateIs ==
  ASSUME NEW s, Listed(s), Dma \notin s.asked, NEW left, NEW t \in GBADMAUpdate(s, left)
  PROVE  t = IF s.words > 0 THEN mTimingSchedule(s, Dma, left) ELSE [s EXCEPT !.cpuBlocked = FALSE]
<1>1. mTimingDeschedule(s, Dma) = s
  <2> DEFINE w == Walk(s, s.root)   found == {n \in DOMAIN w : w[n] = Dma}
  <2>1. found = {}
    <3>1. Dma \notin {w[m] : m \in 0..4} \ {Nil} /\ Dma # Nil /\ DOMAIN w = 0..4
      <4>1. DOMAIN w = 0..4
        BY WalkIs
      <4>2. s.asked = {w[m] : m \in 0..4} \ {Nil}
        BY LinkedIs DEF Listed
      <4> HIDE DEF w
      <4> QED
        BY <4>1, <4>2, EventsDiffer DEF Events
    <3> HIDE DEF w
    <3> QED
      BY <3>1
  <2>2. mTimingDeschedule(s, Dma) = [s EXCEPT !.asked = s.asked \ {Dma}]
    BY <2>1 DEF mTimingDeschedule
  <2>3. s.asked \ {Dma} = s.asked
    OBVIOUS
  <2>4. [s EXCEPT !.asked = s.asked] = s
    BY DEF Clocks, Listed
  <2> QED
    BY <2>2, <2>3, <2>4
<1> QED
  BY <1>1 DEF GBADMAUpdate, Reschedule

LEMMA DeserializeSound ==
  ASSUME NEW s \in Clocks, NEW saved \in SavedStates, NEW t \in GBADeserialize(s, saved)
  PROVE  Aside(t)
<1>0. \E u \in GBADMAUpdate(Fourth(s, saved), saved.dma) : t = SetAside(u)
  BY DeserializeIs
<1> DEFINE blank == Blank(s, saved)   one == First(s, saved)   two == Second(s, saved)
           three == Third(s, saved)   four == Fourth(s, saved)
<1>1. PICK u \in GBADMAUpdate(four, saved.dma) : t = SetAside(u)
  BY <1>0
<1>2. one = Restored(blank, IRQ, saved.irq) /\ two = Restored(one, Video, saved.video)
      /\ three = Restored(two, Timer, saved.timer) /\ four = [three EXCEPT !.words = saved.words]
  BY DEF First, Second, Third, Fourth
<1>3. Listed(blank) /\ blank.asked = {}
  <2>1. blank \in Clocks /\ blank.root = Nil /\ blank.asked = {}
    BY BlankIs
  <2> HIDE DEF blank
  <2> QED
    BY <2>1, NilList DEF Listed
<1>4. /\ IRQ \in Events /\ Video \in Events /\ Timer \in Events /\ Dma \in Events
      /\ IRQ # Video /\ IRQ # Timer /\ Video # Timer /\ Dma \notin {IRQ, Video, Timer}
  BY EventsDiffer DEF Events
<1>5. saved.irq \in {Nil} \cup Int /\ saved.video \in {Nil} \cup Int /\ saved.timer \in {Nil} \cup Int
  BY SavedAre
<1> HIDE DEF blank, one, two, three, four
<1>6. Listed(one) /\ one.asked \subseteq {IRQ}
  <2>1. IRQ \notin blank.asked
    BY <1>3
  <2> DEFINE left == saved.irq
  <2>2. Listed(blank) /\ IRQ \in Events /\ left \in {Nil} \cup Int /\ one = Restored(blank, IRQ, left)
    BY <1>2, <1>3, <1>4, <1>5
  <2> HIDE DEF left
  <2>3. Listed(one) /\ one.asked = IF left = Nil THEN blank.asked ELSE blank.asked \cup {IRQ}
    BY ONLY <2>1, <2>2, RestoredListed
  <2> QED
    BY <1>3, <2>3
<1>7. Listed(two) /\ two.asked \subseteq {IRQ, Video}
  <2>1. Video \notin one.asked
    BY <1>4, <1>6
  <2> DEFINE left == saved.video
  <2>2. Listed(one) /\ Video \in Events /\ left \in {Nil} \cup Int /\ two = Restored(one, Video, left)
    BY <1>2, <1>4, <1>5, <1>6
  <2> HIDE DEF left
  <2>3. Listed(two) /\ two.asked = IF left = Nil THEN one.asked ELSE one.asked \cup {Video}
    BY ONLY <2>1, <2>2, RestoredListed
  <2> QED
    BY <1>6, <2>3
<1>8. Listed(three) /\ three.asked \subseteq {IRQ, Video, Timer}
  <2>1. Timer \notin two.asked
    BY <1>4, <1>7
  <2> DEFINE left == saved.timer
  <2>2. Listed(two) /\ Timer \in Events /\ left \in {Nil} \cup Int /\ three = Restored(two, Timer, left)
    BY <1>2, <1>4, <1>5, <1>7
  <2> HIDE DEF left
  <2>3. Listed(three) /\ three.asked = IF left = Nil THEN two.asked ELSE two.asked \cup {Timer}
    BY ONLY <2>1, <2>2, RestoredListed
  <2> QED
    BY <1>7, <2>3
<1>9. Listed(four) /\ four.asked = three.asked
  <2>1. /\ four \in Clocks /\ four.root = three.root /\ four.next = three.next /\ four.asked = three.asked
    BY <1>2, <1>8, SavedAre DEF Clocks, Listed
  <2> QED
    BY <1>8, <2>1, WalkSame DEF Listed
<1>10. Dma \notin four.asked
  BY <1>4, <1>8, <1>9
<1>11. u = IF four.words > 0 THEN mTimingSchedule(four, Dma, saved.dma) ELSE [four EXCEPT !.cpuBlocked = FALSE]
  BY <1>9, <1>10, UpdateIs
<1>12. Listed(u)
  <2>1. CASE four.words > 0
    <3>1. four.words = saved.words
      BY <1>2, <1>8 DEF Clocks, Listed
    <3>2. saved.dma \in Int
      BY <2>1, <3>1, SavedAre
    <3> QED
      <4> DEFINE left == saved.dma
      <4>1. /\ Listed(four) /\ Dma \in Events /\ Dma \notin four.asked /\ left \in {Nil} \cup Int
            /\ u = Restored(four, Dma, left)
        BY <1>4, <1>9, <1>10, <1>11, <2>1, <3>2, EventsDiffer, SavedAre, <3>1 DEF Restored
      <4> HIDE DEF left
      <4> QED
        BY ONLY <4>1, RestoredListed
  <2>2. CASE ~(four.words > 0)
    <3> DEFINE off == FALSE
    <3>1. off \in BOOLEAN /\ u = [four EXCEPT !.cpuBlocked = off]
      BY <1>11, <2>2
    <3> HIDE DEF off
    <3>2. u \in Clocks /\ u.root = four.root /\ u.next = four.next /\ u.asked = four.asked
      BY <1>9, <3>1 DEF Clocks, Listed
    <3>3. Linked(u, u.root) = Linked(four, four.root) /\ (IsList(u, u.root) <=> IsList(four, four.root))
      BY ONLY <3>2, WalkSame
    <3> QED
      BY <1>9, <3>2, <3>3 DEF Listed
  <2> QED
    BY <2>1, <2>2
<1>13. /\ t \in Clocks /\ t.root = Nil /\ t.reroot = u.root /\ t.next = u.next /\ t.asked = u.asked
  BY <1>1, <1>12 DEF Clocks, Links, Listed, SetAside
<1> QED
  BY <1>12, <1>13, WalkSame DEF Aside, Listed

LEMMA VideoSound ==
  ASSUME NEW s, Sound(s), Video \notin s.asked, NEW late \in Int, NEW t \in VideoEvent(s, late)
  PROVE  Sound(t) \/ Aside(t)
<1> DEFINE u == mTimingSchedule(s, Video, Line - late)
<1>1. Sound(u)
  <2>1. Line - late \in Int /\ Video \in Events
    BY TimesAre DEF Events
  <2> QED
    BY <2>1, ScheduleSound
<1>2. \/ \E v \in {u} \cup GBADMARun(u, -late) : t \in GBARaiseIRQ(v)
      \/ \E saved \in Saved : t \in GBADeserialize(u, saved)
  BY DEF VideoEvent
<1> HIDE DEF u
<1>3. ASSUME NEW v \in {u} \cup GBADMARun(u, -late), t \in GBARaiseIRQ(v) PROVE Sound(t)
  <2>1. Sound(v)
    BY <1>1, RunSound
  <2> QED
    BY <1>3, <2>1, RaiseSound
<1>4. ASSUME NEW saved \in Saved, t \in GBADeserialize(u, saved) PROVE Aside(t)
  <2>1. u \in Clocks /\ saved \in SavedStates
    BY <1>1 DEF Sound, Saved
  <2> QED
    BY <1>4, <2>1, DeserializeSound
<1> QED
  BY <1>2, <1>3, <1>4

LEMMA CallbackSound ==
  ASSUME NEW s, Sound(s), NEW e \in Events, e \notin s.asked, NEW late \in Int, NEW t \in Callback(s, e, late)
  PROVE  Sound(t) \/ Aside(t)
<1>1. CASE e = Video
  BY <1>1, VideoSound, EventsDiffer DEF Callback
<1>2. CASE e = IRQ
  BY <1>2, TriggerSound, EventsDiffer DEF Callback
<1>3. CASE e = Timer
  BY <1>3, UpdateSound, EventsDiffer DEF Callback
<1>4. CASE e = Dma
  BY <1>4, DmaSound, EventsDiffer DEF Callback
<1> QED
  BY <1>1, <1>2, <1>3, <1>4 DEF Events

-----------------------------------------------------------------------------
(* Every event that is asked for is in the list                            *)

LEMMA AdvanceSound ==
  ASSUME NEW s \in Clocks, NEW passed \in Int
  PROVE  /\ Sound(s) => Sound(Advance(s, passed))
         /\ Aside(s) => Aside(Advance(s, passed))
<1> DEFINE now == Word(s.masterCycles + passed + s.cycles)   zero == 0   t == Advance(s, passed)
<1>1. s \in Clocks
  OBVIOUS
<1>2. now \in Int /\ zero \in Int
  <2>1. s.masterCycles + passed + s.cycles \in Int
    BY <1>1 DEF Clocks
  <2> QED
    BY <2>1, WordsAre
<1>3. t = [s EXCEPT !.masterCycles = now, !.cycles = zero]
  BY <1>1 DEF Advance, Clocks
<1> HIDE DEF t, now, zero
<1>4. t \in Clocks /\ t.root = s.root /\ t.next = s.next /\ t.reroot = s.reroot /\ t.asked = s.asked
  BY <1>1, <1>2, <1>3 DEF Clocks
<1>5. (Sound(s) => Sound(t)) /\ (Aside(s) => Aside(t))
  BY <1>4, OtherFields, OtherFieldsAside
<1> QED
  BY <1>5 DEF t

LEMMA NextEventIs == ASSUME NEW s \in Clocks PROVE mTimingNextEvent(s) \in Int
<1>1. CASE s.root = Nil
  BY <1>1, ModulusIs DEF mTimingNextEvent
<1>2. CASE s.root # Nil
  <2>1. s.root \in Events /\ s.cycles \in Int
    BY <1>2 DEF Clocks, Links
  <2>2. Left(s, s.root) - s.cycles \in Int
    BY <2>1, LeftIs
  <2> QED
    BY <1>2, <2>2, WordsAre DEF mTimingNextEvent
<1> QED
  BY <1>1, <1>2

LEMMA EndsSound ==
  ASSUME NEW s, Sound(s) \/ Aside(s)
  PROVE  Sound(TickEnds(s)) /\ TickReturns(s, TickEnds(s)) \in Int
<1>1. s \in Clocks
  BY DEF Sound, Aside
<1>2. Sound(TickEnds(s))
  <2>1. CASE ~(s.root = Nil /\ s.reroot # Nil)
    <3>1. TickEnds(s) = s
      BY <2>1 DEF TickEnds
    <3>2. ASSUME Aside(s) PROVE Sound(s)
      BY <2>1, <3>2 DEF Aside, Sound
    <3> QED
      BY <3>1, <3>2
  <2>2. CASE s.root = Nil /\ s.reroot # Nil
    <3> DEFINE none == Nil
               rooted == [s EXCEPT !.root = s.reroot, !.reroot = none]
               first == mTimingNextEvent(rooted)
    <3>1. Aside(s) /\ none \in Links
      BY <2>2 DEF Sound, Links
    <3>2. TickEnds(s) = [rooted EXCEPT !.nextEvent = first]
      BY <2>2 DEF TickEnds
    <3> HIDE DEF none
    <3>3. rooted \in Clocks
      BY <1>1, <3>1 DEF Clocks
    <3>4. first \in Int
      BY <3>3, NextEventIs
    <3> HIDE DEF first
    <3> DEFINE t == [rooted EXCEPT !.nextEvent = first]
    <3>5. t \in Clocks /\ t.root = s.reroot /\ t.next = s.next /\ t.reroot = none /\ t.asked = s.asked
      BY <1>1, <3>1, <3>4 DEF Clocks
    <3> HIDE DEF t
    <3>6. Sound(t)
      BY <3>1, <3>5, WalkSame DEF Sound, Aside, none
    <3> QED
      BY <3>2, <3>6 DEF t
  <2> QED
    BY <2>1, <2>2
<1>3. TickReturns(s, TickEnds(s)) \in Int
  <2>1. TickEnds(s).nextEvent \in Int
    BY <1>2 DEF Sound, Clocks
  <2>2. s.root # Nil => Left(s, s.root) \in Int
    BY <1>1, LeftIs DEF Clocks, Links
  <2> QED
    BY <2>1, <2>2 DEF TickReturns
<1> QED
  BY <1>2, <1>3

\* Removing the first event is what Fire does before the callback.
LEMMA FirstOut ==
  ASSUME NEW s, Sound(s), NEW e \in Events, s.root = e
  PROVE  Dropped(s, e, [s EXCEPT !.root = s.next[e], !.next[e] = Nil, !.when[e] = 0, !.asked = @ \ {e}])
<1>1. Without(s, e, 0) = [s EXCEPT !.root = s.next[e], !.next[e] = Nil, !.when[e] = 0, !.asked = @ \ {e}]
  BY DEF Without, Sound, Clocks
<1>2. e = Walk(s, s.root)[0] /\ 0 \in 0..3
  BY WalkAt
<1> QED
  BY <1>1, <1>2, RemovedIs

\* When a state has been loaded its list waits aside, in a callback to the end of
\* mTimingTick, and between two run loops to the end of the next one.
ListsInv ==
  /\ session \in Sessions
  /\ session.loads # "between" => Sound(gba) \/ (Aside(gba) /\ (pc # "tick" => session.loads = "calm"))

LEMMA InitLists == Init => ListsInv
<1> SUFFICES ASSUME Init PROVE Sound(gba)
  BY DEF ListsInv, Init
<1> DEFINE s == mTimingInit
<1>1. s \in Clocks /\ s.root = Nil /\ s.reroot = Nil /\ s.asked = {}
  <2> DEFINE links == [e \in Events |-> Nil]   times == [e \in Events |-> 0]   none == {}
             off == FALSE   zero == 0
  <2>1. links \in [Events -> Links] /\ times \in [Events -> Int] /\ none \in SUBSET Events
        /\ off \in BOOLEAN /\ zero \in Int /\ IntMax \in Int /\ Nil \in Links
    BY ModulusIs DEF Links
  <2>2. s = [root |-> Nil, reroot |-> Nil, next |-> links, when |-> times, masterCycles |-> zero,
             cycles |-> zero, nextEvent |-> IntMax, halted |-> off, cpuBlocked |-> off,
             words |-> zero, asked |-> none]
    BY DEF mTimingInit
  <2> HIDE DEF links, times, none, off, zero, s
  <2>3. s \in Clocks /\ s.root = Nil /\ s.reroot = Nil /\ s.asked = none
    BY <2>1, <2>2 DEF Clocks
  <2> QED
    BY <2>3 DEF none
<1> HIDE DEF s
<1>2. Sound(s)
  BY <1>1, NilList DEF Sound
<1>3. Sound(mTimingSchedule(s, Video, Line))
  BY <1>1, <1>2, ScheduleSound, TimesAre DEF Events
<1> QED
  BY <1>3 DEF Init, s

LEMMA NextLists == ListsInv /\ [Next]_vars => ListsInv'
<1> SUFFICES ASSUME ListsInv, [Next]_vars PROVE ListsInv'
  OBVIOUS
<1> SUFFICES ASSUME session.loads # "between", session' = session
             PROVE  Sound(gba)' \/ (Aside(gba)' /\ (pc' # "tick" => session.loads = "calm"))
  BY DEF ListsInv, Next, Runs, vars, Instruction, GBAHalt, GBAProcessEvents, Fire, TickDone, LoadState
<1>0. session.loads \in {"between", "calm", "frame"}
  BY SessionsAssumption DEF ListsInv
<1>1. Sound(gba) \/ (Aside(gba) /\ (pc # "tick" => session.loads = "calm"))
  BY DEF ListsInv
<1> DEFINE Kept(t) == (Sound(gba) /\ Sound(t)) \/ (Aside(gba) /\ Aside(t))
<1>2. CASE Instruction
  <2>1. /\ pc # "tick" /\ pc' # "tick"
        /\ \E c \in Lengths, s \in GBADMARun(gba, 0) \cup GBATimerWriteTMCNT_HI(gba) \cup GBARaiseIRQ(gba) :
             /\ session.loads = "calm" /\ gba.reroot # Nil => s = gba
             /\ gba' = [s EXCEPT !.cycles = @ + c]
    BY <1>2 DEF Instruction
  <2>2. PICK c \in Lengths, s \in GBADMARun(gba, 0) \cup GBATimerWriteTMCNT_HI(gba) \cup GBARaiseIRQ(gba) :
          /\ session.loads = "calm" /\ gba.reroot # Nil => s = gba
          /\ gba' = [s EXCEPT !.cycles = @ + c]
    BY <2>1
  <2>3. Sound(s) \/ (Aside(gba) /\ s = gba)
    <3>1. CASE Sound(gba)
      BY <3>1, RunSound, WriteSound, RaiseSound
    <3>2. CASE ~Sound(gba)
      <4>1. Aside(gba) /\ session.loads = "calm"
        BY <1>1, <2>1, <3>2
      <4>2. gba.reroot # Nil
        BY <3>2, <4>1 DEF Aside, Sound
      <4> QED
        BY <2>2, <4>1, <4>2
    <3> QED
      BY <3>1, <3>2
  <2>4. s \in Clocks /\ s.cycles + c \in Int
    BY <2>3, TimesAre DEF Sound, Aside, Clocks
  <2> DEFINE t == [s EXCEPT !.cycles = @ + c]
  <2>5. t \in Clocks /\ t.root = s.root /\ t.next = s.next /\ t.reroot = s.reroot /\ t.asked = s.asked
    BY <2>4 DEF Clocks
  <2> HIDE DEF t
  <2>6. Sound(t) \/ (Aside(gba) /\ Aside(t))
    BY <2>3, <2>5, OtherFields, OtherFieldsAside
  <2>7. ~Sound(gba) /\ Aside(t) => session.loads = "calm"
    BY <1>1, <2>1
  <2>8. Sound(gba) => Sound(t)
    <3>1. ASSUME Sound(gba) PROVE Sound(s)
      BY <3>1, RunSound, WriteSound, RaiseSound
    <3> QED
      BY <2>5, <3>1, OtherFields
  <2> QED
    BY <2>2, <2>6, <2>7, <2>8 DEF t
<1>3. CASE GBAHalt
  <2>1. gba \in Clocks /\ pc # "tick"
    BY <1>1, <1>3 DEF GBAHalt, Sound, Aside
  <2> DEFINE on == TRUE   t == [gba EXCEPT !.nextEvent = gba.cycles, !.halted = on]
  <2>2. on \in BOOLEAN /\ gba' = t
    BY <1>3 DEF GBAHalt
  <2> HIDE DEF on
  <2>3. t \in Clocks /\ t.root = gba.root /\ t.next = gba.next /\ t.reroot = gba.reroot /\ t.asked = gba.asked
    BY <2>1, <2>2 DEF Clocks
  <2> HIDE DEF t
  <2>4. Kept(t)
    BY <1>1, <2>3, OtherFields, OtherFieldsAside
  <2>5. gba' = t /\ (Aside(gba) /\ ~Sound(gba) => session.loads = "calm")
    BY <1>1, <2>1, <2>2
  <2>6. (Sound(gba) => Sound(t)) /\ (Aside(gba) => Aside(t))
    BY <2>3, OtherFields, OtherFieldsAside
  <2> QED
    BY <1>1, <2>5, <2>6
<1>4. CASE GBAProcessEvents
  <2> DEFINE s == Advance(gba, 0)   t == [s EXCEPT !.nextEvent = IntMax]
  <2>1. gba' = t /\ pc' = "tick"
    BY <1>4 DEF GBAProcessEvents
  <2>2. Kept(s) /\ s \in Clocks
    BY <1>1, AdvanceSound DEF Sound, Aside
  <2> HIDE DEF s
  <2>3. t \in Clocks /\ t.root = s.root /\ t.next = s.next /\ t.reroot = s.reroot /\ t.asked = s.asked
    BY <2>2, ModulusIs DEF Clocks
  <2> HIDE DEF t
  <2>4. Kept(t)
    BY <2>2, <2>3, OtherFields, OtherFieldsAside
  <2> QED
    BY <2>1, <2>4
<1>5. ASSUME NEW e \in Events, Fire(e) PROVE (Sound(gba)' \/ Aside(gba)') /\ pc' = "tick"
  <2>1. gba.root = e /\ pc' = "tick"
    BY <1>5 DEF Fire
  <2>2. Sound(gba)
    BY <1>1, <2>1, EventsDiffer DEF Aside
  <2> DEFINE s == [gba EXCEPT !.root = gba.next[e], !.next[e] = Nil, !.when[e] = 0, !.asked = @ \ {e}]
             late == -Left(gba, e)
  <2>3. gba' \in Callback(s, e, late)
    BY <1>5 DEF Fire
  <2>4. Sound(s) /\ e \notin s.asked
    <3>1. Dropped(gba, e, s)
      BY <2>1, <2>2, FirstOut, Zenon
    <3> HIDE DEF s
    <3> QED
      BY <3>1 DEF Dropped
  <2>5. late \in Int
    BY <2>2, LeftIs DEF Sound
  <2> HIDE DEF s, late
  <2>6. \A t \in Callback(s, e, late) : Sound(t) \/ Aside(t)
    BY <2>4, <2>5, CallbackSound
  <2> QED
    BY <2>1, <2>3, <2>6
<1>6. CASE TickDone
  <2> DEFINE ended == TickEnds(gba)   first == TickReturns(gba, ended)
  <2>1. Sound(ended) /\ first \in Int
    BY <1>1, EndsSound
  <2>2. \/ gba' = Advance(ended, first)
        \/ gba' = [ended EXCEPT !.nextEvent = first, !.cycles = IF ended.halted THEN first ELSE @]
    BY <1>6 DEF TickDone
  <2> HIDE DEF ended, first
  <2> DEFINE spent == IF ended.halted THEN first ELSE ended.cycles
             t == [ended EXCEPT !.nextEvent = first, !.cycles = spent]
  <2>3. spent \in Int /\ ended \in Clocks
    BY <2>1 DEF Sound, Clocks
  <2>4. gba' = Advance(ended, first) \/ gba' = t
    BY <2>2, <2>3 DEF Clocks
  <2> HIDE DEF spent
  <2>5. t \in Clocks /\ t.root = ended.root /\ t.next = ended.next /\ t.reroot = ended.reroot /\ t.asked = ended.asked
    BY <2>1, <2>3 DEF Clocks
  <2> HIDE DEF t
  <2>6. Sound(t) /\ Sound(Advance(ended, first))
    BY <2>1, <2>3, <2>5, OtherFields, AdvanceSound
  <2> QED
    BY <2>4, <2>6
<1>7. CASE LoadState
  <2>1. gba \in Clocks
    BY <1>1 DEF Sound, Aside
  <2>2. PICK saved \in Saved : gba' \in GBADeserialize(gba, saved)
    BY <1>7 DEF LoadState
  <2>3. saved \in SavedStates
    BY DEF Saved
  <2>4. Aside(gba')
    BY <2>1, <2>2, <2>3, DeserializeSound
  <2>5. session.loads = "calm"
    BY <1>0, <1>7 DEF LoadState
  <2> QED
    BY <2>4, <2>5
<1>8. CASE UNCHANGED vars
  BY <1>1, <1>8 DEF vars
<1> QED
  BY <1>2, <1>3, <1>4, <1>5, <1>6, <1>7, <1>8 DEF Next, Runs

\* Whatever the times, the games and the savestates, those with a halted CPU or a DMA
\* under way included: no event that was scheduled gets lost, as long as states are
\* loaded in the callbacks of the video event, or between two run loops of a game that
\* asks for no event from there to the next tick.
THEOREM EventsAreKept == Spec => []NothingForgotten
<1>1. ListsInv => NothingForgotten
  BY NilList DEF ListsInv, NothingForgotten, Lists, Sound, Aside
<1> QED
  BY InitLists, NextLists, <1>1, PTL DEF Spec

-----------------------------------------------------------------------------
(* Arithmetic of the clock                                                 *)

\* x and y are the same time.
Same(x, y) == \E k \in Int : x = y + Modulus * k

LEMMA SameIs ==
  /\ \A x \in Int : Same(x, x)
  /\ \A x, y, z \in Int : Same(x, y) /\ Same(y, z) => Same(x, z)
  /\ \A x, y, u, v \in Int : Same(x, y) /\ Same(u, v) => Same(x + u, y + v) /\ Same(x - u, y - v)
<1> DEFINE M == Modulus
<1> HIDE DEF M
<1>1. M \in Int
  BY ModulusIs DEF M
<1>2. \A x, y : Same(x, y) <=> \E k \in Int : x = y + M * k
  BY DEF Same, M
<1>3. \A k, l \in Int : M * k + M * l = M * (k + l) /\ M * k - M * l = M * (k - l) /\ M * k \in Int
  BY <1>1
<1>4. \A x \in Int : Same(x, x)
  <2>1. M * 0 = 0 /\ 0 \in Int
    BY <1>1
  <2>2. \A x \in Int : x = x + M * 0
    BY <2>1
  <2> QED
    BY <1>2, <2>1, <2>2
<1>5. ASSUME NEW x \in Int, NEW y \in Int, NEW z \in Int, Same(x, y), Same(y, z) PROVE Same(x, z)
  <2>1. PICK k \in Int : x = y + M * k
    BY <1>2, <1>5
  <2>2. PICK l \in Int : y = z + M * l
    BY <1>2, <1>5
  <2>3. k + l \in Int /\ x = z + M * (k + l)
    <3> DEFINE a == M * k   b == M * l   c == M * (k + l)
    <3>1. a \in Int /\ b \in Int /\ c = a + b /\ x = y + a /\ y = z + b
      BY <1>3, <2>1, <2>2
    <3> HIDE DEF a, b, c
    <3>2. x = z + c
      BY <3>1
    <3> QED
      BY <3>2 DEF c
  <2> QED
    BY <1>2, <2>3
<1>6. ASSUME NEW x \in Int, NEW y \in Int, NEW u \in Int, NEW v \in Int, Same(x, y), Same(u, v)
      PROVE  Same(x + u, y + v) /\ Same(x - u, y - v)
  <2>1. PICK k \in Int : x = y + M * k
    BY <1>2, <1>6
  <2>2. PICK l \in Int : u = v + M * l
    BY <1>2, <1>6
  <2> DEFINE a == M * k   b == M * l   c == M * (k + l)   d == M * (k - l)
  <2>3. a \in Int /\ b \in Int /\ c = a + b /\ d = a - b /\ x = y + a /\ u = v + b
    BY <1>3, <2>1, <2>2
  <2> HIDE DEF a, b, c, d
  <2>4. x + u = (y + v) + c /\ x - u = (y - v) + d
    BY <2>3
  <2>5. x + u = (y + v) + M * (k + l) /\ x - u = (y - v) + M * (k - l) /\ k + l \in Int /\ k - l \in Int
    BY <2>4 DEF c, d
  <2> QED
    BY <1>2, <2>5
<1> QED
  BY <1>4, <1>5, <1>6

LEMMA WordSame == ASSUME NEW x \in Int PROVE Same(Word(x), x)
<1> DEFINE M == Modulus
<1> HIDE DEF M
<1>1. M \in Int /\ M > 0
  BY ModulusIs DEF M
<1>2. x = M * (x \div M) + (x % M) /\ x \div M \in Int /\ x % M \in Int
  BY <1>1, SMTT(20)
<1> DEFINE q == x \div M   r == x % M
<1>3. x = M * q + r /\ q \in Int /\ r \in Int
  BY <1>2
<1> HIDE DEF q, r
<1>4. r = x + M * (-q) /\ -q \in Int
  BY <1>1, <1>3
<1>5. r = Word(x)
  BY DEF r, M, Word
<1> QED
  BY <1>4, <1>5 DEF Same, M

\* In the range of int32_t, the difference of two times is what it seems to be.
LEMMA SignedIs ==
  ASSUME NEW x \in Int, NEW y \in Int, Same(x, y), -IntMax - 1 <= y, y <= IntMax
  PROVE  Signed(x) = y
<1> DEFINE M == Modulus   w == Word(x)
<1>1. w \in 0 .. M - 1 /\ w \in Int
  BY WordsAre
<1>2. Same(w, y)
  BY <1>1, WordSame, SameIs
<1>3. PICK k \in Int : w = y + M * k
  BY <1>2 DEF Same
<1>4. M \in Int /\ M >= 4 /\ IntMax \in Int /\ IntMax >= 1 /\ 2 * (IntMax + 1) <= M
  BY ModulusIs
<1>5. Signed(x) = IF w > IntMax THEN w - M ELSE w
  BY DEF Signed
<1> HIDE DEF M, w, IntMax
<1>6. k >= 2 => M * k >= 2 * M
  BY <1>4
<1>7. k <= -1 => M * k <= -M
  BY <1>4
<1>8. k \in {0, 1}
  <2>1. ~(k >= 2)
    <3> DEFINE a == M * k
    <3>1. a \in Int /\ w = y + a /\ (k >= 2 => a >= 2 * M)
      BY <1>3, <1>4, <1>6
    <3> HIDE DEF a
    <3> QED
      BY <1>1, <1>4, <3>1
  <2>2. ~(k <= -1)
    <3> DEFINE a == M * k
    <3>1. a \in Int /\ w = y + a /\ (k <= -1 => a <= -M)
      BY <1>3, <1>4, <1>7
    <3> HIDE DEF a
    <3> QED
      BY <1>1, <1>4, <3>1
  <2> QED
    BY <2>1, <2>2
<1>9. w = y \/ w = y + M
  <2>1. M * 0 = 0 /\ M * 1 = M
    BY <1>4
  <2> QED
    BY <1>3, <1>8, <2>1
<1> QED
  BY <1>1, <1>4, <1>5, <1>9

LEMMA LeftSame ==
  ASSUME NEW s \in Clocks, NEW e \in Events
  PROVE  Same(Left(s, e), s.when[e] - s.masterCycles)
<1> DEFINE x == s.when[e] - s.masterCycles
<1>1. x \in Int
  BY DEF Clocks
<1> HIDE DEF x
<1>2. Same(Signed(x), Word(x))
  <2>1. Word(x) \in Int /\ Modulus \in Int
    BY <1>1, WordsAre, ModulusIs
  <2> DEFINE M == Modulus   w == Word(x)
  <2>2. Signed(x) = w \/ Signed(x) = w - M
    BY DEF Signed
  <2> HIDE DEF M, w
  <2>3. w + M * 0 = w /\ w + M * (-1) = w - M /\ 0 \in Int /\ -1 \in Int
    BY <2>1 DEF M, w
  <2>4. \E k \in Int : Signed(x) = w + M * k
    BY <2>2, <2>3
  <2> QED
    BY <2>4 DEF Same, M, w
<1>3. Same(Signed(x), x)
  BY <1>1, <1>2, WordSame, WordsAre, SameIs
<1> QED
  BY <1>3 DEF x, Left

\* The time moves on and what is left of every event gets less.
LEMMA AdvanceLeft ==
  ASSUME NEW s \in Clocks, NEW passed \in Int, NEW e \in Events,
         -IntMax - 1 <= Left(s, e) - passed - s.cycles, Left(s, e) - passed - s.cycles <= IntMax
  PROVE  Left(Advance(s, passed), e) = Left(s, e) - passed - s.cycles
<1> DEFINE now == s.masterCycles + passed + s.cycles   gone == passed + s.cycles
           time == s.when[e]   m == s.masterCycles   left == Left(s, e)
<1>1. now \in Int /\ Word(now) \in Int /\ Same(Word(now), now) /\ gone \in Int /\ time \in Int /\ m \in Int
      /\ left \in Int
  <2>1. now \in Int /\ gone \in Int /\ time \in Int /\ m \in Int
    BY DEF Clocks
  <2> HIDE DEF now
  <2> QED
    BY <2>1, WordsAre, WordSame, LeftIs
<1>2. Left(Advance(s, passed), e) = Signed(time - Word(now))
  BY DEF Left, Advance, Clocks
<1>3. Same(left, time - m)
  BY LeftSame
<1>4. now = m + gone /\ Left(s, e) - passed - s.cycles = left - gone
  <2>1. s.cycles \in Int /\ m \in Int
    BY DEF Clocks
  <2> HIDE DEF m
  <2>2. m + passed + s.cycles = m + (passed + s.cycles)
    BY <2>1
  <2>3. left - passed - s.cycles = left - (passed + s.cycles)
    BY <1>1, <2>1
  <2> QED
    BY <2>2, <2>3 DEF m
<1> HIDE DEF now, gone, time, m, left
<1>5. Same(time - Word(now), time - now)
  BY <1>1, SameIs
<1>6. time - now = (time - m) - gone /\ time - now \in Int /\ time - m \in Int /\ left - gone \in Int
  BY <1>1, <1>4
<1>7. Same(time - m, left)
  <2> DEFINE M == Modulus
  <2>1. PICK k \in Int : left = (time - m) + M * k
    BY <1>3 DEF Same
  <2>2. M \in Int
    BY ModulusIs
  <2> HIDE DEF M
  <2>3. time - m = left + M * (-k) /\ -k \in Int
    BY <1>6, <1>1, <2>1, <2>2
  <2> QED
    BY <2>3 DEF Same, M
<1>8. Same(time - now, left - gone)
  BY <1>1, <1>6, <1>7, SameIs
<1>9. Same(time - Word(now), left - gone) /\ time - Word(now) \in Int
  <2> DEFINE x == time - Word(now)   y == time - now   z == left - gone
  <2>1. x \in Int /\ y \in Int /\ z \in Int /\ Same(x, y) /\ Same(y, z)
    BY <1>1, <1>5, <1>6, <1>8
  <2> HIDE DEF x, y, z
  <2>2. Same(x, z)
    BY <2>1, SameIs
  <2> QED
    BY <2>1, <2>2 DEF x, z
<1> QED
  BY <1>2, <1>4, <1>6, <1>9, SignedIs DEF left

-----------------------------------------------------------------------------
(* The order of the list                                                   *)

\* o comes before e.
Ahead(s, o, e) ==
  \/ Left(s, o) < Left(s, e)
  \/ Left(s, o) = Left(s, e) /\ Priority(o) < Priority(e)

InOrder(s, p) ==
  \A n \in 1..4 : LET o == Walk(s, p)[n - 1]
                      e == Walk(s, p)[n]
                  IN  o # Nil /\ e # Nil => Ahead(s, o, e)

LEMMA PrioritiesDiffer ==
  \A o, e \in Events : Priority(o) \in Int /\ (o # e => Priority(o) # Priority(e))
<1>1. Priority(IRQ) = 0 /\ Priority(Video) = 8 /\ Priority(Timer) = 32 /\ Priority(Dma) = 64
  BY EventsDiffer DEF Priority
<1> QED
  BY <1>1 DEF Events

LEMMA AheadOfLater ==
  ASSUME NEW s \in Clocks, NEW a \in Events, NEW b \in Events, NEW c \in Events,
         Ahead(s, a, b), Ahead(s, b, c)
  PROVE  Ahead(s, a, c)
<1>1. /\ Left(s, a) \in Int /\ Left(s, b) \in Int /\ Left(s, c) \in Int
      /\ Priority(a) \in Int /\ Priority(b) \in Int /\ Priority(c) \in Int
  BY LeftIs, PrioritiesDiffer
<1> QED
  BY <1>1 DEF Ahead

\* The first event of a list in order is the first to come.
LEMMA FirstIsFirst ==
  ASSUME NEW s \in Clocks, NEW p \in Events, IsList(s, p), InOrder(s, p), NEW e \in Linked(s, p)
  PROVE  Left(s, p) <= Left(s, e)
<1> DEFINE w == Walk(s, p)
<1>1. w[0] = p /\ \A n \in 0..4 : w[n] \in Links
  BY WalkAt DEF IsList
<1>2. PICK k \in 0..4 : e = w[k] /\ e # Nil
  BY LinkedIs
<1>3. \A n \in 1..4 : w[n - 1] # Nil /\ w[n] # Nil => Ahead(s, w[n - 1], w[n])
  BY DEF InOrder
<1>4. \A n \in 1..4 : w[n] # Nil => w[n - 1] # Nil
  BY WalkIs DEF Behind
<1>5. \A n \in 0..4 : w[n] # Nil => w[n] \in Events
  BY <1>1 DEF Links
<1>6. \A x \in Events : Left(s, x) \in Int /\ Priority(x) \in Int
  BY LeftIs, PrioritiesDiffer
<1> HIDE DEF w
<1> DEFINE Later(n) == w[n] # Nil => Left(s, p) <= Left(s, w[n])
<1>7. Later(0)
  BY <1>1, <1>6
<1>8. ASSUME NEW n \in 1..4, Later(n - 1) PROVE Later(n)
  <2> SUFFICES ASSUME w[n] # Nil PROVE Left(s, p) <= Left(s, w[n])
    OBVIOUS
  <2> DEFINE o == w[n - 1]   x == w[n]
  <2>1. n - 1 \in 0..4 /\ n \in 0..4
    OBVIOUS
  <2>2. o \in Events /\ x \in Events /\ o # Nil
    BY <1>4, <1>5, <2>1
  <2>3. Ahead(s, o, x)
    BY <1>3, <2>2
  <2>4. Left(s, p) <= Left(s, o)
    BY <1>8, <2>2
  <2> HIDE DEF o, x
  <2>5. Left(s, o) <= Left(s, x)
    BY <1>6, <2>2, <2>3 DEF Ahead
  <2>6. Left(s, p) <= Left(s, x)
    BY <1>6, <2>2, <2>4, <2>5
  <2> QED
    BY <2>6 DEF x
<1>9. Later(0) /\ Later(1) /\ Later(2) /\ Later(3) /\ Later(4)
  <2> HIDE DEF Later
  <2>1. 1 \in 1..4 /\ 2 \in 1..4 /\ 3 \in 1..4 /\ 4 \in 1..4
        /\ 1 - 1 = 0 /\ 2 - 1 = 1 /\ 3 - 1 = 2 /\ 4 - 1 = 3
    OBVIOUS
  <2>2. Later(1)
    BY <1>7, <1>8, <2>1
  <2>3. Later(2)
    BY <1>8, <2>1, <2>2
  <2>4. Later(3)
    BY <1>8, <2>1, <2>3
  <2> QED
    BY <1>7, <1>8, <2>1, <2>2, <2>3, <2>4
<1>10. Later(k)
  <2> HIDE DEF Later
  <2> QED  BY <1>9
<1> QED
  BY <1>2, <1>10

\* Order only depends on what is left of the events and on the links.
LEMMA OrderSame ==
  ASSUME NEW s, NEW t, NEW p, NEW q, Walk(t, q) = Walk(s, p), InOrder(s, p),
         NEW S, \A n \in 0..4 : Walk(s, p)[n] # Nil => Walk(s, p)[n] \in S,
         NEW k \in Int, \A e \in S : Left(s, e) \in Int /\ Left(t, e) = Left(s, e) - k
  PROVE  InOrder(t, q)
<1> DEFINE w == Walk(s, p)
<1> SUFFICES ASSUME NEW n \in 1..4, w[n - 1] # Nil, w[n] # Nil PROVE Ahead(t, w[n - 1], w[n])
  BY DEF InOrder
<1>1. n - 1 \in 0..4 /\ n \in 0..4
  OBVIOUS
<1>2. Ahead(s, w[n - 1], w[n]) /\ w[n - 1] \in S /\ w[n] \in S
  BY <1>1 DEF InOrder
<1> DEFINE o == w[n - 1]   e == w[n]
<1> HIDE DEF o, e
<1>3. Ahead(s, o, e) /\ o \in S /\ e \in S
  BY <1>2 DEF o, e
<1>4. Left(t, o) = Left(s, o) - k /\ Left(t, e) = Left(s, e) - k /\ Left(s, o) \in Int /\ Left(s, e) \in Int
  BY <1>3
<1>5. Ahead(t, o, e)
  BY <1>3, <1>4 DEF Ahead
<1> QED
  BY <1>5 DEF o, e

\* Taking an event out leaves the others in order.
LEMMA DroppedOrder ==
  ASSUME NEW s, Sound(s), InOrder(s, s.root), NEW e \in Events, NEW t, Dropped(s, e, t)
  PROVE  InOrder(t, t.root) /\ \A o \in Events : o # e => Left(t, o) = Left(s, o)
<1>1. \A o \in Events : o # e => Left(t, o) = Left(s, o)
  BY DEF Dropped, Untouched, Left
<1> DEFINE w == Walk(s, s.root)   v == Walk(t, t.root)
<1>2. PICK n \in 0..4 : \A m \in 0..4 : v[m] = IF m < n THEN w[m] ELSE IF m < 4 THEN w[m + 1] ELSE Nil
  BY DEF Dropped
<1>3. \A m \in 0..4 : v[m] # Nil => v[m] \in Events /\ v[m] # e
  <2>1. Sound(t) /\ t.asked = s.asked \ {e}
    BY DEF Dropped
  <2> QED
    BY <2>1, LinkedIs DEF Sound, IsList, Links
<1>4. \A m \in 0..4 : w[m] # Nil => w[m] \in Events
  BY DEF Sound, IsList, Links
<1>5. \A m \in 1..4 : w[m] # Nil => w[m - 1] # Nil
  BY WalkIs DEF Behind
<1>6. \A m \in 1..4 : w[m - 1] # Nil /\ w[m] # Nil => Ahead(s, w[m - 1], w[m])
  BY DEF InOrder
<1>7. s \in Clocks
  BY DEF Sound
<1> SUFFICES ASSUME NEW m \in 1..4, v[m - 1] # Nil, v[m] # Nil PROVE Ahead(t, v[m - 1], v[m])
  BY <1>1 DEF InOrder
<1> HIDE DEF w, v
<1>8. Ahead(s, v[m - 1], v[m])
  <2>1. m - 1 \in 0..4 /\ m \in 0..4
    OBVIOUS
  <2>2. CASE m < n
    <3>1. m - 1 < n
      BY <2>2
    <3>2. v[m - 1] = w[m - 1] /\ v[m] = w[m]
      BY <1>2, <2>1, <2>2, <3>1
    <3> QED
      BY <1>6, <3>2
  <2>3. CASE m = n
    <3>1. m < 4
      BY <1>2, <2>1, <2>3
    <3>2. v[m - 1] = w[m - 1] /\ v[m] = w[m + 1]
      <4>1. m - 1 < n /\ ~(m < n)
        BY <2>3
      <4> QED
        BY <1>2, <2>1, <3>1, <4>1
    <3> DEFINE a == w[m - 1]   b == w[m]   c == w[m + 1]
    <3>3. m + 1 \in 1..4 /\ (m + 1) - 1 = m /\ m + 1 \in 0..4
      BY <3>1
    <3>4. a # Nil /\ c # Nil /\ b # Nil
      BY <1>5, <3>2, <3>3
    <3>5. Ahead(s, a, b) /\ Ahead(s, b, c)
      <4>1. Ahead(s, w[(m + 1) - 1], w[m + 1])
        BY <1>6, <3>3, <3>4
      <4> QED
        BY <1>6, <3>3, <3>4, <4>1
    <3>6. a \in Events /\ b \in Events /\ c \in Events
      BY <1>4, <2>1, <3>3, <3>4
    <3> HIDE DEF a, b, c
    <3>7. Ahead(s, a, c)
      BY <1>7, <3>5, <3>6, AheadOfLater
    <3> QED
      BY <3>2, <3>7 DEF a, c
  <2>4. CASE m > n
    <3>1. ~(m < n) /\ ~(m - 1 < n) /\ m - 1 < 4
      BY <2>4
    <3>2. m < 4
      BY <1>2, <2>1, <3>1
    <3>3. v[m - 1] = w[(m - 1) + 1] /\ v[m] = w[m + 1]
      BY <1>2, <2>1, <3>1, <3>2
    <3>4. (m - 1) + 1 = m /\ m + 1 \in 1..4 /\ (m + 1) - 1 = m
      BY <3>2
    <3>5. v[m - 1] = w[m] /\ v[m] = w[m + 1]
      BY <3>3, <3>4
    <3>6. Ahead(s, w[(m + 1) - 1], w[m + 1])
      BY <1>6, <3>4, <3>5
    <3> QED
      BY <3>4, <3>5, <3>6
  <2> QED
    BY <2>2, <2>3, <2>4
<1>9. m - 1 \in 0..4 /\ m \in 0..4
  OBVIOUS
<1>10. v[m - 1] \in Events /\ v[m - 1] # e /\ v[m] \in Events /\ v[m] # e
  BY <1>3, <1>9
<1> DEFINE a == v[m - 1]   b == v[m]
<1>11. Ahead(s, a, b) /\ Left(t, a) = Left(s, a) /\ Left(t, b) = Left(s, b)
  BY <1>1, <1>8, <1>10
<1> HIDE DEF a, b
<1>12. Ahead(t, a, b)
  BY <1>11 DEF Ahead
<1> QED
  BY <1>12 DEF a, b

\* Scheduling an event puts it where it belongs.
LEMMA ScheduleOrder ==
  ASSUME NEW s, Listed(s), InOrder(s, s.root), NEW e \in Events, e \notin s.asked,
         NEW d \in Int, -IntMax - 1 <= d + s.cycles, d + s.cycles <= IntMax,
         NEW t, t = mTimingSchedule(s, e, d)
  PROVE  /\ InOrder(t, t.root) /\ Left(t, e) = d + s.cycles
         /\ \A o \in Events : o # e => Left(t, o) = Left(s, o)
         /\ t.nextEvent = Lesser(s.nextEvent, d + s.cycles)
<1> DEFINE u == Timed(s, e, d)   w == Walk(s, s.root)   v == Walk(t, t.root)   at == d + s.cycles
<1>1. s \in Clocks /\ IsList(s, s.root) /\ e \notin Linked(s, s.root) /\ s.cycles \in Int /\ at \in Int
      /\ s.masterCycles \in Int
  BY DEF Listed, Clocks
<1>2. NextAt(s, d) = at
  <2>1. Same(at, at)
    BY <1>1, SameIs
  <2> QED
    BY <1>1, <2>1, SignedIs DEF NextAt
<1>3. PICK n \in 0..3 : /\ t = InsertAt(u, e, n)
                        /\ \A m \in 0..4 : m < n => w[m] # Nil /\ ~After(u, w[m], e, at)
                        /\ w[n] = Nil \/ After(u, w[n], e, at)
  <2>1. \E n \in 0..3 : /\ mTimingSchedule(s, e, d) = InsertAt(u, e, n)
                        /\ \A m \in 0..4 : m < n => w[m] # Nil /\ ~After(u, w[m], e, NextAt(s, d))
                        /\ w[n] = Nil \/ After(u, w[n], e, NextAt(s, d))
    BY <1>1, ScheduledAt
  <2> HIDE DEF u, w, at
  <2> QED
    BY <1>2, <2>1
<1>4. /\ u \in Clocks /\ u.masterCycles = s.masterCycles /\ u.root = s.root /\ u.next = s.next
      /\ u.when = [s.when EXCEPT ![e] = Word(at + s.masterCycles)]
      /\ u.nextEvent = Lesser(s.nextEvent, at)
  BY <1>1, <1>2, TimedIs DEF Untouched
<1> HIDE DEF u
<1>5. Walk(u, u.root) = w /\ Linked(u, u.root) = Linked(s, s.root) /\ IsList(u, u.root)
  <2>1. u.root = s.root /\ u.next = s.next
    BY <1>4
  <2>2. Walk(u, s.root) = Walk(s, s.root) /\ Linked(u, s.root) = Linked(s, s.root)
        /\ (IsList(u, s.root) <=> IsList(s, s.root))
    BY ONLY <2>1, WalkSame
  <2> QED
    BY <1>1, <2>1, <2>2
<1>6. n > 0 => Walk(u, u.root)[n - 1] # Nil
  <2>1. n > 0 => n - 1 \in 0..4 /\ n - 1 < n
    OBVIOUS
  <2> QED
    BY <1>3, <1>5, <2>1
<1>7. t.when = u.when /\ t.masterCycles = u.masterCycles /\ t.nextEvent = u.nextEvent
  BY <1>1, <1>3, <1>4, <1>5, <1>6, InsertIs DEF Untouched
<1>8. \A m \in 0..4 : v[m] = IF m < n THEN w[m] ELSE IF m = n THEN e ELSE w[m - 1]
  <2>1. u \in Clocks /\ IsList(u, u.root) /\ e \notin Linked(u, u.root) /\ t = InsertAt(u, e, n)
        /\ Walk(u, u.root) = w
    BY <1>1, <1>3, <1>4, <1>5
  <2> HIDE DEF w
  <2>2. \A m \in 0..4 : Walk(InsertAt(u, e, n), InsertAt(u, e, n).root)[m] =
           IF m < n THEN Walk(u, u.root)[m] ELSE IF m = n THEN e ELSE Walk(u, u.root)[m - 1]
    BY ONLY <2>1, <1>6, InsertedWalk, n \in 0..3, e \in Events
  <2> QED
    BY <2>1, <2>2
<1>9. \A o : Left(t, o) = Left(u, o)
  BY <1>7 DEF Left
<1>10. \A o \in Events : o # e => Left(t, o) = Left(s, o)
  <2>1. \A o \in Events : o # e => u.when[o] = s.when[o]
    BY <1>1, <1>4 DEF Clocks
  <2>2. t.masterCycles = s.masterCycles /\ t.when = u.when
    BY <1>4, <1>7
  <2> QED
    BY <2>1, <2>2 DEF Left
<1>11. Left(t, e) = at
  <2> DEFINE m == s.masterCycles   word == Word(at + m)
  <2> HIDE DEF at
  <2>1. t.when[e] = word /\ t.masterCycles = m
    BY <1>1, <1>4, <1>7 DEF Clocks
  <2>2. m \in Int /\ at + m \in Int /\ at \in Int
    BY <1>1
  <2>3. word \in Int /\ Same(word, at + m) /\ Same(m, m)
    BY <2>2, WordsAre, WordSame, SameIs
  <2> HIDE DEF word, m
  <2>4. Same(word - m, (at + m) - m) /\ (at + m) - m = at /\ word - m \in Int
    BY <2>2, <2>3, SameIs
  <2>5. Same(word - m, at)
    BY <2>4
  <2>6. -IntMax - 1 <= at /\ at <= IntMax
    BY DEF at
  <2>7. Signed(word - m) = at
    BY <2>2, <2>4, <2>5, <2>6, SignedIs
  <2> QED
    BY <2>1, <2>7 DEF Left
<1>12. \A m \in 0..4 : w[m] # Nil => w[m] \in Events /\ w[m] # e
  BY <1>1, LinkedIs DEF IsList, Links
<1>13. \A m \in 1..4 : w[m - 1] # Nil /\ w[m] # Nil => Ahead(s, w[m - 1], w[m])
  BY DEF InOrder
<1> SUFFICES ASSUME NEW m \in 1..4, v[m - 1] # Nil, v[m] # Nil PROVE Ahead(t, v[m - 1], v[m])
  <2> HIDE DEF at
  <2>1. t.nextEvent = Lesser(s.nextEvent, at)
    BY <1>4, <1>7
  <2>2. InOrder(t, t.root)
    BY DEF InOrder
  <2> QED
    BY <1>10, <1>11, <2>1, <2>2 DEF at
<1> HIDE DEF w, v, at
<1>14. m - 1 \in 0..4 /\ m \in 0..4
  OBVIOUS
<1>15. ASSUME NEW i \in 1..4, w[i - 1] # Nil, w[i] # Nil PROVE Ahead(t, w[i - 1], w[i])
  <2>1. i - 1 \in 0..4 /\ i \in 0..4
    OBVIOUS
  <2> DEFINE a == w[i - 1]   b == w[i]
  <2>2. Ahead(s, a, b) /\ a \in Events /\ a # e /\ b \in Events /\ b # e
    BY <1>12, <1>13, <1>15, <2>1
  <2> HIDE DEF a, b
  <2>3. Ahead(t, a, b)
    BY <1>10, <2>2 DEF Ahead
  <2> QED
    BY <2>3 DEF a, b
<1>16. CASE m < n
  <2>1. m - 1 < n
    BY <1>16
  <2>2. v[m - 1] = w[m - 1] /\ v[m] = w[m]
    BY <1>8, <1>14, <1>16, <2>1
  <2> QED
    BY <1>15, <2>2
<1>17. CASE m = n
  <2>1. m - 1 < n /\ ~(m < n)
    BY <1>17
  <2> DEFINE a == w[m - 1]
  <2>2. v[m - 1] = a /\ v[m] = e
    BY <1>8, <1>14, <1>17, <2>1
  <2>3. a # Nil /\ ~After(u, a, e, at) /\ a \in Events /\ a # e
    BY <1>3, <1>12, <1>14, <2>1
  <2> HIDE DEF a
  <2>4. Left(s, a) \in Int /\ Left(u, a) = Left(s, a) /\ Left(t, a) = Left(s, a)
    BY <1>1, <1>9, <1>10, <2>3, LeftIs
  <2>5. Priority(a) \in Int /\ Priority(e) \in Int /\ Priority(a) # Priority(e)
    BY <2>3, PrioritiesDiffer
  <2>6. Ahead(t, a, e)
    BY <1>1, <1>11, <2>3, <2>4, <2>5 DEF Ahead, After
  <2> QED
    BY <2>2, <2>6
<1>18. CASE m = n + 1
  <2>1. ~(m < n) /\ m # n /\ m - 1 = n /\ n \in 0..4
    BY <1>18
  <2> DEFINE b == w[n]
  <2>2. v[m - 1] = e /\ v[m] = b
    <3>1. v[n] = e
      BY <1>8, <2>1
    <3>2. v[m] = w[m - 1]
      BY <1>8, <1>14, <2>1
    <3> QED
      BY <2>1, <3>1, <3>2
  <2>3. b # Nil /\ After(u, b, e, at) /\ b \in Events /\ b # e
    BY <1>3, <1>12, <2>1, <2>2
  <2> HIDE DEF b
  <2>4. Left(s, b) \in Int /\ Left(u, b) = Left(s, b) /\ Left(t, b) = Left(s, b)
    BY <1>1, <1>9, <1>10, <2>3, LeftIs
  <2>5. Priority(b) \in Int /\ Priority(e) \in Int
    BY <2>3, PrioritiesDiffer
  <2>6. Ahead(t, e, b)
    BY <1>1, <1>11, <2>3, <2>4, <2>5 DEF Ahead, After
  <2> QED
    BY <2>2, <2>6
<1>19. CASE m > n + 1
  <2>1. ~(m < n) /\ m # n /\ ~(m - 1 < n) /\ m - 1 # n /\ m - 1 \in 1..4
    BY <1>19
  <2>2. v[m - 1] = w[(m - 1) - 1] /\ v[m] = w[m - 1]
    BY <1>8, <1>14, <2>1
  <2>3. Ahead(t, w[(m - 1) - 1], w[m - 1])
    BY <1>15, <2>1, <2>2
  <2> QED
    BY <2>2, <2>3
<1> QED
  BY <1>16, <1>17, <1>18, <1>19

-----------------------------------------------------------------------------
(* Times within their bounds                                               *)

LEMMA BoundsAre ==
  ASSUME NEW b, Bounds(b)
  PROVE  /\ b.late \in Int /\ b.wait \in Int /\ b.line \in Int /\ b.late >= 0
         /\ IrqLength <= b.late /\ \A c \in Lengths : c <= b.late
         /\ Reload <= b.wait /\ IrqDelay <= b.wait /\ DmaDelay <= b.wait /\ Unit <= b.wait
         /\ Line + IrqLength <= b.line /\ b.wait + b.line <= IntMax + 1 /\ b.late + IrqLength <= IntMax
BY DEF Bounds

\* The most that can be left of an event.
Latest(b, e) == IF e = Video THEN b.line ELSE b.wait + b.line - 1

Upcoming(s, b) ==
  /\ Listed(s) /\ InOrder(s, s.root) /\ s.cycles >= 0
  /\ \A e \in s.asked : -b.late <= Left(s, e) /\ Left(s, e) <= Latest(b, e)

\* The same of the only list there is.
InTime(s, b) ==
  /\ Sound(s) /\ InOrder(s, s.root) /\ s.cycles >= 0
  /\ \A e \in s.asked : -b.late <= Left(s, e) /\ Left(s, e) <= Latest(b, e)

\* t is s with e scheduled for the time at.
Moved(s, e, at, t) ==
  /\ Untouched(s, t) /\ t.asked = s.asked \cup {e} /\ Left(t, e) = at
  /\ \A o \in Events : o # e => Left(t, o) = Left(s, o)
  /\ t.nextEvent = Lesser(s.nextEvent, at)

LEMMA LatestIs ==
  ASSUME NEW b, Bounds(b), NEW e \in Events
  PROVE  /\ Latest(b, e) \in Int /\ Latest(b, e) <= IntMax /\ Latest(b, e) >= b.line
         /\ (e # Video => Latest(b, e) = b.wait + b.line - 1)
         /\ Latest(b, e) <= b.wait + b.line - 1 /\ b.wait >= 1 /\ b.line >= 1
         /\ -IntMax - 1 <= -b.late
<1> HIDE DEF IntMax
<1> QED
  BY BoundsAre, TimesAre, ModulusIs DEF Latest

LEMMA ScheduleUpcoming ==
  ASSUME NEW b, Bounds(b), NEW s, Upcoming(s, b), NEW e \in Events, e \notin s.asked, NEW d \in Int,
         -b.late <= d + s.cycles, d + s.cycles <= Latest(b, e), NEW t, t = mTimingSchedule(s, e, d)
  PROVE  Upcoming(t, b) /\ Moved(s, e, d + s.cycles, t)
<1> DEFINE at == d + s.cycles
<1>1. Listed(s) /\ InOrder(s, s.root) /\ s.cycles \in Int /\ s.cycles >= 0 /\ at \in Int
  BY DEF Upcoming, Listed, Clocks
<1>2. Listed(t) /\ Untouched(s, t) /\ t.asked = s.asked \cup {e}
  <2>1. s \in Clocks /\ IsList(s, s.root) /\ s.asked = Linked(s, s.root) /\ e \notin Linked(s, s.root)
    BY <1>1 DEF Listed
  <2>2. /\ t \in Clocks /\ Untouched(s, t) /\ IsList(t, t.root)
        /\ Linked(t, t.root) = Linked(s, s.root) \cup {e} /\ t.asked = s.asked \cup {e}
    BY <2>1, ScheduleIs
  <2> QED
    BY <2>1, <2>2 DEF Listed
<1>3. -IntMax - 1 <= at /\ at <= IntMax
  <2> HIDE DEF IntMax
  <2>1. -b.late <= at /\ at <= Latest(b, e)
    OBVIOUS
  <2> HIDE DEF at
  <2> QED
    BY <1>1, <2>1, LatestIs, BoundsAre, ModulusIs
<1>4. /\ InOrder(t, t.root) /\ Left(t, e) = at
      /\ \A o \in Events : o # e => Left(t, o) = Left(s, o)
      /\ t.nextEvent = Lesser(s.nextEvent, at)
  BY <1>1, <1>3, ScheduleOrder
<1>5. Moved(s, e, at, t)
  <2> HIDE DEF at
  <2> QED  BY <1>2, <1>4 DEF Moved
<1>6. \A o \in t.asked : -b.late <= Left(t, o) /\ Left(t, o) <= Latest(b, o)
  <2> TAKE o \in t.asked
  <2>1. o \in Events
    BY <1>2 DEF Listed, Clocks
  <2>2. CASE o = e
    BY <1>4, <2>2
  <2>3. CASE o # e
    <3>1. o \in s.asked /\ Left(t, o) = Left(s, o)
      BY <1>2, <1>4, <2>1, <2>3
    <3> QED
      BY <3>1 DEF Upcoming
  <2> QED
    BY <2>2, <2>3
<1>7. t.cycles >= 0
  BY <1>1, <1>2 DEF Untouched
<1> QED
  BY <1>2, <1>4, <1>5, <1>6, <1>7 DEF Upcoming

LEMMA ScheduleInTime ==
  ASSUME NEW b, Bounds(b), NEW s, InTime(s, b), NEW e \in Events, e \notin s.asked, NEW d \in Int,
         -b.late <= d + s.cycles, d + s.cycles <= Latest(b, e), NEW t, t = mTimingSchedule(s, e, d)
  PROVE  InTime(t, b) /\ Moved(s, e, d + s.cycles, t)
<1>1. Upcoming(s, b) /\ s.reroot = Nil
  BY DEF InTime, Upcoming, Sound, Listed
<1> DEFINE at == d + s.cycles
<1>2. Upcoming(t, b) /\ Moved(s, e, at, t)
  BY <1>1, ScheduleUpcoming
<1> HIDE DEF at
<1>3. t.reroot = Nil
  BY <1>1, <1>2 DEF Moved, Untouched
<1> QED
  BY <1>2, <1>3 DEF InTime, Upcoming, Sound, Listed, at

LEMMA DropInTime ==
  ASSUME NEW b, NEW s, InTime(s, b), NEW e \in Events, NEW t, Dropped(s, e, t)
  PROVE  InTime(t, b) /\ Untouched(s, t) /\ t.asked = s.asked \ {e} /\ t.nextEvent = s.nextEvent
         /\ \A o \in Events : o # e => Left(t, o) = Left(s, o)
<1>1. Sound(s) /\ InOrder(s, s.root) /\ s.cycles >= 0
  BY DEF InTime
<1>2. InOrder(t, t.root) /\ \A o \in Events : o # e => Left(t, o) = Left(s, o)
  BY <1>1, DroppedOrder
<1>3. Sound(t) /\ Untouched(s, t) /\ t.asked = s.asked \ {e} /\ t.nextEvent = s.nextEvent
  BY DEF Dropped
<1>4. t.cycles >= 0
  BY <1>1, <1>3 DEF Untouched
<1>5. \A o \in t.asked : o \in s.asked /\ o \in Events /\ o # e
  BY <1>3 DEF Sound, Clocks
<1>6. \A o \in t.asked : -b.late <= Left(t, o) /\ Left(t, o) <= Latest(b, o)
  BY <1>2, <1>5 DEF InTime
<1> QED
  BY <1>2, <1>3, <1>4, <1>6 DEF InTime

LEMMA RescheduleInTime ==
  ASSUME NEW b, Bounds(b), NEW s, InTime(s, b), NEW e \in Events, NEW d \in Int,
         -b.late <= d + s.cycles, d + s.cycles <= Latest(b, e), NEW t \in Reschedule(s, e, d)
  PROVE  InTime(t, b) /\ Moved(s, e, d + s.cycles, t)
<1> DEFINE u == mTimingDeschedule(s, e)
<1>1. Dropped(s, e, u)
  BY DescheduleIs DEF InTime
<1>2. t = mTimingSchedule(u, e, d)
  BY DEF Reschedule
<1> HIDE DEF u
<1>3. /\ InTime(u, b) /\ Untouched(s, u) /\ u.asked = s.asked \ {e} /\ u.nextEvent = s.nextEvent
      /\ \A o \in Events : o # e => Left(u, o) = Left(s, o)
  BY <1>1, DropInTime
<1>4. u.cycles = s.cycles /\ e \notin u.asked
  BY <1>3 DEF Untouched
<1>5. InTime(t, b) /\ Moved(u, e, d + s.cycles, t)
  <2>1. -b.late <= d + u.cycles /\ d + u.cycles <= Latest(b, e)
    BY <1>4
  <2>2. InTime(t, b) /\ Moved(u, e, d + u.cycles, t)
    BY <1>2, <1>3, <1>4, <2>1, ScheduleInTime
  <2> QED
    BY <1>4, <2>2
<1> DEFINE at == d + s.cycles
<1> HIDE DEF at
<1>6. InTime(t, b) /\ Moved(u, e, at, t)
  BY <1>5 DEF at
<1>7. Moved(s, e, at, t)
  <2>1. Untouched(s, t)
    BY <1>3, <1>6 DEF Moved, Untouched
  <2>2. t.asked = s.asked \cup {e} /\ Left(t, e) = at
    BY <1>3, <1>6 DEF Moved
  <2>3. \A o \in Events : o # e => Left(t, o) = Left(s, o)
    BY <1>3, <1>6 DEF Moved
  <2>4. t.nextEvent = Lesser(s.nextEvent, at)
    BY <1>3, <1>6 DEF Moved
  <2> QED
    BY <2>1, <2>2, <2>3, <2>4 DEF Moved
<1> QED
  BY <1>6, <1>7 DEF at

\* A machine changed only in what the times do not depend on.
LEMMA OtherInTime ==
  ASSUME NEW b, NEW s, InTime(s, b), NEW t \in Clocks, t.root = s.root, t.next = s.next,
         t.reroot = s.reroot, t.asked = s.asked, t.when = s.when, t.masterCycles = s.masterCycles,
         t.cycles >= 0
  PROVE  InTime(t, b) /\ \A o : Left(t, o) = Left(s, o)
<1>1. \A o : Left(t, o) = Left(s, o)
  BY DEF Left
<1>2. Sound(s) /\ InOrder(s, s.root)
  BY DEF InTime
<1>3. Sound(t)
  BY <1>2, OtherFields
<1>4. Walk(t, t.root) = Walk(s, s.root)
  BY WalkSame
<1>5. InOrder(t, t.root)
  BY <1>1, <1>2, <1>4 DEF InOrder, Ahead
<1> QED
  BY <1>1, <1>3, <1>5 DEF InTime

-----------------------------------------------------------------------------
(* The callers keep the times within their bounds                          *)

\* In mTimingTick: only the interrupt takes time, and it does so once.
Ticking(s, b) ==
  /\ InTime(s, b) /\ s.cycles <= IrqLength
  /\ s.cycles > 0 /\ IRQ \in s.asked => Left(s, IRQ) >= 1

\* While instructions run.
Running(s, b) ==
  /\ InTime(s, b) /\ Video \in s.asked /\ s.cycles < s.nextEvent
  /\ \A e \in s.asked : s.nextEvent <= Left(s, e)

\* A state has been loaded: its events wait aside for the end of mTimingTick, and
\* none of them is further from another than the first of them may be late.
Loaded(s, b) ==
  /\ Aside(s) /\ InOrder(s, s.reroot) /\ Video \in s.asked /\ s.cycles >= 0
  /\ \A e \in s.asked : /\ -b.late <= Left(s, e) - s.cycles /\ Left(s, e) <= Latest(b, e)
                        /\ s.halted => s.cycles <= Left(s, e)
                        /\ \A o \in s.asked : Left(s, o) - Left(s, e) <= Latest(b, o)

\* It was loaded between two run loops, and the next tick has not come yet.
Waiting(s, b) ==
  /\ Loaded(s, b) /\ (s.halted => s.nextEvent <= s.cycles)
  /\ \A e \in s.asked : s.nextEvent <= Left(s, e)

LEMMA FieldTypes ==
  ASSUME NEW s, s \in Clocks
  PROVE  /\ s.cycles \in Int /\ s.nextEvent \in Int /\ s.masterCycles \in Int /\ s.words \in Int
         /\ s.asked \subseteq Events /\ \A e \in s.asked : e \in Events /\ Left(s, e) \in Int
BY LeftIs DEF Clocks

LEMMA EarlyInFrame ==
  ASSUME NEW b, Bounds(b), NEW s, Ticking(s, b) \/ Running(s, b)
  PROVE  s.cycles < b.line
<1>1. s \in Clocks
  BY DEF Ticking, Running, InTime, Sound
<1>2. CASE Ticking(s, b)
  BY <1>1, <1>2, FieldTypes, BoundsAre, TimesAre DEF Ticking
<1>3. CASE Running(s, b)
  <2>1. Left(s, Video) <= b.line /\ s.nextEvent <= Left(s, Video) /\ Left(s, Video) \in Int
    BY <1>1, <1>3, FieldTypes DEF Running, InTime, Latest
  <2> QED
    BY <1>1, <1>3, <2>1, FieldTypes, BoundsAre DEF Running
<1> QED
  BY <1>2, <1>3

LEMMA MovedTicking ==
  ASSUME NEW b, NEW s, Ticking(s, b), NEW e \in Events, NEW at \in Int, NEW t, Moved(s, e, at, t),
         InTime(t, b), e = IRQ => at >= 1
  PROVE  Ticking(t, b)
<1>1. t.cycles = s.cycles /\ t.asked = s.asked \cup {e} /\ IRQ \in Events
  BY DEF Moved, Untouched, Events
<1>2. CASE e = IRQ
  BY <1>1, <1>2 DEF Ticking, Moved
<1>3. CASE e # IRQ
  <2>1. Left(t, IRQ) = Left(s, IRQ) /\ (IRQ \in t.asked => IRQ \in s.asked)
    BY <1>1, <1>3 DEF Moved
  <2> QED
    BY <1>1, <2>1 DEF Ticking
<1> QED
  BY <1>2, <1>3

LEMMA MovedRunning ==
  ASSUME NEW b, NEW s, Running(s, b), NEW e \in Events, NEW at \in Int, at > s.cycles,
         NEW t, Moved(s, e, at, t), InTime(t, b)
  PROVE  Running(t, b)
<1>1. s \in Clocks /\ t \in Clocks
  BY DEF Running, InTime, Sound
<1>2. t.cycles = s.cycles /\ t.asked = s.asked \cup {e} /\ t.nextEvent = Lesser(s.nextEvent, at)
  BY DEF Moved, Untouched
<1>3. /\ t.nextEvent \in Int /\ s.cycles \in Int /\ t.nextEvent <= at /\ t.nextEvent <= s.nextEvent
      /\ s.cycles < t.nextEvent
  BY <1>1, <1>2, FieldTypes DEF Running, Lesser
<1>4. ASSUME NEW o \in t.asked PROVE t.nextEvent <= Left(t, o)
  <2>1. o \in Events
    BY <1>1, FieldTypes
  <2>2. CASE o = e
    BY <1>3, <2>2 DEF Moved
  <2>3. CASE o # e
    <3>1. o \in s.asked /\ Left(t, o) = Left(s, o) /\ Left(s, o) \in Int /\ s.nextEvent \in Int
      BY <1>1, <1>2, <2>1, <2>3, FieldTypes DEF Moved
    <3>2. s.nextEvent <= Left(s, o)
      BY <3>1 DEF Running
    <3> QED
      BY <1>3, <3>1, <3>2
  <2> QED
    BY <2>2, <2>3
<1> QED
  BY <1>2, <1>3, <1>4 DEF Running

\* An event other than the picture's, asked for no further ahead than they are.
LEMMA ScheduledAhead ==
  ASSUME NEW b, Bounds(b), NEW s, InTime(s, b), s.cycles < b.line, NEW e \in Events, e # Video,
         NEW d \in Int, d <= b.wait, -b.late <= d + s.cycles
  PROVE  /\ \A t \in Reschedule(s, e, d) : InTime(t, b) /\ Moved(s, e, d + s.cycles, t)
         /\ e \notin s.asked =>
              InTime(mTimingSchedule(s, e, d), b) /\ Moved(s, e, d + s.cycles, mTimingSchedule(s, e, d))
<1>1. s.cycles \in Int
  BY FieldTypes DEF InTime, Sound
<1>2. d + s.cycles <= Latest(b, e)
  BY <1>1, LatestIs, BoundsAre
<1> QED
  BY <1>2, RescheduleInTime, ScheduleInTime

LEMMA RaiseInTime ==
  ASSUME NEW b, Bounds(b), NEW s, NEW t \in GBARaiseIRQ(s)
  PROVE  /\ Ticking(s, b) => Ticking(t, b)
         /\ Running(s, b) => Running(t, b)
         /\ Sound(s) => s.asked \subseteq t.asked
<1>1. t = s \/ (~mTimingIsScheduled(s, IRQ) /\ t = mTimingSchedule(s, IRQ, IrqDelay))
  BY DEF GBARaiseIRQ
<1>2. CASE t = s
  BY <1>2
<1>3. CASE t # s
  <2>1. IRQ \in Events /\ IRQ # Video /\ IrqDelay \in Int
    BY EventsDiffer, TimesAre DEF Events
  <2>2. ASSUME Sound(s) PROVE IRQ \notin s.asked /\ t = mTimingSchedule(s, IRQ, IrqDelay)
    BY <1>1, <1>3, <2>1, <2>2, NotScheduled
  <2>3. Sound(s) => s.asked \subseteq t.asked
    BY <2>1, <2>2, ScheduleSound
  <2>4. ASSUME InTime(s, b), s.cycles < b.line
        PROVE  /\ InTime(t, b) /\ Moved(s, IRQ, IrqDelay + s.cycles, t)
               /\ IrqDelay + s.cycles \in Int /\ IrqDelay + s.cycles >= 1 /\ IrqDelay + s.cycles > s.cycles
    <3>1. Sound(s) /\ s.cycles >= 0 /\ s.cycles \in Int
      BY <2>4, FieldTypes DEF InTime, Sound
    <3>2. IrqDelay >= 1 /\ IrqDelay <= b.wait /\ b.late >= 0 /\ b.late \in Int
      BY BoundsAre, TimesAre
    <3>3. IrqDelay + s.cycles \in Int /\ IrqDelay + s.cycles >= 1 /\ IrqDelay + s.cycles > s.cycles
          /\ -b.late <= IrqDelay + s.cycles
      BY <2>1, <3>1, <3>2
    <3>4. InTime(mTimingSchedule(s, IRQ, IrqDelay), b)
          /\ Moved(s, IRQ, IrqDelay + s.cycles, mTimingSchedule(s, IRQ, IrqDelay))
      BY <2>1, <2>2, <2>4, <3>1, <3>2, <3>3, ScheduledAhead
    <3> QED
      BY <2>2, <3>1, <3>3, <3>4
  <2>5. ASSUME Ticking(s, b) PROVE Ticking(t, b)
    <3>1. InTime(s, b) /\ s.cycles < b.line
      BY <2>5, EarlyInFrame DEF Ticking
    <3> QED
      BY <2>1, <2>4, <2>5, <3>1, MovedTicking
  <2>6. ASSUME Running(s, b) PROVE Running(t, b)
    <3>1. InTime(s, b) /\ s.cycles < b.line
      BY <2>6, EarlyInFrame DEF Running
    <3> QED
      BY <2>1, <2>4, <2>6, <3>1, MovedRunning
  <2> QED
    BY <2>3, <2>5, <2>6
<1> QED
  BY <1>2, <1>3

\* The state of the DMA channel changes, and nothing the times depend on.
Channel(s, w, x) == [s EXCEPT !.words = w, !.cpuBlocked = x]

LEMMA ChannelInTime ==
  ASSUME NEW b, NEW s, NEW w \in Int, NEW x \in BOOLEAN, NEW t, t = Channel(s, w, x)
  PROVE  /\ Ticking(s, b) => Ticking(t, b) /\ t.asked = s.asked /\ t.cycles = s.cycles
         /\ Running(s, b) => Running(t, b) /\ t.asked = s.asked /\ t.cycles = s.cycles
<1>1. ASSUME InTime(s, b)
      PROVE  /\ InTime(t, b) /\ \A o : Left(t, o) = Left(s, o)
             /\ t.asked = s.asked /\ t.cycles = s.cycles /\ t.nextEvent = s.nextEvent
  <2>1. s \in Clocks /\ s.cycles >= 0
    BY <1>1 DEF InTime, Sound
  <2>2. /\ t \in Clocks /\ t.root = s.root /\ t.next = s.next /\ t.reroot = s.reroot
        /\ t.asked = s.asked /\ t.when = s.when /\ t.masterCycles = s.masterCycles
        /\ t.cycles = s.cycles /\ t.nextEvent = s.nextEvent
    BY <2>1, FieldsAre DEF Channel
  <2>3. InTime(t, b) /\ \A o : Left(t, o) = Left(s, o)
    BY ONLY <1>1, <2>1, <2>2, OtherInTime
  <2> QED
    BY <2>2, <2>3
<1>2. ASSUME Ticking(s, b) PROVE Ticking(t, b) /\ t.asked = s.asked /\ t.cycles = s.cycles
  BY ONLY <1>1, <1>2 DEF Ticking
<1>3. ASSUME Running(s, b) PROVE Running(t, b) /\ t.asked = s.asked /\ t.cycles = s.cycles
  BY ONLY <1>1, <1>3 DEF Running
<1> QED
  BY <1>2, <1>3

LEMMA RunInTime ==
  ASSUME NEW b, Bounds(b), NEW s, NEW c \in Int, -b.late <= c, c <= 0, NEW t \in GBADMARun(s, c)
  PROVE  /\ Ticking(s, b) => Ticking(t, b) /\ s.asked \subseteq t.asked
         /\ Running(s, b) /\ c = 0 => Running(t, b)
<1> DEFINE u == [s EXCEPT !.words = Words + 1]   d == DmaDelay + c
<1>1. t = s \/ t \in Reschedule(u, Dma, d)
  BY DEF GBADMARun
<1>2. CASE t = s
  BY <1>2
<1>3. ASSUME t # s, s \in Clocks
      PROVE  /\ Ticking(s, b) => Ticking(u, b) /\ u.asked = s.asked /\ u.cycles = s.cycles
             /\ Running(s, b) => Running(u, b) /\ u.asked = s.asked /\ u.cycles = s.cycles
  <2> DEFINE n == Words + 1   x == s.cpuBlocked
  <2>1. n \in Int /\ x \in BOOLEAN
    BY <1>3, TimesAre DEF Clocks
  <2>2. u = Channel(s, n, x)
    <3>1. u = [s EXCEPT !.words = n]
      OBVIOUS
    <3> HIDE DEF n, u
    <3> QED
      BY <1>3, <3>1 DEF Channel, Clocks
  <2> HIDE DEF u, n, x
  <2> QED
    BY ONLY <2>1, <2>2, ChannelInTime
<1> HIDE DEF u
<1>4. Dma \in Events /\ Dma # Video /\ Dma # IRQ /\ d \in Int /\ d <= b.wait /\ -b.late + 1 <= d
      /\ (c = 0 => d >= 1) /\ b.late \in Int
  BY EventsDiffer, TimesAre, BoundsAre DEF Events
<1> HIDE DEF d
<1>5. ASSUME t # s, InTime(u, b), u.cycles < b.line
      PROVE  InTime(t, b) /\ Moved(u, Dma, d + u.cycles, t) /\ d + u.cycles \in Int
             /\ (c = 0 => d + u.cycles > u.cycles)
  <2>1. u.cycles \in Int /\ u.cycles >= 0
    BY <1>5, FieldTypes DEF InTime, Sound
  <2>2. -b.late <= d + u.cycles /\ d + u.cycles \in Int /\ (c = 0 => d + u.cycles > u.cycles)
    BY <1>4, <2>1
  <2>3. InTime(t, b) /\ Moved(u, Dma, d + u.cycles, t)
    BY <1>1, <1>4, <1>5, <2>2, ScheduledAhead
  <2> QED
    BY <2>2, <2>3
<1>6. ASSUME t # s, Ticking(s, b) PROVE Ticking(t, b) /\ s.asked \subseteq t.asked
  <2>1. Ticking(u, b) /\ u.asked = s.asked
    BY <1>3, <1>6 DEF Ticking, InTime, Sound
  <2>2. InTime(u, b) /\ u.cycles < b.line
    BY <2>1, EarlyInFrame DEF Ticking
  <2>3. InTime(t, b) /\ Moved(u, Dma, d + u.cycles, t) /\ d + u.cycles \in Int
    BY <1>5, <1>6, <2>2
  <2>4. Ticking(t, b)
    BY <1>4, <2>1, <2>3, MovedTicking
  <2> QED
    BY <2>1, <2>3, <2>4 DEF Moved
<1>7. ASSUME t # s, Running(s, b), c = 0 PROVE Running(t, b)
  <2>1. Running(u, b)
    BY <1>3, <1>7 DEF Running, InTime, Sound
  <2>2. InTime(u, b) /\ u.cycles < b.line
    BY <2>1, EarlyInFrame DEF Running
  <2> QED
    BY <1>4, <1>5, <1>7, <2>1, <2>2, MovedRunning
<1> QED
  BY <1>2, <1>6, <1>7

LEMMA WriteInTime ==
  ASSUME NEW b, Bounds(b), NEW s, Running(s, b), NEW t \in GBATimerWriteTMCNT_HI(s)
  PROVE  Running(t, b)
<1>1. t = s \/ t \in Reschedule(s, Timer, Reload) \/ t = mTimingDeschedule(s, Timer)
  BY DEF GBATimerWriteTMCNT_HI
<1>2. InTime(s, b) /\ s.cycles < b.line /\ s \in Clocks /\ s.cycles \in Int /\ s.cycles >= 0 /\ Sound(s)
  BY EarlyInFrame, FieldTypes DEF Running, InTime, Sound
<1>3. /\ Timer \in Events /\ Timer # Video /\ Timer # IRQ /\ Reload \in Int /\ Reload <= b.wait
      /\ -b.late <= Reload + s.cycles /\ Reload + s.cycles > s.cycles /\ Reload + s.cycles \in Int
  BY <1>2, EventsDiffer, TimesAre, BoundsAre DEF Events
<1>4. CASE t \in Reschedule(s, Timer, Reload)
  <2>1. InTime(t, b) /\ Moved(s, Timer, Reload + s.cycles, t)
    BY <1>2, <1>3, <1>4, ScheduledAhead
  <2> QED
    BY <1>3, <2>1, MovedRunning
<1>5. CASE t = mTimingDeschedule(s, Timer)
  <2>1. Dropped(s, Timer, t)
    BY <1>2, <1>3, <1>5, DescheduleIs
  <2>2. InTime(t, b) /\ Untouched(s, t) /\ t.asked = s.asked \ {Timer} /\ t.nextEvent = s.nextEvent
        /\ \A o \in Events : o # Timer => Left(t, o) = Left(s, o)
    BY <1>2, <1>3, <2>1, DropInTime
  <2>3. \A o \in t.asked : o \in s.asked /\ Left(t, o) = Left(s, o)
    BY <1>2, <2>2, FieldTypes
  <2>4. t.cycles = s.cycles /\ Video \in t.asked
    BY <1>3, <2>2 DEF Untouched, Running
  <2> QED
    BY <2>2, <2>3, <2>4 DEF Running
<1> QED
  BY <1>1, <1>4, <1>5

LEMMA UpdateInTime ==
  ASSUME NEW b, Bounds(b), NEW s, Ticking(s, b), NEW late \in Int, 0 <= late, late <= b.late,
         NEW t \in GBATimerUpdate(s, late)
  PROVE  Ticking(t, b) /\ s.asked \subseteq t.asked
<1> DEFINE d == Reload - (s.cycles % Reload) - late
<1>1. PICK u \in Reschedule(s, Timer, d) : t \in GBARaiseIRQ(u)
  BY DEF GBATimerUpdate, GBATimerUpdateRegister
<1>2. InTime(s, b) /\ s.cycles < b.line /\ s.cycles \in Int /\ s.cycles >= 0
  BY EarlyInFrame, FieldTypes DEF Ticking, InTime, Sound
<1>3. s.cycles % Reload \in 0 .. Reload - 1
  BY <1>2, TimesAre, SMTT(20)
<1>4. /\ d \in Int /\ d <= b.wait /\ -b.late <= d + s.cycles /\ d + s.cycles \in Int
      /\ Timer \in Events /\ Timer # Video /\ Timer # IRQ
  <2> DEFINE r == s.cycles % Reload
  <2>1. r \in 0 .. Reload - 1
    BY <1>3
  <2> HIDE DEF r
  <2> QED
    BY <1>2, <2>1, EventsDiffer, TimesAre, BoundsAre DEF Events, r
<1> HIDE DEF d
<1>5. InTime(u, b) /\ Moved(s, Timer, d + s.cycles, u)
  BY <1>1, <1>2, <1>4, ScheduledAhead
<1>6. Ticking(u, b) /\ s.asked \subseteq u.asked
  BY <1>4, <1>5, MovedTicking DEF Moved
<1>7. Sound(u)
  BY <1>5 DEF InTime
<1> QED
  BY <1>1, <1>6, <1>7, RaiseInTime

LEMMA DmaInTime ==
  ASSUME NEW b, Bounds(b), NEW s, Ticking(s, b), NEW late \in Int, 0 <= late, late <= b.late,
         NEW t \in DmaEvent(s, late)
  PROVE  Ticking(t, b) /\ s.asked \subseteq t.asked
<1> DEFINE done == [s EXCEPT !.words = 0, !.cpuBlocked = FALSE]
           on == [s EXCEPT !.words = @ - 1, !.cpuBlocked = TRUE]
           now == mTimingCurrentTime(s)
           from == IF s.words = Words + 1 THEN now ELSE s.masterCycles - late
           d == Signed(from + Unit - now)
<1>1. t \in GBARaiseIRQ(done) \/ t \in Reschedule(on, Dma, d)
  BY DEF DmaEvent
<1>2. /\ s \in Clocks /\ s.cycles \in Int /\ s.cycles >= 0 /\ s.cycles <= IrqLength /\ s.words \in Int
      /\ s.masterCycles \in Int
  BY FieldTypes DEF Ticking, InTime, Sound
<1>3. Ticking(done, b) /\ done.asked = s.asked
  <2> DEFINE zero == 0   off == FALSE
  <2>1. zero \in Int /\ off \in BOOLEAN /\ done = Channel(s, zero, off)
    BY DEF Channel
  <2> HIDE DEF zero, off, done
  <2> QED
    BY ONLY <2>1, ChannelInTime, Ticking(s, b)
<1>4. Ticking(on, b) /\ on.asked = s.asked /\ on.cycles = s.cycles
  <2> DEFINE fewer == s.words - 1   yes == TRUE
  <2>1. fewer \in Int /\ yes \in BOOLEAN /\ on = Channel(s, fewer, yes)
    BY <1>2 DEF Channel
  <2> HIDE DEF fewer, yes, on
  <2> QED
    BY ONLY <2>1, ChannelInTime, Ticking(s, b)
<1>5. d = Unit \/ d = Unit - late - s.cycles
  <2> DEFINE m == s.masterCycles   sum == m + s.cycles
  <2>1. m \in Int /\ sum \in Int /\ now = Word(sum)
    BY <1>2 DEF mTimingCurrentTime
  <2>2. now \in Int /\ Same(now, sum) /\ Unit \in Int
    BY <2>1, WordsAre, WordSame, TimesAre
  <2>3. Unit >= 1 /\ Unit <= IntMax
    <3> HIDE DEF IntMax
    <3>1. Unit <= b.wait /\ b.wait + b.line <= IntMax + 1 /\ b.line >= 1 /\ b.wait \in Int /\ b.line \in Int
          /\ IntMax \in Int
      BY BoundsAre, TimesAre, ModulusIs
    <3> QED
      BY <2>2, <3>1, TimesAre
  <2>4. CASE s.words = Words + 1
    <3> HIDE DEF now
    <3>1. from + Unit - now = Unit
      BY <2>2, <2>4
    <3>2. Same(Unit, Unit) /\ -IntMax - 1 <= Unit
      <4> HIDE DEF IntMax
      <4> QED  BY <2>2, <2>3, SameIs, ModulusIs
    <3>3. Signed(Unit) = Unit
      BY <2>2, <2>3, <3>2, SignedIs
    <3> QED
      BY <3>1, <3>3
  <2>5. CASE s.words # Words + 1
    <3> DEFINE x == (m - late + Unit) - now   y == Unit - late - s.cycles
    <3>1. from + Unit - now = x
      <4> HIDE DEF now
      <4>1. from = m - late
        BY <2>5
      <4> HIDE DEF from
      <4> QED
        BY <1>2, <2>1, <2>2, <4>1
    <3>2. m - late + Unit \in Int /\ y \in Int /\ (m - late + Unit) - sum = y
      BY <1>2, <2>1, <2>2
    <3> HIDE DEF sum, now
    <3>3. x \in Int /\ Same(x, y)
      <4>1. Same(m - late + Unit, m - late + Unit)
        BY <3>2, SameIs
      <4> DEFINE z == m - late + Unit
      <4>2. z \in Int /\ Same(z, z) /\ z - sum = y
        BY <3>2, <4>1
      <4> HIDE DEF z, y
      <4>3. z - now \in Int /\ Same(z - now, z - sum)
        <5> HIDE DEF m
        <5>1. z \in Int /\ now \in Int /\ sum \in Int /\ Same(z, z) /\ Same(now, sum)
          BY <2>1, <2>2, <4>2
        <5>2. Same(z - now, z - sum)
          BY ONLY <5>1, SameIs
        <5> QED
          BY <5>1, <5>2
      <4> QED
        BY <4>2, <4>3 DEF z
    <3>4. -IntMax - 1 <= y /\ y <= IntMax
      <4> HIDE DEF IntMax
      <4> QED
        BY <1>2, <2>2, <2>3, BoundsAre, TimesAre, ModulusIs
    <3> HIDE DEF x, y
    <3>5. Signed(x) = y
      BY <3>2, <3>3, <3>4, SignedIs
    <3> QED
      BY <3>1, <3>5 DEF y
  <2> QED
    BY <2>4, <2>5
<1> HIDE DEF d, done, on, now
<1>6. /\ d \in Int /\ d <= b.wait /\ -b.late <= d + s.cycles /\ d + s.cycles \in Int
      /\ Dma \in Events /\ Dma # Video /\ Dma # IRQ
  BY <1>2, <1>5, EventsDiffer, TimesAre, BoundsAre DEF Events
<1>7. CASE t \in GBARaiseIRQ(done)
  <2>1. Sound(done)
    BY <1>3 DEF Ticking, InTime
  <2> QED
    BY <1>3, <1>7, <2>1, RaiseInTime
<1>8. CASE t \in Reschedule(on, Dma, d)
  <2>1. InTime(on, b) /\ on.cycles < b.line /\ -b.late <= d + on.cycles
    BY <1>4, <1>6, EarlyInFrame DEF Ticking
  <2>2. InTime(t, b) /\ Moved(on, Dma, d + on.cycles, t)
    BY <1>6, <1>8, <2>1, ScheduledAhead
  <2>3. d + on.cycles \in Int
    BY <1>4, <1>6
  <2>4. Ticking(t, b)
    BY <1>4, <1>6, <2>2, <2>3, MovedTicking
  <2> QED
    BY <1>4, <2>2, <2>4 DEF Moved
<1> QED
  BY <1>1, <1>7, <1>8

LEMMA TriggerInTime ==
  ASSUME NEW b, NEW s, Ticking(s, b), s.cycles = 0, IRQ \notin s.asked, NEW t \in TriggerIRQ(s)
  PROVE  Ticking(t, b) /\ t.asked = s.asked
<1>1. PICK c \in {0, IrqLength} : t = [s EXCEPT !.halted = FALSE, !.cycles = @ + c]
  BY DEF TriggerIRQ
<1> DEFINE off == FALSE
<1>2. InTime(s, b) /\ s \in Clocks /\ off \in BOOLEAN
  BY DEF Ticking, InTime, Sound
<1>3. c \in Int /\ c >= 0 /\ c <= IrqLength
  BY TimesAre
<1>4. t = [s EXCEPT !.halted = off, !.cycles = c]
  <2>1. s.cycles + c = c
    BY <1>3
  <2> QED
    BY <1>1, <2>1
<1> HIDE DEF off
<1>5. /\ t \in Clocks /\ t.root = s.root /\ t.next = s.next /\ t.reroot = s.reroot /\ t.asked = s.asked
      /\ t.when = s.when /\ t.masterCycles = s.masterCycles /\ t.cycles = c
  BY <1>2, <1>3, <1>4 DEF Clocks
<1>6. t.cycles >= 0
  BY <1>3, <1>5
<1>7. InTime(t, b)
  BY ONLY <1>2, <1>5, <1>6, OtherInTime
<1> QED
  BY <1>3, <1>5, <1>7 DEF Ticking

\* Nothing has been late for longer than b.late.
Since(s, b) == InTime(s, b) /\ \A o \in s.asked : -b.late <= Left(s, o) - s.cycles

LeftOf(saved, e) ==
  CASE e = Video -> saved.video [] e = IRQ -> saved.irq [] e = Timer -> saved.timer [] e = Dma -> saved.dma

LEMMA LeftsAre ==
  ASSUME NEW b, Bounds(b), NEW saved \in SavedStates
  PROVE  /\ saved.cycles >= 0 /\ (saved.halted /\ saved.made = "between" => saved.nextEvent <= saved.cycles)
         /\ \A e \in Events : LeftOf(saved, e) # Nil =>
              LET left == LeftOf(saved, e)
              IN  /\ left \in Int /\ -b.late <= left /\ (saved.halted => left >= 0)
                  /\ left + saved.cycles <= Latest(b, e)
                  /\ \A o \in Events : LeftOf(saved, o) # Nil => LeftOf(saved, o) - left <= Latest(b, o)
<1>1. /\ saved.cycles >= 0 /\ (saved.halted /\ saved.made = "between" => saved.nextEvent <= saved.cycles)
      /\ saved.video + saved.cycles <= b.line
      /\ \A left \in Lefts(saved) :
           /\ left >= IF saved.halted THEN 0 ELSE -b.late
           /\ left + saved.cycles < b.wait + b.line /\ saved.video - left <= b.line
           /\ \A other \in Lefts(saved) : other - left < b.wait + b.line
  BY DEF Bounds
<1>2. /\ saved.cycles \in Int /\ saved.video \in Int /\ b.wait \in Int /\ b.line \in Int /\ b.late \in Int
      /\ b.late >= 0 /\ saved.halted \in BOOLEAN
      /\ \A e \in Events : LeftOf(saved, e) \in {Nil} \cup Int
      /\ LeftOf(saved, Video) = saved.video
      /\ \A e \in Events : LeftOf(saved, e) # Nil => LeftOf(saved, e) \in Lefts(saved)
  BY SavedAre, BoundsAre, EventsDiffer DEF LeftOf, Lefts, Events
<1>3. \A e \in Events : Latest(b, e) = IF e = Video THEN b.line ELSE b.wait + b.line - 1
  BY DEF Latest
<1>4. ASSUME NEW e \in Events, LeftOf(saved, e) # Nil
      PROVE  LET left == LeftOf(saved, e)
             IN  /\ left \in Int /\ -b.late <= left /\ (saved.halted => left >= 0)
                 /\ left + saved.cycles <= Latest(b, e)
                 /\ \A o \in Events : LeftOf(saved, o) # Nil => LeftOf(saved, o) - left <= Latest(b, o)
  <2> DEFINE left == LeftOf(saved, e)
  <2>1. left \in Int /\ left \in Lefts(saved) /\ (e = Video => left = saved.video)
    BY <1>2, <1>4
  <2> HIDE DEF left
  <2>2. -b.late <= left /\ (saved.halted => left >= 0)
    <3>1. left >= IF saved.halted THEN 0 ELSE -b.late
      BY <1>1, <2>1
    <3> QED
      BY <1>2, <2>1, <3>1
  <2>3. left + saved.cycles <= Latest(b, e)
    BY <1>1, <1>2, <1>3, <2>1
  <2>4. ASSUME NEW o \in Events, LeftOf(saved, o) # Nil PROVE LeftOf(saved, o) - left <= Latest(b, o)
    <3> DEFINE other == LeftOf(saved, o)
    <3>1. other \in Int /\ other \in Lefts(saved) /\ (o = Video => other = saved.video)
      BY <1>2, <2>4
    <3> HIDE DEF other
    <3>2. other - left < b.wait + b.line /\ saved.video - left <= b.line
      BY <1>1, <2>1, <3>1
    <3>3. other - left <= Latest(b, o)
      BY <1>2, <1>3, <2>1, <3>1, <3>2
    <3> QED
      BY <3>3 DEF other
  <2> QED
    BY <2>1, <2>2, <2>3, <2>4 DEF left
<1> QED
  BY <1>1, <1>4

\* Some events of the state have been scheduled.
Taken(s, saved, b) ==
  /\ Upcoming(s, b) /\ s.cycles = saved.cycles /\ s.halted = saved.halted
  /\ s.nextEvent <= saved.nextEvent
  /\ \A e \in s.asked : /\ LeftOf(saved, e) # Nil /\ Left(s, e) = LeftOf(saved, e) + saved.cycles
                        /\ s.nextEvent <= Left(s, e)

LEMMA RestoredTaken ==
  ASSUME NEW b, Bounds(b), NEW saved \in SavedStates, NEW s, Taken(s, saved, b), NEW e \in Events, e \notin s.asked,
         NEW t, t = Restored(s, e, LeftOf(saved, e))
  PROVE  /\ Taken(t, saved, b) /\ s.asked \subseteq t.asked /\ t.asked \subseteq s.asked \cup {e}
         /\ LeftOf(saved, e) # Nil => e \in t.asked
<1>1. CASE LeftOf(saved, e) = Nil
  BY <1>1 DEF Restored
<1>2. CASE LeftOf(saved, e) # Nil
  <2> DEFINE left == LeftOf(saved, e)   at == left + s.cycles
  <2>1. t = mTimingSchedule(s, e, left)
    BY <1>2 DEF Restored
  <2>2. /\ left \in Int /\ -b.late <= left /\ left + saved.cycles <= Latest(b, e) /\ saved.cycles >= 0
        /\ saved.cycles \in Int /\ saved.nextEvent \in Int /\ b.late \in Int
    BY <1>2, LeftsAre, SavedAre, BoundsAre
  <2>3. Upcoming(s, b) /\ s.cycles = saved.cycles /\ s.nextEvent \in Int /\ s.asked \subseteq Events
    BY FieldTypes DEF Taken, Upcoming, Listed
  <2> HIDE DEF left
  <2>4. -b.late <= at /\ at <= Latest(b, e) /\ at \in Int /\ at = left + saved.cycles
    BY <2>2, <2>3
  <2>5. Upcoming(t, b) /\ Moved(s, e, at, t)
    BY <2>1, <2>2, <2>3, <2>4, ScheduleUpcoming
  <2> HIDE DEF at
  <2>6. /\ t.cycles = s.cycles /\ t.halted = s.halted /\ t.asked = s.asked \cup {e} /\ Left(t, e) = at
        /\ t.nextEvent = Lesser(s.nextEvent, at) /\ \A o \in Events : o # e => Left(t, o) = Left(s, o)
    BY <2>5 DEF Moved, Untouched
  <2>7. t.nextEvent <= s.nextEvent /\ t.nextEvent <= at /\ t.nextEvent \in Int
    BY <2>3, <2>4, <2>6 DEF Lesser
  <2>8. ASSUME NEW o \in t.asked
        PROVE  /\ LeftOf(saved, o) # Nil /\ Left(t, o) = LeftOf(saved, o) + saved.cycles
               /\ t.nextEvent <= Left(t, o)
    <3>1. CASE o = e
      BY <1>2, <2>4, <2>6, <2>7, <3>1 DEF left
    <3>2. CASE o # e
      <4>1. o \in s.asked /\ o \in Events /\ Left(t, o) = Left(s, o) /\ Left(s, o) \in Int
        BY <2>3, <2>6, <3>2, FieldTypes DEF Upcoming, Listed
      <4>2. /\ LeftOf(saved, o) # Nil /\ Left(s, o) = LeftOf(saved, o) + saved.cycles
            /\ s.nextEvent <= Left(s, o)
        BY <4>1 DEF Taken
      <4>3. t.nextEvent <= Left(s, o)
        BY <2>3, <2>7, <4>1, <4>2
      <4> QED
        BY <4>1, <4>2, <4>3
    <3> QED
      BY <3>1, <3>2
  <2>9. t.nextEvent <= saved.nextEvent
    BY <2>2, <2>3, <2>7 DEF Taken
  <2> QED
    BY <1>2, <2>3, <2>5, <2>6, <2>8, <2>9 DEF Taken
<1> QED
  BY <1>1, <1>2

LEMMA ChannelTaken ==
  ASSUME NEW b, NEW saved, NEW s, Taken(s, saved, b), NEW w \in Int, NEW x \in BOOLEAN, NEW t, t = Channel(s, w, x)
  PROVE  Taken(t, saved, b) /\ t.asked = s.asked /\ t.words = w
<1>1. s \in Clocks
  BY DEF Taken, Upcoming, Listed
<1>2. /\ t \in Clocks /\ t.root = s.root /\ t.next = s.next /\ t.asked = s.asked /\ t.when = s.when
      /\ t.masterCycles = s.masterCycles /\ t.cycles = s.cycles /\ t.nextEvent = s.nextEvent
      /\ t.halted = s.halted
  BY <1>1, FieldsAre DEF Channel
<1>3. t.words = w
  BY <1>1 DEF Channel, Clocks
<1>4. \A o : Left(t, o) = Left(s, o)
  BY <1>2 DEF Left
<1>5. Walk(t, t.root) = Walk(s, s.root) /\ Linked(t, t.root) = Linked(s, s.root) /\ (IsList(t, t.root) <=> IsList(s, s.root))
  BY <1>2, WalkSame
<1>6. Listed(t) /\ InOrder(t, t.root)
  BY <1>2, <1>4, <1>5 DEF Taken, Upcoming, Listed, InOrder, Ahead
<1>7. Upcoming(t, b)
  BY <1>2, <1>4, <1>6 DEF Taken, Upcoming
<1> QED
  BY <1>2, <1>3, <1>4, <1>7 DEF Taken

LEMMA NilOrder == ASSUME NEW s PROVE InOrder(s, Nil)
<1>1. \A n \in 0..4 : Walk(s, Nil)[n] = Nil
  BY WalkAt DEF Behind
<1>2. \A n \in 1..4 : n \in 0..4
  OBVIOUS
<1> QED
  BY <1>1, <1>2 DEF InOrder

\* Before the list is set aside.
LEMMA DeserializeTaken ==
  ASSUME NEW b, Bounds(b), NEW s \in Clocks, NEW saved \in SavedStates,
         NEW u \in GBADMAUpdate(Fourth(s, saved), saved.dma)
  PROVE  Taken(u, saved, b) /\ Video \in u.asked
<1> DEFINE blank == Blank(s, saved)   one == First(s, saved)   two == Second(s, saved)
           three == Third(s, saved)   four == Fourth(s, saved)
<1>1. /\ IRQ \in Events /\ Video \in Events /\ Timer \in Events /\ Dma \in Events
      /\ IRQ # Video /\ IRQ # Timer /\ Video # Timer /\ Dma \notin {IRQ, Video, Timer}
  BY EventsDiffer DEF Events
<1>2. /\ saved.video = LeftOf(saved, Video) /\ saved.irq = LeftOf(saved, IRQ)
      /\ saved.timer = LeftOf(saved, Timer) /\ saved.dma = LeftOf(saved, Dma) /\ LeftOf(saved, Video) # Nil
  BY <1>1, SavedAre DEF LeftOf
<1>3. /\ one = Restored(blank, IRQ, LeftOf(saved, IRQ)) /\ two = Restored(one, Video, LeftOf(saved, Video))
      /\ three = Restored(two, Timer, LeftOf(saved, Timer)) /\ four = [three EXCEPT !.words = saved.words]
  BY <1>2 DEF First, Second, Third, Fourth
<1>4. Taken(blank, saved, b) /\ blank.asked = {}
  <2>1. /\ blank \in Clocks /\ blank.root = Nil /\ blank.asked = {} /\ blank.cycles = saved.cycles
        /\ blank.nextEvent = saved.nextEvent /\ blank.halted = saved.halted
    BY BlankIs
  <2>2. saved.cycles >= 0 /\ saved.nextEvent \in Int
    BY LeftsAre, SavedAre
  <2> HIDE DEF blank
  <2>3. Listed(blank) /\ InOrder(blank, blank.root)
    BY <2>1, NilList, NilOrder DEF Listed
  <2> QED
    BY <2>1, <2>2, <2>3 DEF Taken, Upcoming
<1> HIDE DEF blank, one, two, three, four
<1>5. Taken(one, saved, b) /\ one.asked \subseteq {IRQ}
  <2>1. IRQ \notin blank.asked
    BY <1>4
  <2>2. Taken(blank, saved, b) /\ IRQ \in Events /\ one = Restored(blank, IRQ, LeftOf(saved, IRQ))
    BY <1>1, <1>3, <1>4
  <2>3. /\ Taken(one, saved, b) /\ blank.asked \subseteq one.asked /\ one.asked \subseteq blank.asked \cup {IRQ}
        /\ LeftOf(saved, IRQ) # Nil => IRQ \in one.asked
    BY ONLY <2>1, <2>2, Bounds(b), saved \in SavedStates, RestoredTaken
  <2> QED
    BY <1>2, <1>4, <2>3
<1>6. Taken(two, saved, b) /\ two.asked \subseteq {IRQ, Video} /\ Video \in two.asked
  <2>1. Video \notin one.asked
    BY <1>1, <1>5
  <2>2. Taken(one, saved, b) /\ Video \in Events /\ two = Restored(one, Video, LeftOf(saved, Video))
    BY <1>1, <1>3, <1>5
  <2>3. /\ Taken(two, saved, b) /\ one.asked \subseteq two.asked /\ two.asked \subseteq one.asked \cup {Video}
        /\ LeftOf(saved, Video) # Nil => Video \in two.asked
    BY ONLY <2>1, <2>2, Bounds(b), saved \in SavedStates, RestoredTaken
  <2> QED
    BY <1>2, <1>5, <2>3
<1>7. Taken(three, saved, b) /\ three.asked \subseteq {IRQ, Video, Timer} /\ Video \in three.asked
  <2>1. Timer \notin two.asked
    BY <1>1, <1>6
  <2>2. Taken(two, saved, b) /\ Timer \in Events /\ three = Restored(two, Timer, LeftOf(saved, Timer))
    BY <1>1, <1>3, <1>6
  <2>3. /\ Taken(three, saved, b) /\ two.asked \subseteq three.asked /\ three.asked \subseteq two.asked \cup {Timer}
        /\ LeftOf(saved, Timer) # Nil => Timer \in three.asked
    BY ONLY <2>1, <2>2, Bounds(b), saved \in SavedStates, RestoredTaken
  <2> QED
    BY <1>2, <1>6, <2>3
<1>8. Taken(four, saved, b) /\ four.asked = three.asked /\ four.words = saved.words
  <2> DEFINE x == three.cpuBlocked   w == saved.words
  <2>1. three \in Clocks /\ x \in BOOLEAN /\ w \in Int
    BY <1>7, SavedAre DEF Taken, Upcoming, Listed, Clocks
  <2>2. four = Channel(three, w, x)
    BY <1>3, <2>1 DEF Channel, Clocks
  <2> HIDE DEF x
  <2> QED
    BY <1>7, <2>1, <2>2, ChannelTaken
<1>9. Dma \notin four.asked /\ Listed(four)
  BY <1>1, <1>7, <1>8 DEF Taken, Upcoming
<1>10. u = IF four.words > 0 THEN mTimingSchedule(four, Dma, saved.dma) ELSE [four EXCEPT !.cpuBlocked = FALSE]
  BY <1>9, UpdateIs DEF four
<1>11. CASE four.words > 0
  <2>1. saved.dma # Nil
    BY <1>8, <1>11, SavedAre
  <2>2. u = Restored(four, Dma, LeftOf(saved, Dma))
    BY <1>2, <1>10, <1>11, <2>1 DEF Restored
  <2>3. Taken(four, saved, b) /\ Dma \in Events /\ Dma \notin four.asked
    BY <1>1, <1>8, <1>9
  <2>4. Taken(u, saved, b) /\ four.asked \subseteq u.asked
    BY ONLY <2>2, <2>3, Bounds(b), saved \in SavedStates, RestoredTaken
  <2> QED
    BY <1>7, <1>8, <2>4
<1>12. CASE ~(four.words > 0)
  <2> DEFINE off == FALSE   w == four.words
  <2>1. off \in BOOLEAN /\ four \in Clocks /\ w \in Int /\ u = [four EXCEPT !.cpuBlocked = off]
    BY <1>9, <1>10, <1>12 DEF Listed, Clocks
  <2> HIDE DEF off
  <2>2. u = Channel(four, w, off)
    BY <2>1 DEF Channel, Clocks
  <2> HIDE DEF w
  <2> QED
    BY <1>7, <1>8, <2>1, <2>2, ChannelTaken
<1> QED
  BY <1>11, <1>12

LEMMA DeserializeInTime ==
  ASSUME NEW b, Bounds(b), NEW s \in Clocks, NEW saved \in SavedStates, NEW t \in GBADeserialize(s, saved)
  PROVE  Loaded(t, b) /\ (saved.made = "between" => Waiting(t, b))
<1>1. PICK u \in GBADMAUpdate(Fourth(s, saved), saved.dma) : t = SetAside(u)
  BY DeserializeIs
<1>2. Taken(u, saved, b) /\ Video \in u.asked
  BY DeserializeTaken
<1>3. u \in Clocks /\ InOrder(u, u.root) /\ u.cycles >= 0 /\ u.cycles \in Int /\ u.asked \subseteq Events
  BY <1>2, FieldTypes DEF Taken, Upcoming, Listed
<1>4. /\ t.root = Nil /\ t.reroot = u.root /\ t.next = u.next /\ t.asked = u.asked
      /\ t.when = u.when /\ t.masterCycles = u.masterCycles /\ t.cycles = u.cycles
      /\ t.halted = u.halted /\ t.nextEvent = u.nextEvent
  BY <1>1, <1>3 DEF Clocks, SetAside
<1>5. \A o : Left(t, o) = Left(u, o)
  BY <1>4 DEF Left
<1>6. InOrder(t, t.reroot)
  <2>1. Walk(t, t.reroot) = Walk(u, u.root)
    BY <1>4, WalkSame
  <2> QED
    BY <1>3, <1>5, <2>1 DEF InOrder, Ahead
<1>7. Aside(t)
  BY DeserializeSound
<1>8. ASSUME NEW e \in t.asked
      PROVE  /\ -b.late <= Left(t, e) - t.cycles /\ Left(t, e) <= Latest(b, e)
             /\ t.halted => t.cycles <= Left(t, e)
             /\ \A o \in t.asked : Left(t, o) - Left(t, e) <= Latest(b, o)
             /\ t.nextEvent <= Left(t, e)
  <2> DEFINE left == LeftOf(saved, e)   c == saved.cycles
  <2>1. /\ e \in Events /\ left # Nil /\ Left(t, e) = left + c /\ t.nextEvent <= Left(t, e)
        /\ t.cycles = c /\ t.halted = saved.halted
    BY <1>2, <1>3, <1>4, <1>5, <1>8 DEF Taken
  <2>2. /\ left \in Int /\ -b.late <= left /\ (saved.halted => left >= 0) /\ left + c <= Latest(b, e)
        /\ \A o \in Events : LeftOf(saved, o) # Nil => LeftOf(saved, o) - left <= Latest(b, o)
    BY <2>1, LeftsAre
  <2>3. c \in Int /\ \A o \in Events : LeftOf(saved, o) # Nil => LeftOf(saved, o) \in Int
    BY LeftsAre, SavedAre
  <2> HIDE DEF left, c
  <2>4. ASSUME NEW o \in t.asked PROVE Left(t, o) - Left(t, e) <= Latest(b, o)
    <3> DEFINE other == LeftOf(saved, o)
    <3>1. o \in Events /\ other # Nil /\ Left(t, o) = other + c
      BY <1>2, <1>3, <1>4, <1>5, <2>4 DEF Taken, c
    <3>2. other \in Int /\ other - left <= Latest(b, o)
      BY <2>2, <2>3, <3>1
    <3> HIDE DEF other
    <3>3. Left(t, o) - Left(t, e) = other - left
      BY <2>1, <2>2, <2>3, <3>1, <3>2
    <3> QED
      BY <3>2, <3>3
  <2>5. Left(t, e) - t.cycles = left /\ (left >= 0 => t.cycles <= Left(t, e))
    BY <2>1, <2>2, <2>3
  <2> QED
    BY <2>1, <2>2, <2>4, <2>5
<1>9. Loaded(t, b)
  BY <1>2, <1>3, <1>4, <1>6, <1>7, <1>8 DEF Loaded
<1>10. ASSUME saved.made = "between", t.halted PROVE t.nextEvent <= t.cycles
  <2>1. saved.nextEvent <= saved.cycles /\ saved.nextEvent \in Int /\ saved.cycles \in Int
    BY <1>2, <1>4, <1>10, LeftsAre, SavedAre DEF Taken
  <2>2. t.nextEvent <= saved.nextEvent /\ t.nextEvent \in Int /\ t.cycles = saved.cycles
    BY <1>2, <1>3, <1>4, FieldTypes DEF Taken
  <2> QED
    BY <2>1, <2>2
<1> QED
  BY <1>8, <1>9, <1>10 DEF Waiting

LEMMA VideoInTime ==
  ASSUME NEW b, Bounds(b), NEW s, Ticking(s, b), Video \notin s.asked,
         NEW late \in Int, 0 <= late, late <= b.late, NEW t \in VideoEvent(s, late)
  PROVE  (Ticking(t, b) /\ Video \in t.asked) \/ Loaded(t, b)
<1> DEFINE u == mTimingSchedule(s, Video, Line - late)   at == (Line - late) + s.cycles
<1>1. \/ \E v \in {u} \cup GBADMARun(u, -late) : t \in GBARaiseIRQ(v)
      \/ \E saved \in Saved : t \in GBADeserialize(u, saved)
  BY DEF VideoEvent
<1>2. InTime(s, b) /\ s.cycles \in Int /\ s.cycles >= 0 /\ s.cycles <= IrqLength
  BY FieldTypes DEF Ticking, InTime, Sound
<1>3. /\ Video \in Events /\ Video # IRQ /\ Line - late \in Int /\ at \in Int
      /\ -b.late <= at /\ at <= Latest(b, Video)
  <2>1. Latest(b, Video) = b.line
    BY DEF Latest
  <2> QED
    BY <1>2, <2>1, EventsDiffer, TimesAre, BoundsAre DEF Events
<1>4. InTime(u, b) /\ Moved(s, Video, at, u)
  BY <1>2, <1>3, ScheduleInTime
<1> HIDE DEF u, at
<1>5. Ticking(u, b) /\ Video \in u.asked
  BY <1>3, <1>4, MovedTicking DEF Moved
<1>6. ASSUME NEW v \in {u} \cup GBADMARun(u, -late), t \in GBARaiseIRQ(v)
      PROVE  Ticking(t, b) /\ Video \in t.asked
  <2>1. -late \in Int /\ -b.late <= -late /\ -late <= 0
    BY BoundsAre
  <2> DEFINE c == -late
  <2>2. c \in Int /\ -b.late <= c /\ c <= 0 /\ (v = u \/ v \in GBADMARun(u, c))
    BY <1>6, <2>1
  <2> HIDE DEF c
  <2>3. Ticking(v, b) /\ Video \in v.asked
    BY <1>5, <2>2, RunInTime
  <2>4. Sound(v)
    BY <2>3 DEF Ticking, InTime
  <2> QED
    BY <1>6, <2>3, <2>4, RaiseInTime
<1>7. ASSUME NEW saved \in Saved, t \in GBADeserialize(u, saved) PROVE Loaded(t, b)
  <2>1. saved \in SavedStates /\ u \in Clocks
    BY <1>4 DEF Saved, InTime, Sound
  <2> QED
    BY <1>7, <2>1, DeserializeInTime
<1> QED
  BY <1>1, <1>6, <1>7

LEMMA CallbackInTime ==
  ASSUME NEW b, Bounds(b), NEW s, Ticking(s, b), NEW e \in Events, e \notin s.asked,
         e = IRQ => s.cycles = 0, e # Video => Video \in s.asked,
         NEW late \in Int, 0 <= late, late <= b.late, NEW t \in Callback(s, e, late)
  PROVE  (Ticking(t, b) /\ Video \in t.asked) \/ Loaded(t, b)
<1>1. CASE e = Video
  <2>1. t \in VideoEvent(s, late)
    BY <1>1, EventsDiffer DEF Callback
  <2> QED
    BY <1>1, <2>1, VideoInTime
<1>2. CASE e = IRQ
  <2>1. t \in TriggerIRQ(s)
    BY <1>2, EventsDiffer DEF Callback
  <2> QED
    BY <1>2, <2>1, TriggerInTime, EventsDiffer
<1>3. CASE e = Timer
  <2>1. t \in GBATimerUpdate(s, late)
    BY <1>3, EventsDiffer DEF Callback
  <2> QED
    BY <1>3, <2>1, UpdateInTime, EventsDiffer
<1>4. CASE e = Dma
  <2>1. t \in DmaEvent(s, late)
    BY <1>4, EventsDiffer DEF Callback
  <2> QED
    BY <1>4, <2>1, DmaInTime, EventsDiffer
<1> QED
  BY <1>1, <1>2, <1>3, <1>4 DEF Events

-----------------------------------------------------------------------------
(* The order and the times, for every step                                 *)

\* Between two ticks.
Between(s, b) ==
  /\ Since(s, b) /\ Video \in s.asked
  /\ \A e \in s.asked : s.nextEvent <= Left(s, e)

TimesInv(b) ==
  /\ session \in Sessions
  /\ session.loads # "between" =>
       \/ pc # "tick" /\ Between(gba, b)
       \/ pc # "tick" /\ session.loads = "calm" /\ Waiting(gba, b)
       \/ pc = "tick" /\ Ticking(gba, b) /\ Video \in gba.asked
       \/ pc = "tick" /\ Loaded(gba, b)

LEMMA AdvanceInTime ==
  ASSUME NEW b, Bounds(b), NEW s, InTime(s, b), NEW passed \in Int,
         \A e \in s.asked : /\ -b.late <= Left(s, e) - passed - s.cycles
                            /\ Left(s, e) - passed - s.cycles <= Latest(b, e),
         NEW t, t = Advance(s, passed)
  PROVE  InTime(t, b) /\ t.asked = s.asked /\ t.cycles = 0
<1>1. /\ s \in Clocks /\ Sound(s) /\ InOrder(s, s.root) /\ s.cycles \in Int
      /\ b.late \in Int /\ IntMax \in Int
  BY FieldTypes, BoundsAre, ModulusIs DEF InTime, Sound
<1> DEFINE k == passed + s.cycles
<1> HIDE DEF IntMax
<1>2. ASSUME NEW e \in s.asked
      PROVE  /\ e \in Events /\ Left(s, e) \in Int /\ Left(t, e) = Left(s, e) - k
             /\ -b.late <= Left(t, e) /\ Left(t, e) <= Latest(b, e)
  <2>1. e \in Events /\ Left(s, e) \in Int /\ Left(s, e) <= Latest(b, e)
    BY <1>1, FieldTypes DEF InTime
  <2>2. /\ -b.late <= Left(s, e) - passed - s.cycles
        /\ Left(s, e) - passed - s.cycles = Left(s, e) - k /\ k \in Int
    BY <1>1, <2>1
  <2>3. Latest(b, e) \in Int /\ Latest(b, e) <= IntMax /\ -IntMax - 1 <= -b.late
    BY <2>1, LatestIs
  <2>4. Left(s, e) - k <= Latest(b, e)
    BY <2>1, <2>2
  <2>5. /\ -IntMax - 1 <= Left(s, e) - passed - s.cycles
        /\ Left(s, e) - passed - s.cycles <= IntMax
    BY <1>1, <2>1, <2>2, <2>3, <2>4
  <2>6. Left(t, e) = Left(s, e) - passed - s.cycles
    BY <1>1, <2>1, <2>5, AdvanceLeft
  <2> QED
    BY <2>1, <2>2, <2>4, <2>6
<1>3. Sound(t)
  BY <1>1, AdvanceSound
<1>4. t.root = s.root /\ t.next = s.next /\ t.asked = s.asked /\ t.cycles = 0
  BY <1>1 DEF Advance, Clocks
<1>5. InOrder(t, t.root)
  <2>1. Walk(t, t.root) = Walk(s, s.root)
    BY <1>4, WalkSame
  <2>2. \A n \in 0..4 : Walk(s, s.root)[n] # Nil => Walk(s, s.root)[n] \in s.asked
    BY <1>1, LinkedIs DEF Sound
  <2>3. k \in Int /\ \A e \in s.asked : Left(s, e) \in Int /\ Left(t, e) = Left(s, e) - k
    BY <1>1, <1>2
  <2> HIDE DEF k
  <2> QED
    BY <1>1, <2>1, <2>2, <2>3, OrderSame
<1> QED
  BY <1>2, <1>3, <1>4, <1>5 DEF InTime

\* Only the cycles and what the CPU is told change: the list set aside stays.
LEMMA AsideSame ==
  ASSUME NEW s, Aside(s), NEW t \in Clocks, t.root = s.root, t.next = s.next, t.reroot = s.reroot,
         t.asked = s.asked, t.when = s.when, t.masterCycles = s.masterCycles
  PROVE  Aside(t) /\ (InOrder(s, s.reroot) => InOrder(t, t.reroot))
<1>1. \A o : Left(t, o) = Left(s, o)
  BY DEF Left
<1>2. Walk(t, t.reroot) = Walk(s, s.reroot)
  BY WalkSame
<1> QED
  BY <1>1, <1>2, OtherFieldsAside DEF InOrder, Ahead

\* A run loop ends after a state has been loaded.
LEMMA WaitingEnds ==
  ASSUME NEW b, Bounds(b), NEW s, Waiting(s, b), NEW t, t = [Advance(s, 0) EXCEPT !.nextEvent = IntMax]
  PROVE  Loaded(t, b)
<1> DEFINE none == 0   now == Word(s.masterCycles + none + s.cycles)
<1>1. /\ Aside(s) /\ s \in Clocks /\ InOrder(s, s.reroot) /\ s.cycles \in Int /\ s.cycles >= 0 /\ Video \in s.asked
      /\ s.asked = Linked(s, s.reroot) /\ IsList(s, s.reroot) /\ s.asked \subseteq Events
      /\ \A e \in s.asked :
           /\ -b.late <= Left(s, e) - s.cycles /\ Left(s, e) <= Latest(b, e)
           /\ s.halted => s.cycles <= Left(s, e)
           /\ \A o \in s.asked : Left(s, o) - Left(s, e) <= Latest(b, o)
  BY FieldTypes DEF Waiting, Loaded, Aside
<1>2. none \in Int /\ now \in Int
  <2>1. s.masterCycles + none + s.cycles \in Int
    BY <1>1, FieldTypes
  <2> QED
    BY <2>1, WordsAre
<1>3. Advance(s, none) = [s EXCEPT !.masterCycles = now, !.cycles = none]
  BY <1>1 DEF Advance, Clocks
<1>4. t = [s EXCEPT !.masterCycles = now, !.cycles = none, !.nextEvent = IntMax]
  BY <1>3
<1> HIDE DEF now
<1>5. /\ t \in Clocks /\ t.root = s.root /\ t.reroot = s.reroot /\ t.next = s.next /\ t.asked = s.asked
      /\ t.when = s.when /\ t.masterCycles = now /\ t.cycles = none /\ t.halted = s.halted
  <2> HIDE DEF none, IntMax
  <2> QED
    BY <1>1, <1>2, <1>4, ModulusIs DEF Clocks
<1>6. \A o : Left(t, o) = Left(Advance(s, none), o)
  <2>1. Advance(s, none).when = s.when /\ Advance(s, none).masterCycles = now
    BY <1>1, <1>3 DEF Clocks
  <2> QED
    BY <1>5, <2>1 DEF Left
<1>7. b.late \in Int /\ IntMax \in Int
  BY BoundsAre, ModulusIs
<1> HIDE DEF IntMax
<1>8. ASSUME NEW e \in s.asked PROVE Left(s, e) \in Int /\ Left(t, e) = Left(s, e) - s.cycles
  <2>1. e \in Events /\ Left(s, e) \in Int /\ -b.late <= Left(s, e) - s.cycles /\ Left(s, e) <= Latest(b, e)
    BY <1>1, FieldTypes
  <2>2. Latest(b, e) \in Int /\ Latest(b, e) <= IntMax /\ -IntMax - 1 <= -b.late
    BY <2>1, LatestIs
  <2>3. /\ -IntMax - 1 <= Left(s, e) - none - s.cycles /\ Left(s, e) - none - s.cycles <= IntMax
        /\ Left(s, e) - none - s.cycles = Left(s, e) - s.cycles
    BY <1>1, <1>7, <2>1, <2>2
  <2> HIDE DEF none
  <2>4. Left(Advance(s, none), e) = Left(s, e) - none - s.cycles
    BY <1>1, <1>2, <2>1, <2>3, AdvanceLeft
  <2> QED
    BY <1>6, <2>1, <2>3, <2>4
<1>9. Aside(t)
  BY <1>1, <1>5, OtherFieldsAside
<1>10. InOrder(t, t.reroot)
  <2>1. Walk(t, t.reroot) = Walk(s, s.reroot)
    <3>1. t.next = s.next /\ t.reroot = s.reroot
      BY <1>5
    <3> QED
      BY ONLY <3>1, WalkSame
  <2>2. \A n \in 0..4 : Walk(s, s.reroot)[n] # Nil => Walk(s, s.reroot)[n] \in s.asked
    BY <1>1, LinkedIs
  <2> DEFINE k == s.cycles
  <2>3. k \in Int /\ \A e \in s.asked : Left(s, e) \in Int /\ Left(t, e) = Left(s, e) - k
    BY <1>1, <1>8
  <2> HIDE DEF k
  <2> QED
    BY <1>1, <2>1, <2>2, <2>3, OrderSame
<1>11. ASSUME NEW e \in t.asked
       PROVE  /\ -b.late <= Left(t, e) - t.cycles /\ Left(t, e) <= Latest(b, e)
              /\ t.halted => t.cycles <= Left(t, e)
              /\ \A o \in t.asked : Left(t, o) - Left(t, e) <= Latest(b, o)
  <2>1. /\ e \in s.asked /\ e \in Events /\ t.cycles = 0 /\ t.halted = s.halted
        /\ Left(s, e) \in Int /\ Left(t, e) = Left(s, e) - s.cycles /\ Latest(b, e) \in Int
    BY <1>1, <1>5, <1>8, LatestIs
  <2>2. /\ -b.late <= Left(s, e) - s.cycles /\ Left(s, e) <= Latest(b, e)
        /\ s.halted => s.cycles <= Left(s, e)
    BY <1>1, <2>1
  <2>3. ASSUME NEW o \in t.asked PROVE Left(t, o) - Left(t, e) <= Latest(b, o)
    <3>1. o \in s.asked /\ Left(s, o) \in Int /\ Left(t, o) = Left(s, o) - s.cycles
      BY <1>5, <1>8
    <3>2. Left(s, o) - Left(s, e) <= Latest(b, o)
      BY <1>1, <2>1, <3>1
    <3>3. Left(t, o) - Left(t, e) = Left(s, o) - Left(s, e)
      BY <1>1, <2>1, <3>1
    <3> QED
      BY <3>2, <3>3
  <2> QED
    BY <1>1, <1>7, <2>1, <2>2, <2>3
<1>12. t.cycles >= 0 /\ Video \in t.asked
  BY <1>1, <1>5
<1> QED
  BY <1>9, <1>10, <1>11, <1>12 DEF Loaded

LEMMA InitTimes == ASSUME NEW b, Bounds(b) PROVE Init => TimesInv(b)
<1> SUFFICES ASSUME Init PROVE pc # "tick" /\ Between(gba, b)
  BY DEF TimesInv, Init
<1> DEFINE s == mTimingInit
<1>1. s \in Clocks /\ s.root = Nil /\ s.reroot = Nil /\ s.asked = {} /\ s.cycles = 0 /\ s.nextEvent = IntMax
  <2> DEFINE links == [e \in Events |-> Nil]   times == [e \in Events |-> 0]   none == {}
             off == FALSE   zero == 0
  <2>1. links \in [Events -> Links] /\ times \in [Events -> Int] /\ none \in SUBSET Events
        /\ off \in BOOLEAN /\ zero \in Int /\ IntMax \in Int /\ Nil \in Links
    BY ModulusIs DEF Links
  <2>2. s = [root |-> Nil, reroot |-> Nil, next |-> links, when |-> times, masterCycles |-> zero,
             cycles |-> zero, nextEvent |-> IntMax, halted |-> off, cpuBlocked |-> off,
             words |-> zero, asked |-> none]
    BY DEF mTimingInit
  <2> HIDE DEF links, times, none, off, zero, s, IntMax
  <2>3. s \in Clocks /\ s.root = Nil /\ s.reroot = Nil /\ s.asked = none /\ s.cycles = zero /\ s.nextEvent = IntMax
    BY <2>1, <2>2 DEF Clocks
  <2> QED
    BY <2>3 DEF none, zero
<1> HIDE DEF s, IntMax
<1>2. InTime(s, b)
  BY <1>1, NilList, NilOrder DEF Sound, InTime
<1>3. /\ Video \in Events /\ Line \in Int /\ Line + s.cycles = Line /\ -b.late <= Line /\ Line <= Latest(b, Video)
      /\ b.late \in Int /\ b.late >= 0 /\ Line >= 1 /\ Line <= IntMax /\ IntMax \in Int
  <2>1. Latest(b, Video) = b.line
    BY DEF Latest
  <2> QED
    BY <1>1, <2>1, TimesAre, BoundsAre, LatestIs, ModulusIs DEF Events
<1> DEFINE t == mTimingSchedule(s, Video, Line)
<1>4. InTime(t, b) /\ Moved(s, Video, Line, t)
  <2> DEFINE at == Line + s.cycles
  <2>1. InTime(t, b) /\ Moved(s, Video, at, t)
    BY <1>1, <1>2, <1>3, ScheduleInTime
  <2> HIDE DEF t
  <2> QED
    BY <1>3, <2>1
<1>5. gba = t /\ pc # "tick"
  BY DEF Init, s
<1> HIDE DEF t
<1>6. t.asked = {Video} /\ Left(t, Video) = Line /\ t.nextEvent = Line /\ t.cycles = 0
  BY <1>1, <1>3, <1>4 DEF Moved, Untouched, Lesser
<1> QED
  BY <1>3, <1>4, <1>5, <1>6 DEF Between, Since

LEMMA FireInTime ==
  ASSUME NEW b, Bounds(b), Ticking(gba, b), Video \in gba.asked, NEW e \in Events, Fire(e)
  PROVE  (Ticking(gba', b) /\ Video \in gba'.asked) \/ Loaded(gba', b)
<1> DEFINE s == [gba EXCEPT !.root = gba.next[e], !.next[e] = Nil, !.when[e] = 0, !.asked = @ \ {e}]
           late == -Left(gba, e)
<1>1. gba.root = e /\ Left(gba, e) <= 0 /\ gba' \in Callback(s, e, late)
  BY DEF Fire, Due
<1>2. InTime(gba, b) /\ gba \in Clocks /\ Sound(gba)
  BY DEF Ticking, InTime, Sound
<1>3. e \in gba.asked
  <2>1. Walk(gba, gba.root)[0] = e /\ e # Nil
    BY <1>1, WalkAt, EventsDiffer
  <2> QED
    BY <1>2, <2>1, LinkedIs DEF Sound
<1>4. late \in Int /\ 0 <= late /\ late <= b.late
  <2>1. Left(gba, e) \in Int /\ -b.late <= Left(gba, e) /\ b.late \in Int
    BY <1>2, <1>3, FieldTypes, BoundsAre DEF InTime
  <2> QED
    BY <1>1, <2>1
<1>5. Dropped(gba, e, s)
  BY <1>1, <1>2, FirstOut, Zenon
<1> HIDE DEF s, late
<1>6. /\ InTime(s, b) /\ Untouched(gba, s) /\ s.asked = gba.asked \ {e}
      /\ \A o \in Events : o # e => Left(s, o) = Left(gba, o)
  BY <1>2, <1>5, DropInTime
<1>7. s.cycles = gba.cycles /\ s.cycles \in Int /\ s.cycles >= 0
  BY <1>2, <1>6, FieldTypes DEF Untouched, InTime
<1>8. Ticking(s, b)
  BY <1>6, <1>7 DEF Ticking, Events
<1>9. e = IRQ => s.cycles = 0
  <2>1. ASSUME e = IRQ, s.cycles > 0 PROVE FALSE
    <3>1. Left(gba, e) >= 1 /\ Left(gba, e) \in Int
      BY <1>2, <1>3, <1>7, <2>1, FieldTypes DEF Ticking
    <3> QED
      BY <1>1, <3>1
  <2> QED
    BY <1>7, <2>1
<1>10. e \notin s.asked /\ (e # Video => Video \in s.asked)
  BY <1>6
<1> QED
  BY <1>1, <1>4, <1>8, <1>9, <1>10, CallbackInTime

\* What mTimingTick leaves when it ends.
LEMMA EndsInTime ==
  ASSUME NEW b, Bounds(b), NEW s, (Ticking(s, b) /\ Video \in s.asked) \/ Loaded(s, b), ~Due(s)
  PROVE  LET t == TickEnds(s)
             first == TickReturns(s, t)
         IN  /\ Since(t, b) /\ Video \in t.asked /\ first \in Int
             /\ \A e \in t.asked : first <= Left(t, e)
             /\ t.halted => first >= 0
             /\ \A e \in t.asked : /\ -b.late <= Left(t, e) - first - t.cycles
                                   /\ Left(t, e) - first - t.cycles <= Latest(b, e)
<1> DEFINE t == TickEnds(s)   first == TickReturns(s, t)
<1> SUFFICES /\ Since(t, b) /\ Video \in t.asked /\ first \in Int
             /\ \A e \in t.asked : first <= Left(t, e)
             /\ t.halted => first >= 0
             /\ \A e \in t.asked : /\ -b.late <= Left(t, e) - first - t.cycles
                                   /\ Left(t, e) - first - t.cycles <= Latest(b, e)
  OBVIOUS
<1>1. CASE Ticking(s, b) /\ Video \in s.asked
  <2>1. InTime(s, b) /\ Sound(s) /\ s \in Clocks /\ s.reroot = Nil /\ s.cycles \in Int /\ s.cycles <= IrqLength
    BY <1>1, FieldTypes DEF Ticking, InTime, Sound
  <2>2. s.root # Nil /\ s.root \in Events
    <3>1. s.root # Nil
      BY <1>1, <2>1, NilList DEF Sound
    <3> QED
      BY <2>1, <3>1 DEF Clocks, Links
  <2>3. t = s
    BY <2>1 DEF TickEnds
  <2>4. first = Left(s, s.root) /\ first \in Int /\ first >= 1
    <3>1. first = Left(s, s.root) /\ Left(s, s.root) \in Int
      BY <2>1, <2>2, LeftIs DEF TickReturns
    <3> HIDE DEF first
    <3> QED
      BY <2>2, <3>1 DEF Due
  <2> HIDE DEF t, first
  <2>5. \A e \in s.asked : first <= Left(s, e)
    BY <2>1, <2>2, <2>4, FirstIsFirst DEF Sound, InTime
  <2>6. \A e \in s.asked : -b.late <= Left(s, e) - s.cycles
    <3> TAKE e \in s.asked
    <3>1. Left(s, e) \in Int /\ first <= Left(s, e)
      BY <2>1, <2>5, FieldTypes
    <3> QED
      BY <2>1, <2>4, <3>1, BoundsAre, TimesAre
  <2>7. ASSUME NEW e \in s.asked
        PROVE  -b.late <= Left(s, e) - first - s.cycles /\ Left(s, e) - first - s.cycles <= Latest(b, e)
    <3>1. /\ e \in Events /\ Left(s, e) \in Int /\ first <= Left(s, e) /\ Left(s, e) <= Latest(b, e)
          /\ Latest(b, e) \in Int /\ s.cycles >= 0
      BY <2>1, <2>5, FieldTypes, LatestIs DEF InTime
    <3> QED
      BY <2>1, <2>4, <3>1, BoundsAre, TimesAre
  <2>8. s.halted => first >= 0
    BY <2>4
  <2> QED
    BY <1>1, <2>1, <2>3, <2>4, <2>5, <2>6, <2>7, <2>8 DEF Since
<1>2. CASE Loaded(s, b)
  <2> DEFINE none == Nil   rooted == [s EXCEPT !.root = s.reroot, !.reroot = none]
             next == mTimingNextEvent(rooted)
  <2>1. /\ Aside(s) /\ s \in Clocks /\ s.root = Nil /\ s.cycles \in Int /\ s.cycles >= 0
        /\ InOrder(s, s.reroot) /\ IsList(s, s.reroot) /\ s.asked = Linked(s, s.reroot) /\ Video \in s.asked
    BY <1>2, FieldTypes DEF Loaded, Aside
  <2>2. s.reroot # Nil /\ s.reroot \in Events
    <3>1. s.reroot # Nil
      BY <2>1, NilList
    <3> QED
      BY <2>1, <3>1 DEF Clocks, Links
  <2>3. t = [rooted EXCEPT !.nextEvent = next] /\ none \in Links
    BY <2>1, <2>2 DEF TickEnds, Links
  <2>4. Sound(t)
    BY <2>1, EndsSound
  <2> HIDE DEF t, none
  <2>5. rooted \in Clocks /\ rooted.root = s.reroot /\ rooted.when = s.when
        /\ rooted.masterCycles = s.masterCycles /\ rooted.cycles = s.cycles
    BY <2>1, <2>2, <2>3 DEF Clocks
  <2>6. next = Signed(Left(s, s.reroot) - s.cycles)
    <3>1. Left(rooted, s.reroot) = Left(s, s.reroot)
      BY <2>5 DEF Left
    <3> HIDE DEF rooted
    <3> QED
      BY <2>2, <2>5, <3>1 DEF mTimingNextEvent
  <2>7. s.reroot \in s.asked
    <3>1. Walk(s, s.reroot)[0] = s.reroot
      BY WalkAt
    <3> QED
      BY <2>1, <2>2, <3>1, LinkedIs
  <2>8. next = Left(s, s.reroot) - s.cycles /\ next \in Int /\ next <= Left(s, s.reroot)
    <3> DEFINE x == Left(s, s.reroot)   y == x - s.cycles
    <3>1. x \in Int /\ y \in Int /\ -b.late <= y /\ x <= Latest(b, s.reroot)
      BY <1>2, <2>1, <2>7, FieldTypes DEF Loaded
    <3>2. Latest(b, s.reroot) \in Int /\ Latest(b, s.reroot) <= IntMax /\ -IntMax - 1 <= -b.late
      BY <2>2, LatestIs
    <3> HIDE DEF x, IntMax
    <3>3. -IntMax - 1 <= y /\ y <= IntMax /\ y <= x
      BY <2>1, <3>1, <3>2, BoundsAre, ModulusIs
    <3> HIDE DEF y
    <3>4. Signed(y) = y
      BY <3>1, <3>3, SameIs, SignedIs
    <3> QED
      BY <2>6, <3>1, <3>3, <3>4 DEF x, y
  <2> HIDE DEF next
  <2>9. /\ t.root = s.reroot /\ t.next = s.next /\ t.asked = s.asked /\ t.when = s.when
        /\ t.masterCycles = s.masterCycles /\ t.cycles = s.cycles /\ t.nextEvent = next
        /\ t.halted = s.halted /\ t.cpuBlocked = s.cpuBlocked
    BY <2>1, <2>3, <2>5 DEF Clocks
  <2>10. \A o : Left(t, o) = Left(s, o)
    BY <2>9 DEF Left
  <2>11. InOrder(t, t.root)
    <3>1. Walk(t, t.root) = Walk(s, s.reroot)
      BY <2>9, WalkSame
    <3> QED
      BY <2>1, <2>10, <3>1 DEF InOrder, Ahead
  <2>12. first = next
    BY <2>1, <2>9 DEF TickReturns
  <2> HIDE DEF first
  <2>13. \A e \in t.asked : first <= Left(t, e)
    <3> TAKE e \in t.asked
    <3>1. e \in s.asked /\ e \in Events /\ Left(s, e) \in Int /\ Left(s, s.reroot) \in Int
      BY <2>1, <2>2, <2>9, FieldTypes, LeftIs
    <3>2. Left(s, s.reroot) <= Left(s, e)
      BY <2>1, <2>2, <3>1, FirstIsFirst
    <3> QED
      BY <2>8, <2>10, <2>12, <3>1, <3>2
  <2>14. Since(t, b)
    <3>1. \A e \in t.asked : /\ -b.late <= Left(t, e) - t.cycles /\ Left(t, e) <= Latest(b, e)
                             /\ Left(t, e) \in Int
      BY <1>2, <2>1, <2>9, <2>10, FieldTypes DEF Loaded
    <3>2. t.cycles \in Int /\ t.cycles >= 0 /\ b.late \in Int
      BY <2>1, <2>9, BoundsAre
    <3>3. \A e \in t.asked : -b.late <= Left(t, e)
      BY <3>1, <3>2
    <3> QED
      BY <2>4, <2>11, <3>1, <3>2, <3>3 DEF Since, InTime
  <2>15. ASSUME NEW e \in t.asked
         PROVE  -b.late <= Left(t, e) - first - t.cycles /\ Left(t, e) - first - t.cycles <= Latest(b, e)
    <3> DEFINE r == s.reroot
    <3>1. /\ e \in s.asked /\ e \in Events /\ r \in s.asked /\ Left(s, e) \in Int /\ Left(s, r) \in Int
          /\ t.cycles = s.cycles /\ Left(t, e) = Left(s, e) /\ first = Left(s, r) - s.cycles
      BY <2>1, <2>2, <2>7, <2>8, <2>9, <2>10, <2>12, FieldTypes, LeftIs
    <3>2. Left(s, r) <= Left(s, e)
      BY <2>1, <2>2, <3>1, FirstIsFirst
    <3>3. Left(s, e) - Left(s, r) <= Latest(b, e)
      BY <1>2, <3>1 DEF Loaded
    <3> HIDE DEF r
    <3>4. Left(t, e) - first - t.cycles = Left(s, e) - Left(s, r) /\ b.late \in Int /\ b.late >= 0
      BY <2>1, <3>1, BoundsAre
    <3> QED
      BY <3>1, <3>2, <3>3, <3>4
  <2>16. t.halted => first >= 0
    <3>1. s.halted => s.cycles <= Left(s, s.reroot)
      BY <1>2, <2>7 DEF Loaded
    <3>2. Left(s, s.reroot) \in Int
      BY <2>1, <2>2, LeftIs
    <3> QED
      BY <2>1, <2>8, <2>9, <2>12, <3>1, <3>2
  <2> QED
    BY <2>1, <2>8, <2>9, <2>12, <2>13, <2>14, <2>15, <2>16
<1> QED
  BY <1>1, <1>2

LEMMA NextTimes == ASSUME NEW b, Bounds(b) PROVE TimesInv(b) /\ [Next]_vars => TimesInv(b)'
<1> SUFFICES ASSUME TimesInv(b), [Next]_vars PROVE TimesInv(b)'
  OBVIOUS
<1> SUFFICES ASSUME session.loads # "between", session' = session
             PROVE  \/ pc' # "tick" /\ Between(gba', b)
                    \/ pc' # "tick" /\ session.loads = "calm" /\ Waiting(gba', b)
                    \/ pc' = "tick" /\ Ticking(gba', b) /\ Video \in gba'.asked
                    \/ pc' = "tick" /\ Loaded(gba', b)
  BY DEF TimesInv, Next, Runs, vars, Instruction, GBAHalt, GBAProcessEvents, Fire, TickDone, LoadState
<1>0. session.loads \in {"between", "calm", "frame"}
  BY SessionsAssumption DEF TimesInv
<1>1. \/ pc # "tick" /\ Between(gba, b)
      \/ pc # "tick" /\ session.loads = "calm" /\ Waiting(gba, b)
      \/ pc = "tick" /\ Ticking(gba, b) /\ Video \in gba.asked
      \/ pc = "tick" /\ Loaded(gba, b)
  BY DEF TimesInv
<1>2. b.late \in Int /\ b.late >= 0
  BY BoundsAre
<1>10. CASE Instruction /\ ~Between(gba, b)
  <2>1. /\ Waiting(gba, b) /\ session.loads = "calm" /\ gba.cycles < gba.nextEvent /\ pc' = "run"
    BY <1>1, <1>10 DEF Instruction
  <2>2. Loaded(gba, b) /\ Aside(gba) /\ gba \in Clocks /\ gba.reroot # Nil
    <3>1. Loaded(gba, b) /\ Aside(gba) /\ Video \in Linked(gba, gba.reroot)
      BY <2>1 DEF Waiting, Loaded, Aside
    <3> QED
      BY <3>1, NilList DEF Aside
  <2>3. PICK c \in Lengths : gba' = [gba EXCEPT !.cycles = @ + c]
    BY <1>10, <2>1, <2>2 DEF Instruction
  <2>4. /\ c \in Int /\ c >= 1 /\ c <= b.late /\ gba.cycles \in Int /\ gba.cycles >= 0 /\ gba.nextEvent \in Int
        /\ gba.asked \subseteq Events /\ \A e \in gba.asked : Left(gba, e) \in Int
    BY <2>2, FieldTypes, TimesAre, BoundsAre DEF Loaded
  <2> DEFINE spent == gba.cycles + c   t == [gba EXCEPT !.cycles = spent]
  <2>5. spent \in Int /\ spent >= 0 /\ gba' = t
    BY <2>2, <2>3, <2>4
  <2> HIDE DEF spent
  <2>6. /\ t \in Clocks /\ t.root = gba.root /\ t.next = gba.next /\ t.reroot = gba.reroot
        /\ t.asked = gba.asked /\ t.when = gba.when /\ t.masterCycles = gba.masterCycles
        /\ t.cycles = spent /\ t.nextEvent = gba.nextEvent /\ t.halted = gba.halted
    BY <2>2, <2>5 DEF Clocks
  <2> HIDE DEF t
  <2>7. ~gba.halted
    BY <2>1, <2>4 DEF Waiting
  <2>8. \A o : Left(t, o) = Left(gba, o)
    BY <2>6 DEF Left
  <2>9. ASSUME NEW e \in gba.asked PROVE gba.nextEvent <= Left(gba, e) /\ -b.late <= Left(gba, e) - spent
    <3>1. gba.nextEvent <= Left(gba, e) /\ Left(gba, e) \in Int
      BY <2>1, <2>4 DEF Waiting
    <3> QED
      BY <1>2, <2>1, <2>4, <3>1 DEF spent
  <2>10. Waiting(t, b)
    BY <2>1, <2>2, <2>5, <2>6, <2>7, <2>8, <2>9, AsideSame DEF Waiting, Loaded
  <2> QED
    BY <2>1, <2>5, <2>10
<1>3. CASE Instruction /\ Between(gba, b)
  <2>1. Between(gba, b) /\ gba.cycles < gba.nextEvent /\ pc' = "run"
    BY <1>3 DEF Instruction
  <2>2. Running(gba, b)
    BY <2>1 DEF Between, Since, Running
  <2>3. PICK c \in Lengths, s \in GBADMARun(gba, 0) \cup GBATimerWriteTMCNT_HI(gba) \cup GBARaiseIRQ(gba) :
          gba' = [s EXCEPT !.cycles = @ + c]
    BY <1>3 DEF Instruction
  <2>4. Running(s, b)
    <3>1. CASE s \in GBADMARun(gba, 0)
      <4>1. 0 \in Int /\ -b.late <= 0
        BY <1>2
      <4> QED
        BY <2>2, <3>1, <4>1, RunInTime
    <3>2. CASE s \in GBATimerWriteTMCNT_HI(gba)
      BY <2>2, <3>2, WriteInTime
    <3>3. CASE s \in GBARaiseIRQ(gba)
      BY <2>2, <3>3, RaiseInTime
    <3> QED
      BY <3>1, <3>2, <3>3
  <2>5. InTime(s, b) /\ s \in Clocks /\ s.cycles \in Int /\ s.cycles >= 0 /\ s.nextEvent \in Int
        /\ c \in Int /\ c >= 1 /\ c <= b.late
    BY <2>4, FieldTypes, TimesAre, BoundsAre DEF Running, InTime, Sound
  <2> DEFINE spent == s.cycles + c   t == [s EXCEPT !.cycles = spent]
  <2>6. spent \in Int /\ spent >= 0 /\ gba' = t
    BY <2>3, <2>5
  <2> HIDE DEF spent
  <2>7. /\ t \in Clocks /\ t.root = s.root /\ t.next = s.next /\ t.reroot = s.reroot /\ t.asked = s.asked
        /\ t.when = s.when /\ t.masterCycles = s.masterCycles /\ t.cycles = spent /\ t.nextEvent = s.nextEvent
    BY <2>5, <2>6 DEF Clocks
  <2> HIDE DEF t
  <2>8. InTime(t, b) /\ \A o : Left(t, o) = Left(s, o)
    <3>1. t.cycles >= 0
      BY <2>6, <2>7
    <3> QED
      BY ONLY <2>5, <2>7, <3>1, OtherInTime
  <2>9. ASSUME NEW e \in t.asked PROVE t.nextEvent <= Left(t, e) /\ -b.late <= Left(t, e) - t.cycles
    <3>1. s.nextEvent <= Left(s, e) /\ s.cycles < s.nextEvent /\ Left(s, e) \in Int
      BY <2>4, <2>5, <2>7, FieldTypes DEF Running
    <3> QED
      BY <1>2, <2>5, <2>7, <2>8, <3>1 DEF spent
  <2>10. Video \in t.asked
    BY <2>4, <2>7 DEF Running
  <2> QED
    BY <2>1, <2>6, <2>8, <2>9, <2>10 DEF Between, Since
<1>11. CASE GBAHalt /\ ~Between(gba, b)
  <2>1. Waiting(gba, b) /\ session.loads = "calm" /\ gba.cycles < gba.nextEvent /\ pc' = "run"
    BY <1>1, <1>11 DEF GBAHalt
  <2>2. Loaded(gba, b) /\ Aside(gba) /\ gba \in Clocks
    BY <2>1 DEF Waiting, Loaded, Aside
  <2>3. gba.cycles \in Int /\ gba.nextEvent \in Int /\ \A e \in gba.asked : Left(gba, e) \in Int
    BY <2>2, FieldTypes
  <2> DEFINE on == TRUE   t == [gba EXCEPT !.nextEvent = gba.cycles, !.halted = on]
  <2>4. on \in BOOLEAN /\ gba' = t
    BY <1>11 DEF GBAHalt
  <2> HIDE DEF on
  <2>5. /\ t \in Clocks /\ t.root = gba.root /\ t.next = gba.next /\ t.reroot = gba.reroot
        /\ t.asked = gba.asked /\ t.when = gba.when /\ t.masterCycles = gba.masterCycles
        /\ t.cycles = gba.cycles /\ t.nextEvent = gba.cycles
    BY <2>2, <2>3, <2>4 DEF Clocks
  <2> HIDE DEF t
  <2>6. \A o : Left(t, o) = Left(gba, o)
    BY <2>5 DEF Left
  <2>7. ASSUME NEW e \in gba.asked PROVE gba.cycles <= Left(gba, e)
    <3>1. gba.nextEvent <= Left(gba, e) /\ Left(gba, e) \in Int
      BY <2>1, <2>3 DEF Waiting
    <3> QED
      BY <2>1, <2>3, <3>1
  <2>8. Waiting(t, b)
    BY <2>2, <2>3, <2>5, <2>6, <2>7, AsideSame DEF Waiting, Loaded
  <2> QED
    BY <2>1, <2>4, <2>8
<1>4. CASE GBAHalt /\ Between(gba, b)
  <2>1. Between(gba, b) /\ gba.cycles < gba.nextEvent /\ pc' = "run"
    BY <1>4 DEF GBAHalt
  <2>2. InTime(gba, b) /\ gba \in Clocks /\ gba.cycles \in Int /\ gba.nextEvent \in Int /\ gba.cycles >= 0
    BY <2>1, FieldTypes DEF Between, Since, InTime, Sound
  <2> DEFINE on == TRUE   t == [gba EXCEPT !.nextEvent = gba.cycles, !.halted = on]
  <2>3. on \in BOOLEAN /\ gba' = t
    BY <1>4 DEF GBAHalt
  <2> HIDE DEF on
  <2>4. /\ t \in Clocks /\ t.root = gba.root /\ t.next = gba.next /\ t.reroot = gba.reroot
        /\ t.asked = gba.asked /\ t.when = gba.when /\ t.masterCycles = gba.masterCycles
        /\ t.cycles = gba.cycles /\ t.nextEvent = gba.cycles
    BY <2>2, <2>3 DEF Clocks
  <2> HIDE DEF t
  <2>5. InTime(t, b) /\ \A o : Left(t, o) = Left(gba, o)
    <3>1. t.cycles >= 0
      BY <2>2, <2>4
    <3> QED
      BY ONLY <2>2, <2>4, <3>1, OtherInTime
  <2>6. ASSUME NEW e \in t.asked PROVE t.nextEvent <= Left(t, e) /\ -b.late <= Left(t, e) - t.cycles
    <3>1. /\ gba.nextEvent <= Left(gba, e) /\ -b.late <= Left(gba, e) - gba.cycles /\ Left(gba, e) \in Int
      BY <2>1, <2>2, <2>4, FieldTypes DEF Between, Since
    <3> QED
      BY <2>1, <2>2, <2>4, <2>5, <3>1
  <2>7. Video \in t.asked
    BY <2>1, <2>4 DEF Between
  <2> QED
    BY <2>1, <2>3, <2>5, <2>6, <2>7 DEF Between, Since
<1>12. CASE GBAProcessEvents /\ ~Between(gba, b)
  <2>1. Waiting(gba, b) /\ pc' = "tick" /\ gba' = [Advance(gba, 0) EXCEPT !.nextEvent = IntMax]
    BY <1>1, <1>12 DEF GBAProcessEvents
  <2> HIDE DEF IntMax
  <2>2. Loaded(gba', b)
    BY <2>1, WaitingEnds
  <2> QED
    BY <2>1, <2>2
<1>5. CASE GBAProcessEvents /\ Between(gba, b)
  <2>1. Between(gba, b) /\ pc' = "tick"
    BY <1>5 DEF GBAProcessEvents
  <2>2. InTime(gba, b) /\ gba \in Clocks /\ gba.cycles \in Int /\ gba.cycles >= 0
    BY <2>1, FieldTypes DEF Between, Since, InTime, Sound
  <2> DEFINE s == Advance(gba, 0)   t == [s EXCEPT !.nextEvent = IntMax]
  <2>3. gba' = t
    BY <1>5 DEF GBAProcessEvents
  <2>4. InTime(s, b) /\ s.asked = gba.asked /\ s.cycles = 0
    <3> DEFINE none == 0
    <3>1. none \in Int /\ s = Advance(gba, none)
      OBVIOUS
    <3>2. \A e \in gba.asked : /\ -b.late <= Left(gba, e) - none - gba.cycles
                               /\ Left(gba, e) - none - gba.cycles <= Latest(b, e)
      <4> TAKE e \in gba.asked
      <4>1. /\ -b.late <= Left(gba, e) - gba.cycles /\ Left(gba, e) \in Int
            /\ Left(gba, e) <= Latest(b, e) /\ Latest(b, e) \in Int
        BY <2>1, <2>2, FieldTypes, LatestIs DEF Between, Since, InTime
      <4> QED
        BY <2>2, <4>1
    <3> HIDE DEF none, s
    <3> QED
      BY <2>2, <3>1, <3>2, AdvanceInTime
  <2> HIDE DEF s
  <2>5. s \in Clocks /\ IntMax \in Int
    BY <2>4, ModulusIs DEF InTime, Sound
  <2> HIDE DEF IntMax
  <2>6. /\ t \in Clocks /\ t.root = s.root /\ t.next = s.next /\ t.reroot = s.reroot /\ t.asked = s.asked
        /\ t.when = s.when /\ t.masterCycles = s.masterCycles /\ t.cycles = s.cycles
    BY <2>5 DEF Clocks
  <2> HIDE DEF t
  <2>7. InTime(t, b)
    <3>1. t.cycles >= 0
      BY <2>4, <2>6
    <3> QED
      BY ONLY <2>4, <2>6, <3>1, OtherInTime
  <2>8. Ticking(t, b)
    BY <2>4, <2>6, <2>7, TimesAre DEF Ticking
  <2> QED
    BY <2>1, <2>3, <2>4, <2>6, <2>8 DEF Between
<1>6. ASSUME NEW e \in Events, Fire(e)
      PROVE  pc' = "tick" /\ ((Ticking(gba', b) /\ Video \in gba'.asked) \/ Loaded(gba', b))
  <2>1. gba.root = e /\ pc = "tick" /\ pc' = "tick"
    BY <1>6 DEF Fire
  <2>2. Ticking(gba, b) /\ Video \in gba.asked
    BY <1>1, <2>1, EventsDiffer DEF Loaded, Aside
  <2> QED
    BY <1>6, <2>1, <2>2, FireInTime
<1>7. CASE TickDone
  <2> DEFINE ended == TickEnds(gba)   first == TickReturns(gba, ended)
  <2>1. (Ticking(gba, b) /\ Video \in gba.asked) \/ Loaded(gba, b)
    BY <1>1, <1>7 DEF TickDone
  <2>2. ~Due(gba)
    BY <1>7 DEF TickDone
  <2>3. /\ Since(ended, b) /\ Video \in ended.asked /\ first \in Int
        /\ \A e \in ended.asked : first <= Left(ended, e)
        /\ ended.halted => first >= 0
        /\ \A e \in ended.asked : /\ -b.late <= Left(ended, e) - first - ended.cycles
                                  /\ Left(ended, e) - first - ended.cycles <= Latest(b, e)
    BY <2>1, <2>2, EndsInTime
  <2>4. IF ended.cpuBlocked
        THEN gba' = Advance(ended, first) /\ pc' = "tick"
        ELSE /\ gba' = [ended EXCEPT !.nextEvent = first, !.cycles = IF ended.halted THEN first ELSE @]
             /\ pc' = "idle"
    BY <1>7 DEF TickDone
  <2> HIDE DEF ended, first
  <2>5. InTime(ended, b) /\ ended \in Clocks /\ ended.cycles \in Int /\ ended.cycles >= 0
    BY <2>3, FieldTypes DEF Since, InTime, Sound
  <2>6. \A e \in ended.asked : Left(ended, e) \in Int
    BY <2>5, FieldTypes
  <2>7. CASE ended.cpuBlocked
    <3>1. gba' = Advance(ended, first) /\ pc' = "tick"
      BY <2>4, <2>7
    <3> DEFINE t == Advance(ended, first)
    <3>4. InTime(t, b) /\ t.asked = ended.asked /\ t.cycles = 0
      BY <2>3, <2>5, AdvanceInTime
    <3> HIDE DEF t
    <3>5. Ticking(t, b) /\ Video \in t.asked
      BY <2>3, <3>4, TimesAre DEF Ticking
    <3> QED
      BY <3>1, <3>5 DEF t
  <2>8. CASE ~ended.cpuBlocked
    <3> DEFINE spent == IF ended.halted THEN first ELSE ended.cycles
               t == [ended EXCEPT !.nextEvent = first, !.cycles = spent]
    <3>1. /\ spent \in Int /\ spent >= 0
          /\ \A e \in ended.asked : -b.late <= Left(ended, e) - spent
      <4>1. CASE ended.halted
        <5>1. spent = first /\ first >= 0
          BY <2>3, <4>1
        <5>2. \A e \in ended.asked : first <= Left(ended, e) /\ Left(ended, e) \in Int
          BY <2>3, <2>6
        <5> HIDE DEF spent
        <5> QED
          BY <1>2, <2>3, <5>1, <5>2
      <4>2. CASE ~ended.halted
        <5>1. spent = ended.cycles
          BY <4>2
        <5> QED
          BY <2>3, <2>5, <5>1 DEF Since
      <4> QED
        BY <4>1, <4>2
    <3>2. gba' = t /\ pc' = "idle"
      BY <2>4, <2>5, <2>8 DEF Clocks
    <3> HIDE DEF spent
    <3>3. /\ t \in Clocks /\ t.root = ended.root /\ t.next = ended.next /\ t.reroot = ended.reroot
          /\ t.asked = ended.asked /\ t.when = ended.when /\ t.masterCycles = ended.masterCycles
          /\ t.cycles = spent /\ t.nextEvent = first
      BY <2>3, <2>5, <3>1 DEF Clocks
    <3> HIDE DEF t
    <3>4. InTime(t, b) /\ \A o : Left(t, o) = Left(ended, o)
      <4>1. t.cycles >= 0
        BY <3>1, <3>3
      <4> QED
        BY ONLY <2>5, <3>3, <4>1, OtherInTime
    <3>5. Between(t, b)
      BY <2>3, <3>1, <3>3, <3>4 DEF Between, Since
    <3> QED
      BY <3>2, <3>5
  <2> QED
    BY <2>7, <2>8
<1>8. CASE LoadState
  <2>1. pc # "tick" /\ pc' # "tick" /\ session.loads = "calm"
    BY <1>0, <1>8 DEF LoadState
  <2>2. gba \in Clocks
    BY <1>1, <2>1 DEF Between, Since, InTime, Sound, Waiting, Loaded, Aside
  <2>3. PICK saved \in Saved : gba' \in GBADeserialize(gba, saved)
    BY <1>8 DEF LoadState
  <2>4. saved \in SavedStates /\ saved.made = "between"
    <3>1. saved \in SavedStates /\ saved.made # "frame"
      BY <2>1 DEF Saved
    <3>2. saved.made \in {"between", "frame"}
      BY <3>1, StatesAssumption
    <3> QED
      BY <3>1, <3>2
  <2>5. Waiting(gba', b)
    BY <2>2, <2>3, <2>4, DeserializeInTime
  <2> QED
    BY <2>1, <2>5
<1>9. CASE UNCHANGED vars
  BY <1>1, <1>9 DEF vars
<1> QED
  BY <1>3, <1>4, <1>5, <1>6, <1>7, <1>8, <1>9, <1>10, <1>11, <1>12 DEF Next, Runs

\* For every word size, game and savestate whose times fit into half the range of
\* the clock, and the same loads: the list of mTimingSchedule stays in the order of
\* time and priority, across the wrap of the clock, and so does the one a loaded state
\* leaves aside.
THEOREM ListIsOrdered == ASSUME NEW CONSTANT b, Bounds(b) PROVE Spec => []Ordered
<1>1. TimesInv(b) => Ordered
  <2> SUFFICES ASSUME TimesInv(b), session.loads # "between",
                      NEW p \in {gba.root, gba.reroot} \ {Nil}, NEW n \in DOMAIN Walk(gba, p) \ {0},
                      Walk(gba, p)[n - 1] # Nil, Walk(gba, p)[n] # Nil
               PROVE  Ahead(gba, Walk(gba, p)[n - 1], Walk(gba, p)[n])
    BY DEF Ordered, Ahead
  <2>1. n \in 1..4
    <3>1. DOMAIN Walk(gba, p) = 0..4
      BY WalkIs
    <3> QED
      BY <3>1
  <2>2. InOrder(gba, p)
    BY DEF TimesInv, Between, Since, Ticking, InTime, Sound, Waiting, Loaded, Aside
  <2> QED
    BY <2>1, <2>2 DEF InOrder
<1>2. Init => TimesInv(b)
  BY InitTimes
<1>3. TimesInv(b) /\ [Next]_vars => TimesInv(b)'
  BY NextTimes
<1> QED
  BY <1>1, <1>2, <1>3, PTL DEF Spec

\* Under the same premises the CPU is told of no event later than it comes, also
\* where a state brings back a halted CPU or a DMA, or the DMA that had blocked the CPU
\* before goes on in the state.
THEOREM CpuIsOnTime == ASSUME NEW CONSTANT b, Bounds(b) PROVE Spec => []NeverPast
<1>1. TimesInv(b) => NeverPast
  BY DEF TimesInv, NeverPast, OnTime, Between, Waiting
<1>2. Init => TimesInv(b)
  BY InitTimes
<1>3. TimesInv(b) /\ [Next]_vars => TimesInv(b)'
  BY NextTimes
<1> QED
  BY <1>1, <1>2, <1>3, PTL DEF Spec
=============================================================================
