------------------------- MODULE LiveSessionProofs -------------------------
(***************************************************************************)
(* Theorems about a session while it lives, for any deployments, drivers,  *)
(* plans and bounds: what the store shows, what the clients that watch it  *)
(* can miss, that a plan is never left, what the agent state is the fold   *)
(* of, that every record is one of those there are, when two tasks get one *)
(* number, and what the views that are served have of the ledger.          *)
(***************************************************************************)
EXTENDS LiveSession, FiniteSetTheorems, TLAPS

Fields == {"pc", "by", "kind", "ref", "ctx", "todo", "seq", "n"}

\* A number is given once, to a row or to an advance that holds it; in SQLite to one
\* advance at a time, and above those of the rows.
Numbered ==
  /\ deploy \in Deployments /\ numbers \in Nat /\ \E S : rows \in Seq(S)
  /\ \A i \in DOMAIN rows : rows[i].seq \in 1..numbers
  /\ \A i, j \in DOMAIN rows : rows[i].seq = rows[j].seq => i = j
  /\ DOMAIN run = Drivers
  /\ \A d \in Drivers : /\ DOMAIN run[d] = Fields /\ run[d].seq \in 0..numbers
                        /\ run[d].pc = "idle" => run[d] = Idle
                        /\ run[d].seq # 0 => run[d].seq \notin Visible
  /\ \A d, e \in Drivers : run[d].seq = run[e].seq /\ run[d].seq # 0 => d = e
  /\ deploy.store = "sqlite" =>
       /\ Ordered
       /\ \A d \in Drivers : run[d].seq # 0 => /\ \A e \in Drivers \ {d} : run[e].seq = 0
                                               /\ \A i \in DOMAIN rows : rows[i].seq < run[d].seq

\* Where a query returns row i.
Where(i) == IF deploy.store = "postgres" THEN Place(i) ELSE i

Watching ==
  /\ watcher \in [last : Nat, sent : SUBSET Nat, offset : Nat, start : SUBSET Nat, done : BOOLEAN]
  /\ watcher.start \subseteq Visible

\* A stream has sent the first rows, up to the one with the number it saw; from
\* Postgres at least that one.
StreamInv ==
  /\ deploy.store # "postgres" =>
       \E n \in 0..Len(rows) : /\ \A i \in 1..n : rows[i].seq \in watcher.sent
                               /\ watcher.last = IF n = 0 THEN 0 ELSE rows[n].seq
  /\ deploy.store = "postgres" /\ watcher.last # 0 => watcher.last \in watcher.sent

\* What a client who reads pages has still to get lies behind its offset.
PagerInv ==
  /\ \A i \in DOMAIN rows :
       rows[i].seq \in watcher.start => rows[i].seq \in watcher.sent \/ watcher.offset < Where(i)
  /\ watcher.done => watcher.start \subseteq watcher.sent

WatchInv == /\ Numbered /\ Watching
            /\ deploy.observer = "stream" => StreamInv
            /\ deploy.observer = "pager" => PagerInv

-----------------------------------------------------------------------------
(* Rows by number. *)

LEMMA RowsAreIndexed ==
  ASSUME Numbered
  PROVE  /\ Len(rows) \in Nat /\ DOMAIN rows = 1..Len(rows)
         /\ \A i \in DOMAIN rows : rows[i].seq \in Nat \ {0}
         /\ rows = << >> <=> Len(rows) = 0
<1>1. PICK S : rows \in Seq(S)
  BY DEF Numbered
<1>2. \A i \in DOMAIN rows : rows[i].seq \in 1..numbers /\ numbers \in Nat
  BY DEF Numbered
<1> QED BY <1>1, <1>2

LEMMA PlaceFacts ==
  ASSUME Numbered
  PROVE  /\ \A i \in DOMAIN rows : Place(i) \in 1..Len(rows)
         /\ \A i, j \in DOMAIN rows : rows[i].seq < rows[j].seq => Place(i) < Place(j)
         /\ \A i, j \in DOMAIN rows : Place(i) = Place(j) => i = j
<1> DEFINE Upto(i) == {j \in DOMAIN rows : rows[j].seq <= rows[i].seq}
<1>1. /\ Len(rows) \in Nat /\ DOMAIN rows = 1..Len(rows)
      /\ \A i \in DOMAIN rows : rows[i].seq \in Nat
  BY RowsAreIndexed
<1>2. IsFiniteSet(1..Len(rows)) /\ Cardinality(1..Len(rows)) = Len(rows)
  <2>1. PICK n \in Nat : n = Len(rows)
    BY <1>1
  <2>2. IsFiniteSet(1..n) /\ Cardinality(1..n) = n
    BY FS_Interval
  <2> QED BY <2>1, <2>2
<1>3. \A i \in DOMAIN rows : /\ IsFiniteSet(Upto(i)) /\ Cardinality(Upto(i)) \in Nat
                             /\ Cardinality(Upto(i)) <= Len(rows) /\ i \in Upto(i)
  <2>1. TAKE i \in DOMAIN rows
  <2>2. Upto(i) \in SUBSET (1..Len(rows)) /\ i \in Upto(i)
    BY <1>1
  <2>3. IsFiniteSet(Upto(i)) /\ Cardinality(Upto(i)) <= Len(rows)
    BY <1>2, <2>2, FS_Subset
  <2> QED BY <2>2, <2>3, FS_CardinalityType
<1>4. \A i \in DOMAIN rows : Cardinality(Upto(i)) # 0
  BY <1>3, FS_EmptySet
<1>5. \A i \in DOMAIN rows : Place(i) = Cardinality(Upto(i))
  BY DEF Place
<1>6. \A i \in DOMAIN rows : Place(i) \in 1..Len(rows)
  <2> HIDE DEF Upto
  <2> QED BY <1>1, <1>3, <1>4, <1>5
<1>7. ASSUME NEW i \in DOMAIN rows, NEW j \in DOMAIN rows, rows[i].seq < rows[j].seq
      PROVE  Place(i) < Place(j)
  <2>1. Upto(i) \in SUBSET Upto(j) /\ j \notin Upto(i) /\ j \in Upto(j)
    BY <1>1, <1>7
  <2>2. /\ Cardinality(Upto(i)) <= Cardinality(Upto(j))
        /\ Cardinality(Upto(j)) = Cardinality(Upto(i)) => Upto(j) = Upto(i)
    BY <1>3, <2>1, FS_Subset
  <2>3. Cardinality(Upto(j)) # Cardinality(Upto(i))
    BY <2>1, <2>2
  <2> HIDE DEF Upto
  <2> QED BY <1>3, <1>5, <2>2, <2>3
<1>8. \A i, j \in DOMAIN rows : Place(i) = Place(j) => i = j
  <2> HIDE DEF Upto
  <2>1. SUFFICES ASSUME NEW i \in DOMAIN rows, NEW j \in DOMAIN rows, i # j
                 PROVE  Place(i) # Place(j)
    OBVIOUS
  <2>2. rows[i].seq < rows[j].seq \/ rows[j].seq < rows[i].seq
    BY <1>1, <2>1 DEF Numbered
  <2> QED BY <1>6, <1>7, <2>2, <1>1
<1> QED BY <1>6, <1>7, <1>8

\* Every place is some row's, for there are as many as rows.
LEMMA PlacesTaken ==
  ASSUME Numbered, NEW k \in 1..Len(rows)
  PROVE  \E i \in DOMAIN rows : Place(i) = k
<1> DEFINE f == [i \in 1..Len(rows) |-> Place(i)]
<1>1. Len(rows) \in Nat /\ DOMAIN rows = 1..Len(rows)
  BY RowsAreIndexed
<1>2. IsFiniteSet(1..Len(rows))
  BY <1>1, FS_Interval
<1>3. f \in Injection(1..Len(rows), 1..Len(rows))
  BY <1>1, PlaceFacts DEF Injection, IsInjective
<1>4. f \in Surjection(1..Len(rows), 1..Len(rows))
  <2> HIDE DEF f
  <2> QED BY <1>2, <1>3, FS_Injection
<1> QED BY <1>1, <1>4 DEF Surjection

\* A query returns row i where it says.
LEMMA QueriedFacts ==
  ASSUME Numbered
  PROVE  /\ DOMAIN Queried = 1..Len(rows) /\ Len(Queried) = Len(rows)
         /\ \A i \in DOMAIN rows : /\ Where(i) \in 1..Len(rows)
                                   /\ Queried[Where(i)] = rows[i]
         /\ \A k \in 1..Len(rows) : \E i \in DOMAIN rows : Where(i) = k
<1>1. Len(rows) \in Nat /\ DOMAIN rows = 1..Len(rows)
  BY RowsAreIndexed
<1>2. CASE deploy.store # "postgres"
  BY <1>1, <1>2 DEF Queried, Where
<1>3. CASE deploy.store = "postgres"
  <2>1. /\ Queried = [k \in 1..Len(rows) |-> rows[CHOOSE i \in DOMAIN rows : Place(i) = k]]
        /\ \A i : Where(i) = Place(i)
    BY <1>1, <1>3 DEF Queried, Where
  <2>2. DOMAIN Queried = 1..Len(rows) /\ Len(Queried) = Len(rows)
    BY <1>1, <2>1
  <2>3. ASSUME NEW i \in DOMAIN rows
        PROVE  Place(i) \in 1..Len(rows) /\ Queried[Place(i)] = rows[i]
    <3>1. Place(i) \in 1..Len(rows) /\ \A j \in DOMAIN rows : Place(j) = Place(i) => j = i
      BY PlaceFacts
    <3>2. (CHOOSE j \in DOMAIN rows : Place(j) = Place(i)) = i
      BY <3>1
    <3> QED BY <2>1, <3>1, <3>2
  <2> QED BY <2>1, <2>2, <2>3, PlacesTaken
<1> QED BY <1>2, <1>3

-----------------------------------------------------------------------------
(* The steps that show nothing. *)

\* Advance d goes on as f.
Goes(d, f) ==
  /\ run' = [run EXCEPT ![d] = f] /\ DOMAIN f = Fields
  /\ f.seq \in {0, run[d].seq}
  /\ f.pc = "idle" => f = Idle

LEMMA UnseenKeepsWatching ==
  ASSUME WatchInv, UNCHANGED <<deploy, rows, watcher>>
  PROVE  /\ Watching'
         /\ deploy'.observer = "stream" => StreamInv'
         /\ deploy'.observer = "pager" => PagerInv'
<1>1. \A i : Where(i)' = Where(i)
  BY DEF Where, Place
<1> QED BY <1>1 DEF WatchInv, Watching, StreamInv, PagerInv, Visible

LEMMA GoingKeeps ==
  ASSUME WatchInv, NEW d \in Drivers, NEW f, Goes(d, f),
         UNCHANGED <<deploy, rows, numbers, watcher>>
  PROVE  WatchInv'
<1>1. Numbered'
  <2>1. /\ DOMAIN run' = Drivers /\ run'[d] = f
        /\ \A e \in Drivers : run'[e] = IF e = d THEN f ELSE run[e]
    BY DEF Goes, WatchInv, Numbered
  <2>2. \A e \in Drivers : run'[e].seq = 0 \/ run'[e].seq = run[e].seq
    BY <2>1 DEF Goes
  <2>3. /\ deploy' \in Deployments /\ numbers' \in Nat /\ \E S : rows' \in Seq(S)
        /\ \A i \in DOMAIN rows' : rows'[i].seq \in 1..numbers'
        /\ \A i, j \in DOMAIN rows' : rows'[i].seq = rows'[j].seq => i = j
        /\ Visible' = Visible /\ Ordered' = Ordered
    BY DEF WatchInv, Numbered, Visible, Ordered
  <2>4. \A e \in Drivers : /\ DOMAIN run'[e] = Fields /\ run'[e].seq \in 0..numbers'
                           /\ run'[e].pc = "idle" => run'[e] = Idle
                           /\ run'[e].seq # 0 => run'[e].seq \notin Visible'
    BY <2>1, <2>2, <2>3 DEF WatchInv, Numbered, Goes
  <2>5. \A e, g \in Drivers : run'[e].seq = run'[g].seq /\ run'[e].seq # 0 => e = g
    BY <2>2 DEF WatchInv, Numbered
  <2>6. deploy'.store = "sqlite" =>
          /\ Ordered'
          /\ \A e \in Drivers : run'[e].seq # 0 =>
               /\ \A g \in Drivers \ {e} : run'[g].seq = 0
               /\ \A i \in DOMAIN rows' : rows'[i].seq < run'[e].seq
    <3>1. \A e \in Drivers : run[e].seq = 0 => run'[e].seq = 0
      BY <2>2
    <3>2. SUFFICES ASSUME deploy.store = "sqlite", NEW e \in Drivers, run'[e].seq # 0
                   PROVE  /\ Ordered
                          /\ \A g \in Drivers \ {e} : run'[g].seq = 0
                          /\ \A i \in DOMAIN rows : rows[i].seq < run'[e].seq
      BY <2>3 DEF WatchInv, Numbered
    <3>3. run'[e].seq = run[e].seq /\ run[e].seq # 0
      BY <2>2, <3>2
    <3>4. /\ Ordered /\ \A g \in Drivers \ {e} : run[g].seq = 0
          /\ \A i \in DOMAIN rows : rows[i].seq < run[e].seq
      BY <3>2, <3>3 DEF WatchInv, Numbered
    <3> QED BY <3>1, <3>3, <3>4
  <2> QED BY <2>1, <2>3, <2>4, <2>5, <2>6 DEF Numbered
<1> QED BY <1>1, UnseenKeepsWatching DEF WatchInv

LEMMA NumberKeeps ==
  ASSUME WatchInv, NEW d \in Drivers, Number(d)
  PROVE  WatchInv'
<1>1. PICK q : q = numbers + 1
  OBVIOUS
<1>2. /\ \A i \in DOMAIN rows : rows[i].seq \in 1..numbers
      /\ numbers \in Nat /\ q \in Nat /\ q > numbers
  BY <1>1 DEF WatchInv, Numbered
<1>3. /\ UNCHANGED <<deploy, rows, watcher>> /\ numbers' = q /\ run[d].seq = 0
      /\ deploy.store = "sqlite" => \A e \in Drivers : run[e].seq = 0
  BY <1>1 DEF Number
<1>4. /\ DOMAIN run' = Drivers /\ run'[d] = [run[d] EXCEPT !.seq = q]
      /\ \A e \in Drivers \ {d} : run'[e] = run[e]
  BY <1>1 DEF Number, WatchInv, Numbered
<1>5. /\ DOMAIN run'[d] = Fields /\ run'[d].seq = q /\ run'[d].pc = run[d].pc
  BY <1>4 DEF WatchInv, Numbered, Fields
<1>6. run[d].pc # "idle"
  <2>1. run[d].pc = "idle" => run[d] = Idle
    BY DEF WatchInv, Numbered
  <2>2. Idle.todo = << >> /\ run[d].todo # << >>
    BY DEF Idle, Number
  <2> QED BY <2>1, <2>2
<1>7. Numbered'
  <2>1. /\ deploy' \in Deployments /\ numbers' \in Nat /\ \E S : rows' \in Seq(S)
        /\ \A i \in DOMAIN rows' : rows'[i].seq \in 1..numbers' /\ rows'[i].seq < q
        /\ \A i, j \in DOMAIN rows' : rows'[i].seq = rows'[j].seq => i = j
        /\ Visible' = Visible /\ Ordered' = Ordered
    BY <1>2, <1>3 DEF WatchInv, Numbered, Visible, Ordered
  <2>2. q \notin Visible
    BY <1>2 DEF Visible
  <2>3. \A e \in Drivers : /\ run[e].seq \in 0..numbers /\ run[e].seq # q
                           /\ run'[e].seq = IF e = d THEN q ELSE run[e].seq
    <3>1. \A e \in Drivers : run[e].seq \in 0..numbers
      BY DEF WatchInv, Numbered
    <3>2. \A e \in Drivers : run'[e].seq = IF e = d THEN q ELSE run[e].seq
      BY <1>4, <1>5
    <3> QED BY <1>2, <3>1, <3>2
  <2>4. \A e \in Drivers : /\ DOMAIN run'[e] = Fields /\ run'[e].seq \in 0..numbers'
                           /\ run'[e].pc = "idle" => run'[e] = Idle
                           /\ run'[e].seq # 0 => run'[e].seq \notin Visible'
    <3>1. TAKE e \in Drivers
    <3>2. CASE e = d
      BY <1>2, <1>3, <1>5, <1>6, <2>1, <2>2, <3>2
    <3>3. CASE e # d
      BY <1>2, <1>3, <1>4, <2>1, <3>3 DEF WatchInv, Numbered
    <3> QED BY <3>2, <3>3
  <2>5. \A e, g \in Drivers : run'[e].seq = run'[g].seq /\ run'[e].seq # 0 => e = g
    BY <2>3 DEF WatchInv, Numbered
  <2>6. deploy'.store = "sqlite" =>
          /\ Ordered'
          /\ \A e \in Drivers : run'[e].seq # 0 =>
               /\ \A g \in Drivers \ {e} : run'[g].seq = 0
               /\ \A i \in DOMAIN rows' : rows'[i].seq < run'[e].seq
    BY <1>3, <2>1, <2>3 DEF WatchInv, Numbered
  <2> QED BY <1>4, <2>1, <2>4, <2>5, <2>6 DEF Numbered
<1> QED BY <1>3, <1>7, UnseenKeepsWatching DEF WatchInv

-----------------------------------------------------------------------------
(* The steps that show a row. *)

\* A row with number q comes to be shown.
Shows(q) ==
  /\ \E r : rows' = Append(rows, [seq |-> q, rec |-> r])
  /\ q \notin Visible /\ numbers' \in Nat /\ numbers' >= numbers /\ q \in 1..numbers'
  /\ deploy.store = "sqlite" => \A i \in DOMAIN rows : rows[i].seq < q
  /\ UNCHANGED <<deploy, watcher>>

LEMMA ShownFacts ==
  ASSUME WatchInv, NEW q, Shows(q)
  PROVE  /\ \E S : rows' \in Seq(S)
         /\ Len(rows') = Len(rows) + 1 /\ DOMAIN rows' = 1..(Len(rows) + 1)
         /\ \A i \in DOMAIN rows : i \in DOMAIN rows' /\ rows'[i] = rows[i]
         /\ rows'[Len(rows) + 1].seq = q
         /\ \A i \in DOMAIN rows' : i \in DOMAIN rows \/ i = Len(rows) + 1
         /\ Visible' = Visible \cup {q}
<1>1. Numbered
  BY DEF WatchInv
<1>2. PICK S : rows \in Seq(S)
  BY <1>1 DEF Numbered
<1>3. PICK r : rows' = Append(rows, [seq |-> q, rec |-> r])
  BY DEF Shows
<1>4. PICK new : new = [seq |-> q, rec |-> r]
  OBVIOUS
<1>5. rows \in Seq(S \cup {new}) /\ rows' = Append(rows, new) /\ new.seq = q
  BY <1>2, <1>3, <1>4
<1>6. /\ rows' \in Seq(S \cup {new})
      /\ Len(rows') = Len(rows) + 1 /\ DOMAIN rows' = 1..(Len(rows) + 1)
      /\ \A i \in DOMAIN rows : i \in DOMAIN rows' /\ rows'[i] = rows[i]
      /\ rows'[Len(rows) + 1] = new
      /\ \A i \in DOMAIN rows' : i \in DOMAIN rows \/ i = Len(rows) + 1
  BY <1>5
<1>7. Visible' = Visible \cup {q}
  BY <1>5, <1>6 DEF Visible
<1> QED BY <1>5, <1>6, <1>7

LEMMA ShownKeepsRows ==
  ASSUME WatchInv, NEW q, Shows(q)
  PROVE  /\ \A i \in DOMAIN rows' : rows'[i].seq \in 1..numbers'
         /\ \A i, j \in DOMAIN rows' : rows'[i].seq = rows'[j].seq => i = j
         /\ deploy.store = "sqlite" => Ordered'
<1>1. /\ Len(rows) \in Nat /\ DOMAIN rows = 1..Len(rows)
      /\ \A i \in DOMAIN rows : rows[i].seq \in Nat
  BY RowsAreIndexed DEF WatchInv
<1>2. /\ \A i \in DOMAIN rows : rows'[i] = rows[i]
      /\ rows'[Len(rows) + 1].seq = q
      /\ \A i \in DOMAIN rows' : i \in DOMAIN rows \/ i = Len(rows) + 1
  BY ShownFacts
<1>3. \A i \in DOMAIN rows' : rows'[i].seq \in 1..numbers'
  BY <1>2 DEF Shows, WatchInv, Numbered
<1>4. \A i \in DOMAIN rows : rows[i].seq # q
  BY DEF Shows, Visible
<1>5. \A i, j \in DOMAIN rows' : rows'[i].seq = rows'[j].seq => i = j
  BY <1>2, <1>4 DEF WatchInv, Numbered
<1>6. ASSUME deploy.store = "sqlite"
      PROVE  Ordered'
  <2>1. /\ \A i \in DOMAIN rows : rows[i].seq < q
        /\ \A i, j \in DOMAIN rows : i < j => rows[i].seq < rows[j].seq
    BY <1>6 DEF Shows, WatchInv, Numbered, Ordered
  <2>2. SUFFICES ASSUME NEW i \in DOMAIN rows', NEW j \in DOMAIN rows', i < j
                 PROVE  rows'[i].seq < rows'[j].seq
    BY DEF Ordered
  <2>3. i \in DOMAIN rows
    BY <1>1, <1>2, <2>2
  <2>4. CASE j \in DOMAIN rows
    BY <1>2, <2>1, <2>2, <2>3, <2>4
  <2>5. CASE j = Len(rows) + 1
    BY <1>2, <2>1, <2>3, <2>5
  <2> QED BY <1>2, <2>4, <2>5
<1> QED BY <1>3, <1>5, <1>6

\* A row that is shown moves no row to an earlier place.
LEMMA ShownKeepsPlaces ==
  ASSUME WatchInv, NEW q, Shows(q), NEW i \in DOMAIN rows
  PROVE  Where(i)' >= Where(i) /\ Where(i) \in Nat /\ Where(i)' \in Nat
<1>1. /\ Len(rows) \in Nat /\ DOMAIN rows = 1..Len(rows)
      /\ Where(i) \in 1..Len(rows)
  BY RowsAreIndexed, QueriedFacts DEF WatchInv
<1>3. CASE deploy.store # "postgres"
  BY <1>1, <1>3 DEF Where, Shows
<1>4. CASE deploy.store = "postgres"
  <2> DEFINE S == {j \in DOMAIN rows : rows[j].seq <= rows[i].seq}
             T == {j \in DOMAIN rows' : rows'[j].seq <= rows'[i].seq}
  <2>1. S \in SUBSET T /\ T \in SUBSET (1..(Len(rows) + 1))
    <3>1. /\ DOMAIN rows' = 1..(Len(rows) + 1)
          /\ \A j \in DOMAIN rows : j \in DOMAIN rows' /\ rows'[j] = rows[j]
      BY ShownFacts
    <3> QED BY <3>1
  <2>2. Place(i) = Cardinality(S) /\ Place(i)' = Cardinality(T)
    BY DEF Place
  <2> HIDE DEF S, T
  <2>3. IsFiniteSet(T)
    <3>1. IsFiniteSet(1..(Len(rows) + 1))
      BY <1>1, FS_Interval
    <3> QED BY <2>1, <3>1, FS_Subset
  <2>4. Cardinality(S) <= Cardinality(T) /\ Cardinality(T) \in Nat
    BY <2>1, <2>3, FS_Subset, FS_CardinalityType
  <2>5. Where(i) = Place(i) /\ Where(i)' = Place(i)'
    BY <1>4 DEF Where, Shows
  <2> QED BY <1>1, <2>2, <2>4, <2>5
<1> QED BY <1>3, <1>4

LEMMA ShownKeepsWatching ==
  ASSUME WatchInv, NEW q, Shows(q)
  PROVE  /\ Watching'
         /\ deploy'.observer = "stream" => StreamInv'
         /\ deploy'.observer = "pager" => PagerInv'
<1>1. /\ Len(rows) \in Nat /\ DOMAIN rows = 1..Len(rows)
      /\ Len(rows') = Len(rows) + 1 /\ Visible' = Visible \cup {q}
      /\ \A i \in DOMAIN rows : rows'[i] = rows[i]
      /\ rows'[Len(rows) + 1].seq = q
      /\ \A i \in DOMAIN rows' : i \in DOMAIN rows \/ i = Len(rows) + 1
  BY RowsAreIndexed, ShownFacts DEF WatchInv
<1>2. UNCHANGED <<deploy, watcher>> /\ q \notin Visible
  BY DEF Shows
<1>3. Watching'
  BY <1>1, <1>2 DEF WatchInv, Watching
<1>4. ASSUME deploy.observer = "stream"
      PROVE  StreamInv'
  <2>1. StreamInv
    BY <1>4 DEF WatchInv
  <2>2. ASSUME deploy.store # "postgres"
        PROVE  \E n \in 0..Len(rows') :
                 /\ \A i \in 1..n : rows'[i].seq \in watcher.sent
                 /\ watcher.last = IF n = 0 THEN 0 ELSE rows'[n].seq
    <3>1. PICK n \in 0..Len(rows) : /\ \A i \in 1..n : rows[i].seq \in watcher.sent
                                    /\ watcher.last = IF n = 0 THEN 0 ELSE rows[n].seq
      BY <2>1, <2>2 DEF StreamInv
    <3>2. n \in 0..Len(rows') /\ \A i \in 1..n : rows'[i] = rows[i]
      BY <1>1
    <3> QED BY <3>1, <3>2
  <2> QED BY <1>2, <2>1, <2>2 DEF StreamInv
<1>5. ASSUME deploy.observer = "pager"
      PROVE  PagerInv'
  <2>1. PagerInv /\ watcher.start \subseteq Visible /\ watcher.offset \in Nat
    BY <1>5 DEF WatchInv, Watching
  <2>2. ASSUME NEW i \in DOMAIN rows', rows'[i].seq \in watcher.start
        PROVE  rows'[i].seq \in watcher.sent \/ watcher.offset < Where(i)'
    <3>1. i \in DOMAIN rows /\ rows'[i] = rows[i]
      BY <1>1, <1>2, <2>1, <2>2
    <3>2. rows[i].seq \in watcher.sent \/ watcher.offset < Where(i)
      BY <2>1, <2>2, <3>1 DEF PagerInv
    <3>3. Where(i)' >= Where(i) /\ Where(i) \in Nat /\ Where(i)' \in Nat
      BY <3>1, ShownKeepsPlaces
    <3> QED BY <2>1, <3>1, <3>2, <3>3
  <2> QED BY <1>2, <2>1, <2>2 DEF PagerInv
<1> QED BY <1>2, <1>3, <1>4, <1>5

LEMMA PushKeeps ==
  ASSUME WatchInv, NEW d \in Drivers, Push(d)
  PROVE  WatchInv'
<1>1. PICK q : q = run[d].seq
  OBVIOUS
<1>2. Shows(q)
  <2>1. \E r : rows' = Append(rows, [seq |-> q, rec |-> r])
    BY <1>1 DEF Push
  <2>2. /\ q \notin Visible /\ numbers' \in Nat /\ numbers' >= numbers /\ q \in 1..numbers'
        /\ UNCHANGED <<deploy, watcher>>
    BY <1>1 DEF Push, WatchInv, Numbered
  <2>3. deploy.store = "sqlite" => \A i \in DOMAIN rows : rows[i].seq < q
    BY <1>1 DEF Push, WatchInv, Numbered
  <2> QED BY <2>1, <2>2, <2>3 DEF Shows
<1>3. PICK f : f = [run[d] EXCEPT !.ctx = Kept(run[d]), !.todo = Tail(run[d].todo), !.seq = 0]
  OBVIOUS
<1>4. /\ DOMAIN run = Drivers /\ DOMAIN run[d] = Fields /\ q # 0
      /\ run[d].pc # "idle"
  <2>1. Idle.seq = 0 /\ run[d].seq # 0
    BY DEF Push, Idle
  <2> QED BY <1>1, <2>1 DEF WatchInv, Numbered
<1>5. DOMAIN f = Fields /\ f.seq = 0 /\ f.pc = run[d].pc
  BY <1>3, <1>4 DEF Fields
<1>6. /\ DOMAIN run' = Drivers /\ run'[d] = f /\ \A e \in Drivers \ {d} : run'[e] = run[e]
  <2>1. run' = [run EXCEPT ![d] = f]
    BY <1>3, Zenon DEF Push
  <2> QED BY <1>4, <2>1
<1>7. Numbered'
  <2>1. \A e \in Drivers : /\ DOMAIN run'[e] = Fields /\ run'[e].seq \in 0..numbers'
                           /\ run'[e].pc = "idle" => run'[e] = Idle
                           /\ run'[e].seq # 0 => run'[e].seq \notin Visible'
    <3>1. TAKE e \in Drivers
    <3>2. CASE e = d
      BY <1>2, <1>4, <1>5, <1>6, <3>2 DEF Shows
    <3>3. CASE e # d
      <4>1. /\ run'[e] = run[e] /\ Visible' = Visible \cup {q}
        BY <1>2, <1>6, <3>3, ShownFacts
      <4>2. run[e].seq # 0 => run[e].seq # q
        BY <1>1, <3>3 DEF WatchInv, Numbered
      <4> QED BY <1>2, <4>1, <4>2 DEF WatchInv, Numbered, Shows
    <3> QED BY <3>2, <3>3
  <2>2. \A e \in Drivers : run'[e].seq # 0 => e # d /\ run'[e] = run[e]
    BY <1>5, <1>6
  <2>3. \A e, g \in Drivers : run'[e].seq = run'[g].seq /\ run'[e].seq # 0 => e = g
    BY <2>2 DEF WatchInv, Numbered
  <2>4. ASSUME deploy.store = "sqlite"
        PROVE  \A e \in Drivers : run'[e].seq = 0
    BY <1>1, <1>4, <1>5, <1>6, <2>4 DEF WatchInv, Numbered
  <2> QED BY <1>2, <1>6, <2>1, <2>3, <2>4, ShownFacts, ShownKeepsRows
          DEF Numbered, WatchInv, Shows
<1> QED BY <1>2, <1>7, ShownKeepsWatching DEF WatchInv

LEMMA ReportKeeps ==
  ASSUME WatchInv, Report
  PROVE  WatchInv'
<1>1. PICK q : q = numbers + 1
  OBVIOUS
<1>2. /\ \A i \in DOMAIN rows : rows[i].seq \in 1..numbers
      /\ numbers \in Nat /\ q \in Nat /\ q > numbers
  BY <1>1 DEF WatchInv, Numbered
<1>3. Shows(q)
  <2>1. \E r : rows' = Append(rows, [seq |-> q, rec |-> r])
    BY <1>1 DEF Report
  <2>2. numbers' = q /\ UNCHANGED <<deploy, watcher>>
    BY <1>1 DEF Report
  <2>3. \A i \in DOMAIN rows : rows[i].seq < q
    BY <1>2
  <2>4. q \notin Visible
    BY <1>2, <2>3 DEF Visible
  <2>5. numbers' \in Nat /\ numbers' >= numbers /\ q \in 1..numbers'
    BY <1>2, <2>2
  <2> QED BY <2>1, <2>2, <2>3, <2>4, <2>5 DEF Shows
<1>4. \A d \in Drivers : run[d].pc = "idle"
  BY DEF Report, Busy
<1>5. \A d \in Drivers : run[d] = Idle
  BY <1>4 DEF WatchInv, Numbered
<1>6. run' = run /\ Idle.seq = 0
  BY DEF Report, Idle
<1>7. Numbered'
  <2>1. \A d \in Drivers : run'[d] = Idle /\ run'[d].seq = 0
    BY <1>5, <1>6
  <2>2. /\ \E S : rows' \in Seq(S)
        /\ \A i \in DOMAIN rows' : rows'[i].seq \in 1..numbers'
        /\ \A i, j \in DOMAIN rows' : rows'[i].seq = rows'[j].seq => i = j
        /\ deploy.store = "sqlite" => Ordered'
    BY <1>3, ShownFacts, ShownKeepsRows
  <2>3. deploy' = deploy /\ numbers' \in Nat /\ DOMAIN Idle = Fields
    BY <1>3 DEF Shows, Idle, Fields
  <2> QED BY <1>2, <1>6, <2>1, <2>2, <2>3 DEF Numbered, WatchInv
<1> QED BY <1>3, <1>7, ShownKeepsWatching DEF WatchInv

-----------------------------------------------------------------------------
(* The steps of the clients. *)

\* The last number is that of the row a query returns last.
LEMMA LastFacts ==
  ASSUME Numbered
  PROVE  \/ rows = << >> /\ LastSequenceNo = 0
         \/ \E i \in DOMAIN rows : LastSequenceNo = rows[i].seq /\ Where(i) = Len(rows)
<1>1. CASE rows = << >>
  BY <1>1 DEF LastSequenceNo
<1>2. CASE rows # << >>
  <2>1. Len(rows) \in 1..Len(rows)
    BY <1>2, RowsAreIndexed
  <2>2. PICK i \in DOMAIN rows : Where(i) = Len(rows) /\ Queried[Len(rows)] = rows[i]
    BY <2>1, QueriedFacts
  <2>3. Last(Queried) = Queried[Len(rows)]
    BY QueriedFacts DEF Last
  <2> QED BY <1>2, <2>2, <2>3 DEF LastSequenceNo
<1> QED BY <1>1, <1>2

LEMMA PollKeeps ==
  ASSUME WatchInv, Poll
  PROVE  WatchInv'
<1>1. /\ UNCHANGED <<deploy, rows, numbers, run>> /\ deploy.observer = "stream"
      /\ watcher' = [watcher EXCEPT !.last = LastSequenceNo, !.sent = Visible]
  BY DEF Poll
<1>2. Numbered' /\ Visible' = Visible
  BY <1>1 DEF WatchInv, Numbered, Visible, Ordered
<1>3. /\ Len(rows) \in Nat /\ DOMAIN rows = 1..Len(rows)
      /\ \A i \in DOMAIN rows : rows[i].seq \in Nat \ {0} /\ rows[i].seq \in Visible
      /\ rows = << >> <=> Len(rows) = 0
  BY RowsAreIndexed DEF WatchInv, Visible
<1>4. \/ rows = << >> /\ LastSequenceNo = 0
      \/ \E i \in DOMAIN rows : LastSequenceNo = rows[i].seq /\ Where(i) = Len(rows)
  BY LastFacts DEF WatchInv
<1>5. LastSequenceNo \in Nat /\ Visible \in SUBSET Nat
  BY <1>3, <1>4 DEF Visible
<1>6. Watching' /\ watcher'.last = LastSequenceNo /\ watcher'.sent = Visible
  BY <1>1, <1>2, <1>5 DEF WatchInv, Watching
<1>7. StreamInv'
  <2>1. CASE deploy.store = "postgres"
    BY <1>1, <1>3, <1>4, <1>6, <2>1 DEF StreamInv
  <2>2. CASE deploy.store # "postgres"
    <3>1. LastSequenceNo = IF Len(rows) = 0 THEN 0 ELSE rows[Len(rows)].seq
      BY <1>3, <1>4, <2>2 DEF Where
    <3>2. Len(rows) \in 0..Len(rows) /\ \A i \in 1..Len(rows) : rows[i].seq \in Visible
      BY <1>3
    <3> QED BY <1>1, <1>6, <2>2, <3>1, <3>2 DEF StreamInv
  <2> QED BY <2>1, <2>2
<1> QED BY <1>1, <1>2, <1>6, <1>7 DEF WatchInv

\* A page has the rows at the places behind the offset, and is followed by another
\* unless all are got.
LEMMA PageFacts ==
  ASSUME WatchInv, NEW offset \in Nat
  PROVE  /\ Page(offset).got \subseteq Visible /\ Page(offset).next \in Nat
         /\ \A i \in DOMAIN rows :
              offset < Where(i) => \/ rows[i].seq \in Page(offset).got
                                   \/ Page(offset).next # 0 /\ Page(offset).next < Where(i)
<1> DEFINE at == {i \in DOMAIN rows : offset < i /\ i <= offset + PageLimit}
           more == IF deploy.store = "memory" THEN offset + Cardinality(at) < Len(rows)
                   ELSE Cardinality(at) = PageLimit
<1>0. PageLimit \in Nat \ {0}
  BY BoundsAssumption
<1>1. /\ Len(rows) \in Nat /\ DOMAIN rows = 1..Len(rows)
      /\ \A i \in DOMAIN rows : Where(i) \in 1..Len(rows) /\ Queried[Where(i)] = rows[i]
      /\ \A k \in 1..Len(rows) : \E i \in DOMAIN rows : Where(i) = k
  BY RowsAreIndexed, QueriedFacts DEF WatchInv
<1>2. /\ Page(offset).got = {Queried[i].seq : i \in at}
      /\ Page(offset).next = IF more THEN offset + Cardinality(at) ELSE 0
  BY DEF Page
<1> PICK len \in Nat, limit \in Nat : len = Len(rows) /\ limit = PageLimit /\ limit # 0
  BY <1>0, <1>1
<1>3. PICK hi \in Nat : /\ hi <= len /\ hi <= offset + limit
                        /\ hi = len \/ hi = offset + limit
  <2>1. CASE len <= offset + limit
    BY <2>1
  <2>2. CASE ~(len <= offset + limit)
    <3>1. offset + limit \in Nat /\ offset + limit <= len
      BY <2>2
    <3> QED BY <3>1
  <2> QED BY <2>1, <2>2
<1>4. DOMAIN rows = 1..len /\ at = {i \in 1..len : offset < i /\ i <= offset + limit}
  BY <1>1
<1> HIDE DEF at
<1>5. at = (offset + 1)..hi
  <2>1. \A i : i \in (offset + 1)..hi <=> i \in 1..len /\ offset < i /\ i <= offset + limit
    BY <1>3
  <2> QED BY <1>4, <2>1
<1>6. Cardinality(at) = IF offset + 1 > hi THEN 0 ELSE hi - offset
  <2>1. Cardinality((offset + 1)..hi) = IF offset + 1 > hi THEN 0 ELSE hi - (offset + 1) + 1
    BY <1>3, FS_Interval
  <2> QED BY <1>3, <1>5, <2>1
<1>7. Page(offset).got \subseteq Visible
  <2>1. \A k \in at : \E i \in DOMAIN rows : Queried[k] = rows[i]
    BY <1>1, <1>4
  <2> QED BY <1>2, <2>1 DEF Visible
<1>8. Page(offset).next \in Nat
  BY <1>2, <1>3, <1>6
<1>9. ASSUME NEW i \in DOMAIN rows, offset < Where(i)
      PROVE  \/ rows[i].seq \in Page(offset).got
             \/ Page(offset).next # 0 /\ Page(offset).next < Where(i)
  <2>1. PICK k \in 1..len : k = Where(i) /\ Queried[k] = rows[i]
    BY <1>1
  <2>2. CASE k \in at
    BY <1>2, <2>1, <2>2
  <2>3. CASE k \notin at
    <3>1. offset < k /\ offset + limit < k /\ k <= len
      BY <1>4, <1>9, <2>1, <2>3
    <3>2. hi = offset + limit
      BY <1>3, <3>1
    <3>3. Cardinality(at) = limit
      BY <1>6, <3>2
    <3>4. more
      BY <3>1, <3>3
    <3>5. Page(offset).next = offset + limit
      BY <1>2, <3>3, <3>4
    <3> QED BY <2>1, <3>1, <3>5
  <2> QED BY <2>2, <2>3
<1> QED BY <1>7, <1>8, <1>9

LEMMA ReadPageKeeps ==
  ASSUME WatchInv, ReadPage
  PROVE  WatchInv'
<1>1. PICK page : page = Page(watcher.offset)
  OBVIOUS
<1>2. /\ UNCHANGED <<deploy, rows, numbers, run>> /\ deploy.observer = "pager" /\ ~watcher.done
      /\ watcher' = [watcher EXCEPT !.sent = @ \cup page.got, !.offset = page.next,
                                     !.start = IF watcher.offset = 0 THEN Visible ELSE @,
                                     !.done = page.next = 0]
  BY <1>1 DEF ReadPage
<1>3. Numbered' /\ Visible' = Visible /\ \A i : Where(i)' = Where(i)
  BY <1>2 DEF WatchInv, Numbered, Visible, Ordered, Where, Place
<1>4. /\ Visible \in SUBSET Nat /\ \A i \in DOMAIN rows : rows[i].seq \in Visible
      /\ \A q \in Visible : \E i \in DOMAIN rows : rows[i].seq = q
  BY RowsAreIndexed DEF WatchInv, Visible
<1>5. /\ page.got \subseteq Visible /\ page.next \in Nat
      /\ \A i \in DOMAIN rows :
           watcher.offset < Where(i) => \/ rows[i].seq \in page.got
                                        \/ page.next # 0 /\ page.next < Where(i)
  BY <1>1, PageFacts DEF WatchInv, Watching
<1>6. /\ watcher'.sent = watcher.sent \cup page.got /\ watcher'.offset = page.next
      /\ watcher'.start = IF watcher.offset = 0 THEN Visible ELSE watcher.start
      /\ watcher'.done = (page.next = 0)
  BY <1>2 DEF WatchInv, Watching
<1>7. Watching'
  BY <1>2, <1>3, <1>4, <1>5, <1>6 DEF WatchInv, Watching
<1>8. \A i \in DOMAIN rows : Where(i) \in Nat /\ Where(i) > 0
  <2>1. Len(rows) \in Nat /\ \A i \in DOMAIN rows : Where(i) \in 1..Len(rows)
    BY QueriedFacts, RowsAreIndexed DEF WatchInv
  <2> QED BY <2>1
<1>9. ASSUME NEW i \in DOMAIN rows, rows[i].seq \in watcher'.start
      PROVE  rows[i].seq \in watcher'.sent \/ (page.next # 0 /\ page.next < Where(i))
  <2>1. rows[i].seq \in watcher.sent \/ watcher.offset < Where(i)
    BY <1>2, <1>6, <1>8, <1>9 DEF WatchInv, PagerInv
  <2> QED BY <1>5, <1>6, <2>1
<1>10. watcher'.done => watcher'.start \subseteq watcher'.sent
  <2>1. \A q \in watcher'.start : \E i \in DOMAIN rows : rows[i].seq = q
    BY <1>3, <1>4, <1>7 DEF Watching
  <2>2. watcher'.done => page.next = 0
    BY <1>6
  <2> QED BY <1>9, <2>1, <2>2
<1>11. PagerInv'
  <2>1. \A i \in DOMAIN rows : rows[i].seq \in watcher'.start =>
          rows[i].seq \in watcher'.sent \/ watcher'.offset < Where(i)
    BY <1>6, <1>9
  <2> QED BY <1>2, <1>3, <1>10, <2>1 DEF PagerInv
<1> QED BY <1>2, <1>3, <1>7, <1>11 DEF WatchInv

-----------------------------------------------------------------------------
(* The other steps of an advance. *)

Unseen == UNCHANGED <<deploy, rows, numbers, watcher>>

LEMMA DropGoes ==
  ASSUME Numbered, NEW d \in Drivers, Drop(d)
  PROVE  Unseen /\ Goes(d, Idle)
BY DEF Drop, Unseen, Goes, Idle, Fields

LEMMA AppendFailsGoes ==
  ASSUME Numbered, NEW d \in Drivers, AppendFails(d)
  PROVE  Unseen /\ \E f : Goes(d, f)
<1>1. Unseen /\ DOMAIN run[d] = Fields /\ run[d].pc # "idle"
  <2>1. Idle.todo = << >> /\ run[d].todo # << >>
    BY DEF AppendFails, Idle
  <2> QED BY <2>1 DEF AppendFails, Unseen, Numbered
<1>2. Idle.seq = 0 /\ DOMAIN Idle = Fields
  BY DEF Idle, Fields
<1>3. CASE Head(run[d].todo).soft
  <2>1. PICK f : f = [run[d] EXCEPT !.ctx = Kept(run[d]), !.todo = Tail(run[d].todo)]
    OBVIOUS
  <2>2. run' = [run EXCEPT ![d] = f]
    BY <1>3, <2>1 DEF AppendFails
  <2>3. DOMAIN f = Fields /\ f.seq = run[d].seq /\ f.pc = run[d].pc
    BY <1>1, <2>1 DEF Fields
  <2> QED BY <1>1, <2>2, <2>3 DEF Goes
<1>4. CASE ~Head(run[d].todo).soft
  BY <1>1, <1>2, <1>4 DEF AppendFails, Goes
<1> QED BY <1>3, <1>4

LEMMA DeliverGoes ==
  ASSUME Numbered, NEW d \in Drivers, Deliver(d)
  PROVE  Unseen /\ \E f : Goes(d, f)
<1>1. PICK f, kind, ref :
        /\ f = [Idle EXCEPT !.pc = "read", !.by = triggers + 1, !.kind = kind, !.ref = ref,
                            !.todo = <<Aside(Rec("trigger", triggers + 1, ref, kind))>>]
        /\ run' = [run EXCEPT ![d] = f]
  BY Zenon DEF Deliver
<1>2. DOMAIN f = Fields /\ f.seq = 0 /\ f.pc = "read"
  BY <1>1 DEF Idle, Fields
<1> QED BY <1>1, <1>2 DEF Deliver, Unseen, Goes

LEMMA ReadGoes ==
  ASSUME Numbered, NEW d \in Drivers, Read(d)
  PROVE  Unseen /\ \E f : Goes(d, f)
<1>1. DOMAIN run[d] = Fields
  BY DEF Numbered
<1>2. Idle.seq = 0 /\ DOMAIN Idle = Fields
  BY DEF Idle, Fields
<1>3. \/ run' = [run EXCEPT ![d] = Idle]
      \/ \E f, s, todo : /\ f = [run[d] EXCEPT !.ctx = s, !.pc = "refresh", !.todo = todo]
                          /\ run' = [run EXCEPT ![d] = f]
  BY Zenon DEF Read
<1>4. ASSUME NEW f, NEW s, NEW todo,
             f = [run[d] EXCEPT !.ctx = s, !.pc = "refresh", !.todo = todo]
      PROVE  DOMAIN f = Fields /\ f.seq = run[d].seq /\ f.pc = "refresh"
  BY <1>1, <1>4 DEF Fields
<1>5. Unseen
  BY DEF Read, Unseen
<1>6. \E f : Goes(d, f)
  <2>1. CASE run' = [run EXCEPT ![d] = Idle]
    BY <1>2, <2>1 DEF Goes
  <2>2. ASSUME NEW f, NEW s, NEW todo, run' = [run EXCEPT ![d] = f],
               f = [run[d] EXCEPT !.ctx = s, !.pc = "refresh", !.todo = todo]
        PROVE  Goes(d, f)
    <3>1. DOMAIN f = Fields /\ f.seq = run[d].seq /\ f.pc = "refresh"
      BY <1>4, <2>2
    <3> QED BY <2>2, <3>1 DEF Goes
  <2> QED BY <1>3, <2>1, <2>2
<1> QED BY <1>5, <1>6

LEMMA CacheGoes ==
  ASSUME Numbered, NEW d \in Drivers, Cache(d)
  PROVE  Unseen /\ Goes(d, Idle)
BY DEF Cache, Unseen, Goes, Idle, Fields

LEMMA PlannedFacts ==
  ASSUME NEW r, DOMAIN r = Fields, NEW s, NEW f \in Planned(r, s)
  PROVE  DOMAIN f = Fields /\ f.seq = r.seq /\ f.pc # "idle"
<1>1. \/ f = Observing(r, s)
      \/ f = [r EXCEPT !.ctx = s, !.pc = "summary",
                       !.todo = <<Do(Rec("summary", r.by, 0, ""), TRUE, FALSE)>>]
  BY DEF Planned
<1> QED BY <1>1 DEF Observing, Fields

LEMMA RefreshGoes ==
  ASSUME Numbered, NEW d \in Drivers, Refresh(d)
  PROVE  Unseen /\ \E f : Goes(d, f)
<1>1. DOMAIN run[d] = Fields
  BY DEF Numbered
<1>2. \/ \E s : \E f \in Planned(run[d], s) : run' = [run EXCEPT ![d] = f]
      \/ \E f, s, todo : /\ f = [run[d] EXCEPT !.ctx = s, !.pc = "replan", !.todo = todo]
                         /\ run' = [run EXCEPT ![d] = f]
  BY Zenon DEF Refresh, LoadOr
<1>3. ASSUME NEW f, NEW s, NEW todo,
             f = [run[d] EXCEPT !.ctx = s, !.pc = "replan", !.todo = todo]
      PROVE  DOMAIN f = Fields /\ f.seq = run[d].seq /\ f.pc = "replan"
  BY <1>1, <1>3 DEF Fields
<1>4. Unseen
  BY DEF Refresh, Unseen
<1>5. ASSUME NEW s, NEW f \in Planned(run[d], s), run' = [run EXCEPT ![d] = f]
      PROVE  Goes(d, f)
  BY <1>1, <1>5, PlannedFacts DEF Goes
<1>6. ASSUME NEW f, NEW s, NEW todo, run' = [run EXCEPT ![d] = f],
             f = [run[d] EXCEPT !.ctx = s, !.pc = "replan", !.todo = todo]
      PROVE  Goes(d, f)
  BY <1>3, <1>6 DEF Goes
<1> QED BY <1>2, <1>4, <1>5, <1>6

LEMMA ReloadGoes ==
  ASSUME Numbered, NEW d \in Drivers, Reload(d)
  PROVE  Unseen /\ \E f : Goes(d, f)
<1>1. DOMAIN run[d] = Fields
  BY DEF Numbered
<1>2. \E s : \E f \in Planned(run[d], s) \cup {Observing(run[d], s)} :
        run' = [run EXCEPT ![d] = f]
  BY DEF Reload, LoadOr
<1>3. ASSUME NEW s, NEW f, f = Observing(run[d], s)
      PROVE  f \in Planned(run[d], s)
  BY <1>3 DEF Planned
<1>4. Unseen
  BY DEF Reload, Unseen
<1>5. PICK s : \E f \in Planned(run[d], s) : run' = [run EXCEPT ![d] = f]
  BY <1>2, <1>3
<1>6. PICK f \in Planned(run[d], s) : run' = [run EXCEPT ![d] = f]
  BY <1>5
<1> QED BY <1>1, <1>4, <1>6, PlannedFacts DEF Goes

\* An advance that goes on with something else to append.
LEMMA AppendingGoes ==
  ASSUME Numbered, NEW d \in Drivers, NEW f, NEW pc, pc # "idle", NEW todo,
         \/ f = [run[d] EXCEPT !.pc = pc, !.todo = todo]
         \/ \E n : f = [run[d] EXCEPT !.pc = pc, !.n = n, !.todo = todo]
         \/ \E t, s, n : f = [run[d] EXCEPT !.pc = pc, !.by = t, !.ctx = s, !.todo = todo, !.n = n],
         run' = [run EXCEPT ![d] = f]
  PROVE  Goes(d, f)
<1>1. DOMAIN run[d] = Fields
  BY DEF Numbered
<1>2. DOMAIN f = Fields /\ f.seq = run[d].seq /\ f.pc = pc
  BY <1>1 DEF Fields
<1> QED BY <1>2 DEF Goes

LEMMA ResolveGoes ==
  ASSUME Numbered, NEW d \in Drivers, Resolve(d)
  PROVE  Unseen /\ \E f : Goes(d, f)
<1>1. \E f, n, todo : /\ \/ f = [run[d] EXCEPT !.pc = "step", !.n = n, !.todo = todo]
                         \/ f = [run[d] EXCEPT !.pc = "cache", !.todo = todo]
                      /\ run' = [run EXCEPT ![d] = f]
  BY Zenon DEF Resolve
<1>2. Unseen
  BY DEF Resolve, Unseen
<1> QED BY <1>1, <1>2, AppendingGoes

LEMMA StepGoes ==
  ASSUME Numbered, NEW d \in Drivers, Step(d)
  PROVE  Unseen /\ \E f : Goes(d, f)
<1>0. Unseen
  BY DEF Step, Unseen
<1>1. ASSUME NEW pc, NEW todo, pc # "idle",
             run' = [run EXCEPT ![d] = [run[d] EXCEPT !.pc = pc, !.todo = todo]]
      PROVE  \E f : Goes(d, f)
  <2>1. PICK f : f = [run[d] EXCEPT !.pc = pc, !.todo = todo]
    OBVIOUS
  <2> QED BY <1>1, <2>1, AppendingGoes
<1>2. ASSUME NEW act, NEW todo,
             run' = [run EXCEPT ![d] = [run[d] EXCEPT
                       !.pc = IF Ends(act) THEN "cache" ELSE "between", !.todo = todo]]
      PROVE  \E f : Goes(d, f)
  <2>1. PICK pc : pc = IF Ends(act) THEN "cache" ELSE "between"
    OBVIOUS
  <2>2. run' = [run EXCEPT ![d] = [run[d] EXCEPT !.pc = pc, !.todo = todo]]
    BY <1>2, <2>1
  <2>3. pc # "idle"
    BY <2>1
  <2> QED BY <1>1, <2>2, <2>3
<1>3. CASE \E p : FollowPlan(d, p)
  <2>1. \E act, todo : run' = [run EXCEPT ![d] = [run[d] EXCEPT
                         !.pc = IF Ends(act) THEN "cache" ELSE "between", !.todo = todo]]
    BY <1>3, Zenon DEF FollowPlan
  <2>2. PICK act, todo : run' = [run EXCEPT ![d] = [run[d] EXCEPT
                           !.pc = IF Ends(act) THEN "cache" ELSE "between", !.todo = todo]]
    BY <2>1, Zenon
  <2> QED BY <1>0, <1>2, <2>2, Zenon
<1>4. CASE AskProvider(d)
  <2>1. \E act, todo : run' = [run EXCEPT ![d] = [run[d] EXCEPT
                         !.pc = IF Ends(act) THEN "cache" ELSE "between", !.todo = todo]]
    BY <1>4, Zenon DEF AskProvider
  <2>2. PICK act, todo : run' = [run EXCEPT ![d] = [run[d] EXCEPT
                           !.pc = IF Ends(act) THEN "cache" ELSE "between", !.todo = todo]]
    BY <2>1, Zenon
  <2> QED BY <1>0, <1>2, <2>2, Zenon
<1>5. CASE run' = [run EXCEPT ![d] = [run[d] EXCEPT
                     !.pc = "cache", !.todo = Finish(run[d].by, "MaxSteps", 0)]]
  <2>1. PICK pc, todo : pc = "cache" /\ todo = Finish(run[d].by, "MaxSteps", 0)
    OBVIOUS
  <2>2. run' = [run EXCEPT ![d] = [run[d] EXCEPT !.pc = pc, !.todo = todo]] /\ pc # "idle"
    BY <1>5, <2>1
  <2> QED BY <1>0, <1>1, <2>2, Zenon
<1>6. \/ \E p : FollowPlan(d, p)
      \/ AskProvider(d)
      \/ run' = [run EXCEPT ![d] = [run[d] EXCEPT
                   !.pc = "cache", !.todo = Finish(run[d].by, "MaxSteps", 0)]]
  BY Zenon DEF Step
<1> QED BY <1>3, <1>4, <1>5, <1>6

LEMMA ContinueGoes ==
  ASSUME Numbered, NEW d \in Drivers, Continue(d)
  PROVE  Unseen /\ \E f : Goes(d, f)
<1>1. \/ \E f, t, s, todo, n :
           /\ f = [run[d] EXCEPT !.pc = "step", !.by = t, !.ctx = s, !.todo = todo, !.n = n]
           /\ run' = [run EXCEPT ![d] = f]
      \/ run' = [run EXCEPT ![d] = Idle]
  BY Zenon DEF Continue
<1>2. Unseen
  BY DEF Continue, Unseen
<1>3. run' = [run EXCEPT ![d] = Idle] => Goes(d, Idle)
  BY DEF Goes, Idle, Fields
<1> QED BY <1>1, <1>2, <1>3, AppendingGoes

-----------------------------------------------------------------------------
(* The first theorem. *)

LEMMA InitWatch == Init => WatchInv
<1> SUFFICES ASSUME Init PROVE WatchInv
  OBVIOUS
<1>1. rows = << >> /\ numbers = 0 /\ deploy \in Deployments /\ run = [d \in Drivers |-> Idle]
  BY DEF Init
<1>2. << >> \in Seq({}) /\ Len(<< >>) = 0 /\ DOMAIN << >> = {}
  OBVIOUS
<1>3. Visible = {} /\ Ordered
  BY <1>1, <1>2 DEF Visible, Ordered
<1>4. Numbered
  <2>1. /\ DOMAIN run = Drivers
        /\ \A d \in Drivers : run[d] = Idle
        /\ DOMAIN Idle = Fields /\ Idle.seq = 0
    BY <1>1 DEF Idle, Fields
  <2>2. \A d \in Drivers : /\ DOMAIN run[d] = Fields /\ run[d].seq = 0
                           /\ run[d].seq \in 0..numbers
    BY <1>1, <2>1
  <2>3. \E S : rows \in Seq(S)
    BY <1>1, <1>2
  <2>4. DOMAIN rows = {} /\ numbers \in Nat
    BY <1>1, <1>2
  <2> QED BY <1>1, <1>3, <2>1, <2>2, <2>3, <2>4 DEF Numbered
<1>5. watcher = [last |-> 0, sent |-> {}, offset |-> 0, start |-> {}, done |-> FALSE]
  BY DEF Init
<1>6. Watching /\ PagerInv
  BY <1>1, <1>2, <1>5 DEF Watching, PagerInv
<1>7. StreamInv
  BY <1>1, <1>2, <1>5 DEF StreamInv
<1> QED BY <1>4, <1>6, <1>7 DEF WatchInv

LEMMA NextKeepsWatch == WatchInv /\ [Next]_vars => WatchInv'
<1> SUFFICES ASSUME WatchInv, [Next]_vars PROVE WatchInv'
  OBVIOUS
<1>0. Numbered
  BY DEF WatchInv
<1>1. ASSUME NEW d \in Drivers, Unseen, \E f : Goes(d, f)
      PROVE  WatchInv'
  BY <1>1, GoingKeeps DEF Unseen
<1>2. ASSUME NEW d \in Drivers, Advance(d)
      PROVE  WatchInv'
  <2>1. CASE Number(d)
    BY <2>1, NumberKeeps
  <2>2. CASE Push(d)
    BY <2>2, PushKeeps
  <2>3. CASE AppendFails(d)
    BY <1>0, <1>1, <2>3, AppendFailsGoes
  <2>4. CASE Drop(d)
    BY <1>0, <1>1, <2>4, DropGoes
  <2>5. CASE Deliver(d)
    BY <1>0, <1>1, <2>5, DeliverGoes
  <2>6. CASE Read(d)
    BY <1>0, <1>1, <2>6, ReadGoes
  <2>7. CASE Refresh(d)
    BY <1>0, <1>1, <2>7, RefreshGoes
  <2>8. CASE Reload(d)
    BY <1>0, <1>1, <2>8, ReloadGoes
  <2>9. CASE Resolve(d)
    BY <1>0, <1>1, <2>9, ResolveGoes
  <2>10. CASE Step(d)
    BY <1>0, <1>1, <2>10, StepGoes
  <2>11. CASE Cache(d)
    BY <1>0, <1>1, <2>11, CacheGoes
  <2>12. CASE Continue(d)
    BY <1>0, <1>1, <2>12, ContinueGoes
  <2> QED
    BY <1>2, <2>1, <2>2, <2>3, <2>4, <2>5, <2>6, <2>7, <2>8, <2>9, <2>10, <2>11, <2>12 DEF Advance
<1>3. CASE Report
  BY <1>3, ReportKeeps
<1>4. CASE Poll
  BY <1>4, PollKeeps
<1>5. CASE ReadPage
  BY <1>5, ReadPageKeeps
<1>6. CASE UNCHANGED vars
  <2>1. UNCHANGED <<deploy, rows, numbers, run, watcher>>
    BY <1>6 DEF vars
  <2>2. Numbered'
    BY <2>1 DEF WatchInv, Numbered, Visible, Ordered
  <2> QED BY <2>1, <2>2, UnseenKeepsWatching DEF WatchInv
<1> QED BY <1>2, <1>3, <1>4, <1>5, <1>6 DEF Next

LEMMA WatchInvMeans == WatchInv => ObserversMissOnlyLate
<1> SUFFICES ASSUME WatchInv PROVE ObserversMissOnlyLate
  OBVIOUS
<1>1. /\ Numbered /\ Len(rows) \in Nat /\ DOMAIN rows = 1..Len(rows)
      /\ \A i \in DOMAIN rows : rows[i].seq \in Nat \ {0}
      /\ \A i, j \in DOMAIN rows : rows[i].seq = rows[j].seq => i = j
      /\ rows = << >> <=> Len(rows) = 0
  BY RowsAreIndexed DEF WatchInv, Numbered
<1>2. \/ rows = << >> /\ LastSequenceNo = 0
      \/ \E i \in DOMAIN rows : LastSequenceNo = rows[i].seq /\ Where(i) = Len(rows)
  BY <1>1, LastFacts
<1>3. ASSUME deploy.observer = "stream", watcher.last = LastSequenceNo, NEW i \in DOMAIN rows
      PROVE  \/ rows[i].seq \in watcher.sent
             \/ deploy.store = "postgres" /\ rows[i].seq < watcher.last
  <2>1. PICK j \in DOMAIN rows : watcher.last = rows[j].seq /\ Where(j) = Len(rows)
    BY <1>1, <1>2, <1>3
  <2>2. CASE deploy.store # "postgres"
    <3>1. PICK n \in 0..Len(rows) : /\ \A k \in 1..n : rows[k].seq \in watcher.sent
                                    /\ watcher.last = IF n = 0 THEN 0 ELSE rows[n].seq
      BY <1>3, <2>2 DEF WatchInv, StreamInv
    <3>2. j = Len(rows)
      BY <2>1, <2>2 DEF Where
    <3>3. n # 0
      BY <1>1, <2>1, <3>1
    <3>4. n \in DOMAIN rows /\ rows[n].seq = rows[j].seq
      BY <1>1, <2>1, <3>1, <3>3
    <3>5. n = Len(rows)
      BY <1>1, <3>2, <3>4
    <3> QED BY <1>1, <3>1, <3>5
  <2>3. CASE deploy.store = "postgres"
    <3>1. rows[j].seq \in watcher.sent
      BY <1>1, <1>3, <2>1, <2>3 DEF WatchInv, StreamInv
    <3>2. CASE i = j
      BY <3>1, <3>2
    <3>3. CASE i # j
      <4>1. ~(rows[j].seq < rows[i].seq)
        <5>1. Place(j) = Len(rows) /\ Place(i) \in 1..Len(rows)
          BY <1>1, <2>1, <2>3, PlaceFacts DEF Where
        <5> QED BY <1>1, <5>1, PlaceFacts
      <4>2. rows[i].seq < rows[j].seq
        BY <1>1, <3>3, <4>1
      <4> QED BY <2>1, <2>3, <4>2
    <3> QED BY <3>2, <3>3
  <2> QED BY <2>2, <2>3
<1>4. deploy.observer = "pager" /\ watcher.done => watcher.start \subseteq watcher.sent
  BY DEF WatchInv, PagerInv
<1> QED BY <1>3, <1>4 DEF ObserversMissOnlyLate

\* A stream that has seen the last number has sent every record, from Postgres every
\* one but those with a lower number; a client that has read to the last page got
\* every record that was there when it began.  (runtime lib.rs:2816, store-pg lib.rs:97)
THEOREM LateRecordsAreAllThatIsMissed == Spec => []ObserversMissOnlyLate
<1>1. Spec => []WatchInv
  BY InitWatch, NextKeepsWatch, PTL DEF Spec
<1> QED BY <1>1, WatchInvMeans, PTL

-----------------------------------------------------------------------------
(* Sequences and their elements. *)

Listed(s) == \E S : s \in Seq(S)

LEMMA ListedFacts ==
  ASSUME NEW s, Listed(s)
  PROVE  /\ Len(s) \in Nat /\ DOMAIN s = 1..Len(s)
         /\ \A x : Listed(Append(s, x)) /\ ToSet(Append(s, x)) = ToSet(s) \cup {x}
         /\ s # << >> =>
              Listed(Tail(s)) /\ ToSet(Tail(s)) \subseteq ToSet(s) /\ Head(s) \in ToSet(s)
<1>1. PICK S : s \in Seq(S)
  BY DEF Listed
<1>2. Len(s) \in Nat /\ DOMAIN s = 1..Len(s)
  BY <1>1
<1>3. ASSUME NEW x
      PROVE  Listed(Append(s, x)) /\ ToSet(Append(s, x)) = ToSet(s) \cup {x}
  <2>1. s \in Seq(S \cup {x})
    BY <1>1
  <2>2. Append(s, x) \in Seq(S \cup {x}) /\ Len(Append(s, x)) = Len(s) + 1
        /\ \A i \in 1..Len(s) : Append(s, x)[i] = s[i]
        /\ Append(s, x)[Len(s) + 1] = x
    BY <2>1
  <2>3. DOMAIN Append(s, x) = 1..(Len(s) + 1)
    BY <2>2
  <2> QED BY <1>2, <2>2, <2>3 DEF Listed, ToSet
<1>4. ASSUME s # << >>
      PROVE  Listed(Tail(s)) /\ ToSet(Tail(s)) \subseteq ToSet(s) /\ Head(s) \in ToSet(s)
  <2>1. Tail(s) \in Seq(S) /\ Len(Tail(s)) = Len(s) - 1 /\ Len(s) > 0
        /\ \A i \in 1..(Len(s) - 1) : Tail(s)[i] = s[i + 1]
    BY <1>1, <1>4
  <2>2. \A i \in DOMAIN Tail(s) : i + 1 \in DOMAIN s /\ Tail(s)[i] = s[i + 1]
    BY <1>2, <2>1
  <2>3. Head(s) = s[1] /\ 1 \in DOMAIN s
    BY <1>2, <2>1
  <2> QED BY <2>1, <2>2, <2>3 DEF Listed, ToSet
<1> QED BY <1>2, <1>3, <1>4

LEMMA ConcatFacts ==
  ASSUME NEW s, Listed(s), NEW t, Listed(t)
  PROVE  Listed(s \o t) /\ ToSet(s \o t) = ToSet(s) \cup ToSet(t)
<1>1. PICK S : s \in Seq(S)
  BY DEF Listed
<1>2. PICK T : t \in Seq(T)
  BY DEF Listed
<1>3. PICK U : U = S \cup T
  OBVIOUS
<1>4. s \in Seq(U) /\ t \in Seq(U)
  BY <1>1, <1>2, <1>3
<1>5. /\ s \o t \in Seq(U) /\ Len(s \o t) = Len(s) + Len(t) /\ Len(s) \in Nat /\ Len(t) \in Nat
      /\ DOMAIN s = 1..Len(s) /\ DOMAIN t = 1..Len(t)
      /\ \A i \in 1..Len(s) : (s \o t)[i] = s[i]
      /\ \A i \in 1..Len(t) : (s \o t)[Len(s) + i] = t[i]
  BY <1>4
<1>6. DOMAIN (s \o t) = 1..(Len(s) + Len(t))
  BY <1>5
<1>7. \A i \in DOMAIN (s \o t) :
        i \in DOMAIN s \/ (i - Len(s) \in DOMAIN t /\ i = Len(s) + (i - Len(s)))
  BY <1>5, <1>6
<1>8. ToSet(s \o t) \subseteq ToSet(s) \cup ToSet(t)
  BY <1>5, <1>7 DEF ToSet
<1>9. ToSet(s) \cup ToSet(t) \subseteq ToSet(s \o t)
  <2>1. \A i \in DOMAIN s : i \in DOMAIN (s \o t)
    BY <1>5, <1>6
  <2>2. \A i \in DOMAIN t : Len(s) + i \in DOMAIN (s \o t)
    BY <1>5, <1>6
  <2> QED BY <1>5, <2>1, <2>2 DEF ToSet
<1> QED BY <1>5, <1>8, <1>9 DEF Listed

LEMMA NoneFacts == Listed(<< >>) /\ ToSet(<< >>) = {}
<1>1. << >> \in Seq({}) /\ DOMAIN << >> = {}
  OBVIOUS
<1> QED BY <1>1 DEF Listed, ToSet

LEMMA OneFacts == \A x : Listed(<<x>>) /\ ToSet(<<x>>) = {x}
<1>1. \A x : <<x>> \in Seq({x}) /\ DOMAIN <<x>> = {1} /\ <<x>>[1] = x
  OBVIOUS
<1> QED BY <1>1 DEF Listed, ToSet

LEMMA TwoFacts == \A x, y : Listed(<<x, y>>) /\ ToSet(<<x, y>>) = {x, y}
<1>1. \A x, y : /\ <<x, y>> \in Seq({x, y}) /\ DOMAIN <<x, y>> = {1, 2}
                /\ <<x, y>>[1] = x /\ <<x, y>>[2] = y
  OBVIOUS
<1>2. TAKE x, y
<1>3. ToSet(<<x, y>>) = {<<x, y>>[1], <<x, y>>[2]}
  BY <1>1 DEF ToSet
<1> QED BY <1>1, <1>3 DEF Listed

LEMMA ThreeFacts == \A x, y, z : Listed(<<x, y, z>>) /\ ToSet(<<x, y, z>>) = {x, y, z}
<1>1. \A x, y, z : /\ <<x, y, z>> \in Seq({x, y, z}) /\ DOMAIN <<x, y, z>> = {1, 2, 3}
                   /\ <<x, y, z>>[1] = x /\ <<x, y, z>>[2] = y /\ <<x, y, z>>[3] = z
  OBVIOUS
<1>2. TAKE x, y, z
<1>3. ToSet(<<x, y, z>>) = {<<x, y, z>>[1], <<x, y, z>>[2], <<x, y, z>>[3]}
  BY <1>1 DEF ToSet
<1> QED BY <1>1, <1>3 DEF Listed

\* A sequence given by a function on the positions of another.
LEMMA MappedFacts ==
  ASSUME NEW s, Listed(s), NEW t, DOMAIN t = DOMAIN s, t = [i \in DOMAIN t |-> t[i]]
  PROVE  Listed(t)
<1>1. DOMAIN t = 1..Len(s) /\ Len(s) \in Nat
  BY ListedFacts
<1>2. t \in Seq(ToSet(t))
  BY <1>1 DEF ToSet
<1> QED BY <1>2 DEF Listed

-----------------------------------------------------------------------------
(* What an advance has to append: plans and tasks are proposed, plans followed, *)
(* decisions asked for, and everything else is none of them.                    *)

Plain(todo) == /\ Listed(todo)
               /\ \A x \in ToSet(todo) : x.rec.kind \notin {"plan", "decision", "task"}

LEMMA PlainFacts ==
  /\ Plain(<< >>)
  /\ \A x : x.rec.kind \notin {"plan", "decision", "task"} <=> Plain(<<x>>)
  /\ \A s, t : Plain(s) /\ Plain(t) => Plain(s \o t)
<1>1. Plain(<< >>)
  BY NoneFacts DEF Plain
<1>2. \A x : x.rec.kind \notin {"plan", "decision", "task"} <=> Plain(<<x>>)
  <2>1. TAKE x
  <2>2. PICK s : s = <<x>> /\ Listed(s) /\ ToSet(s) = {x}
    BY OneFacts
  <2>3. x.rec.kind \notin {"plan", "decision", "task"} <=> Plain(s)
    BY <2>2 DEF Plain
  <2> QED BY <2>2, <2>3
<1>3. \A s, t : Plain(s) /\ Plain(t) => Plain(s \o t)
  BY ConcatFacts DEF Plain
<1> QED BY <1>1, <1>2, <1>3

LEMMA TwoArePlain == \A x, y : Plain(<<x>>) /\ Plain(<<y>>) => Plain(<<x, y>>)
<1>1. TAKE x, y
<1>2. PICK s : s = <<x, y>> /\ Listed(s) /\ ToSet(s) = {x, y}
  BY TwoFacts
<1>3. Plain(<<x>>) /\ Plain(<<y>>) => Plain(s)
  BY <1>2, PlainFacts DEF Plain
<1> QED BY <1>2, <1>3

LEMMA ThreeArePlain ==
  \A x, y, z : Plain(<<x>>) /\ Plain(<<y>>) /\ Plain(<<z>>) => Plain(<<x, y, z>>)
<1>1. TAKE x, y, z
<1>2. PICK s : s = <<x, y, z>> /\ Listed(s) /\ ToSet(s) = {x, y, z}
  BY ThreeFacts
<1>3. Plain(<<x>>) /\ Plain(<<y>>) /\ Plain(<<z>>) => Plain(s)
  BY <1>2, PlainFacts DEF Plain
<1> QED BY <1>2, <1>3

\* One append of a record of some other kind.
LEMMA OneIsPlain ==
  ASSUME NEW kind, kind \notin {"plan", "decision", "task"},
         NEW by, NEW ref, NEW arg, NEW soft, NEW kept
  PROVE  Plain(<<Do(Rec(kind, by, ref, arg), soft, kept)>>)
<1>1. Do(Rec(kind, by, ref, arg), soft, kept).rec.kind = kind
  BY DEF Do, Rec
<1> QED BY <1>1, PlainFacts

LEMMA FinishIsPlain == \A t, stop, token : Plain(Finish(t, stop, token))
BY OneIsPlain DEF Finish

LEMMA RunsIsPlain == \A t, call : Plain(Runs(t, call))
<1> TAKE t, call
<1>1. /\ Plain(<<Aside(Rec("graph", t, call, ""))>>)
      /\ Plain(<<Aside(Rec("joined", t, call, ""))>>)
      /\ Plain(<<Hard(Rec("result", t, call, "ok"))>>)
  BY OneIsPlain DEF Aside, Hard
<1> QED BY <1>1, ThreeArePlain DEF Runs

LEMMA CarriedIsPlain == \A act \in Acts : \A t, n : Plain(Carried(act, t, n))
<1> TAKE act \in Acts
<1> TAKE t, n
<1>1. CASE act \in {"Respond", "Yield"}
  BY <1>1, FinishIsPlain DEF Carried
<1>2. CASE act = "Continue"
  BY <1>2, PlainFacts DEF Carried
<1>3. CASE act = "Plan"
  BY <1>3, OneIsPlain DEF Carried, Hard
<1>4. CASE act = "Search"
  <2>1. PICK s : s = [i \in 1..2 |-> Hard(Rec("observed", t, i, act))]
    OBVIOUS
  <2>2. /\ Listed(<<1, 2>>) /\ DOMAIN s = DOMAIN <<1, 2>> /\ s = [i \in DOMAIN s |-> s[i]]
        /\ \A i \in DOMAIN s : s[i] = Hard(Rec("observed", t, i, act))
    BY <2>1, TwoFacts
  <2>3. \A i : Hard(Rec("observed", t, i, act)).rec.kind = "observed"
    BY DEF Hard, Do, Rec
  <2>4. Plain(s)
    BY <2>2, <2>3, MappedFacts DEF Plain, ToSet
  <2>5. Carried(act, t, n) = s
    BY <1>4, <2>1, Zenon DEF Carried
  <2> QED BY <2>4, <2>5
<1>5. CASE act = "Call"
  BY <1>5, RunsIsPlain DEF Carried
<1>6. CASE act = "Ask"
  <2>1. Plain(<<Hard(Rec("pending", t, 10 * t + n, ""))>>)
    BY OneIsPlain DEF Hard
  <2> QED BY <1>6, <2>1, PlainFacts, FinishIsPlain DEF Carried
<1>7. CASE act = "Delegate"
  <2>1. /\ Plain(<<Hard(Rec("delegation", t, t, ""))>>)
        /\ Plain(<<Hard(Rec("observed", t, t, ""))>>)
    BY OneIsPlain DEF Hard
  <2>2. Plain(<<Hard(Rec("delegation", t, t, "")), Hard(Rec("observed", t, t, ""))>>)
    BY <2>1, TwoArePlain
  <2> QED BY <1>7, <2>2, PlainFacts, FinishIsPlain DEF Carried
<1> QED BY <1>1, <1>2, <1>3, <1>4, <1>5, <1>6, <1>7 DEF Acts

LEMMA TriggerEventsArePlain == \A r : Plain(TriggerEvents(r))
<1> TAKE r
<1>1. CASE r.kind \in {"human", "external"}
  BY <1>1, OneIsPlain DEF TriggerEvents, Hard
<1>2. CASE r.kind = "wake"
  BY <1>2, OneIsPlain DEF TriggerEvents, Hard
<1>3. CASE r.kind \notin {"human", "external", "wake"}
  BY <1>3, PlainFacts DEF TriggerEvents
<1> QED BY <1>1, <1>2, <1>3

\* A planner proposes no decision, and a plan only as one with its first step to do.
Proposed(out) ==
  /\ Listed(out)
  /\ \A r \in ToSet(out) : /\ r.kind \notin {"decision", "pending"}
                           /\ r.kind = "plan" => r.ref = 0 /\ r.arg = "open"

LEMMA MinimalProposes == \A state, t, kind : Proposed(MinimalPlan(state, t, kind))
<1> TAKE state, t, kind
<1>1. \A k, ref, arg : Rec(k, t, ref, arg).kind = k
  BY DEF Rec
<1>2. \A a, b, c, x, y, z : Proposed(<<Rec("goal", t, a, x), Rec("task", t, b, y),
                                       Rec("wakeset", t, c, z)>>)
  BY <1>1, ThreeFacts DEF Proposed
<1>3. \A a, x : Proposed(<<Rec("claim", t, a, x)>>)
  BY <1>1, OneFacts DEF Proposed
<1>4. Proposed(<< >>)
  BY NoneFacts DEF Proposed
<1> QED BY <1>2, <1>3, <1>4, Zenon DEF MinimalPlan

LEMMA ResearchProposes ==
  ASSUME NEW answer, Listed(answer)
  PROVE  \A state, t, kind : Proposed(ResearchPlan(state, t, kind, answer))
<1> TAKE state, t, kind
<1>1. \A k, ref, arg : Rec(k, t, ref, arg).kind = k
  BY DEF Rec
<1>2. PICK tasks : tasks = [i \in DOMAIN answer |->
                              Rec("task", t, NextTask(state, i),
                                  IF \E j \in answer[i] : j <= i THEN "Blocked" ELSE "Ready")]
  OBVIOUS
<1>3. /\ DOMAIN tasks = DOMAIN answer /\ tasks = [i \in DOMAIN tasks |-> tasks[i]]
      /\ \A i \in DOMAIN tasks : \E ref, arg : tasks[i] = Rec("task", t, ref, arg)
  BY <1>2
<1>4. Proposed(tasks)
  BY <1>1, <1>3, MappedFacts DEF Proposed, ToSet
<1>5. \A a, x : Proposed(<<Rec("goal", t, a, x)>>)
  BY <1>1, OneFacts DEF Proposed
<1>6. Proposed(<< >>)
  BY NoneFacts DEF Proposed
<1>7. \A a, b : Proposed(a) /\ Proposed(b) => Proposed(a \o b)
  BY ConcatFacts DEF Proposed
<1>8. \A a, x : Proposed(<<Rec("goal", t, a, x)>> \o tasks)
  BY <1>4, <1>5, <1>7
<1> QED BY <1>2, <1>6, <1>8, Zenon DEF ResearchPlan

LEMMA PlannersPropose ==
  ASSUME deploy \in Deployments, NEW s, NEW r, NEW out \in Proposals(s, r)
  PROVE  Proposed(out)
<1>1. deploy.planner \in {"none", "minimal", "research", "proposing"}
  BY DeploymentsAssumption
<1>2. Proposed(<< >>)
  BY NoneFacts DEF Proposed
<1>3. CASE deploy.planner = "none"
  BY <1>2, <1>3 DEF Proposals
<1>4. CASE deploy.planner = "minimal"
  BY <1>4, MinimalProposes DEF Proposals
<1>5. CASE deploy.planner = "research"
  <2>1. \A a \in Answers \cup {<< >>} : Listed(a)
    BY BoundsAssumption, NoneFacts DEF Listed
  <2>2. PICK a \in Answers \cup {<< >>} : out = ResearchPlan(AgentState(s), r.by, r.kind, a)
    BY <1>5 DEF Proposals
  <2> QED BY <2>1, <2>2, ResearchProposes
<1>6. CASE deploy.planner = "proposing"
  <2>1. Rec("plan", r.by, 0, "open").ref = 0 /\ Rec("plan", r.by, 0, "open").arg = "open"
        /\ Rec("plan", r.by, 0, "open").kind = "plan"
    BY DEF Rec
  <2>2. Proposed(<<Rec("plan", r.by, 0, "open")>>)
    BY <2>1, OneFacts DEF Proposed
  <2> QED BY <1>2, <1>6, <2>2 DEF Proposals
<1> QED BY <1>1, <1>3, <1>4, <1>5, <1>6

-----------------------------------------------------------------------------
(* Plans, while advances do not overlap and nothing fails. *)

Calm == faults = 0 /\ met = {}
Shown == {rows[i].rec : i \in DOMAIN rows}

Followed(r) == r.kind = "plan" /\ r.arg # "completed"
\* What is followed has a step to do.
PlanShape(r) == r.kind = "plan" /\ r.arg # "completed" => r.ref \in 0..(Len(PlanActions) - 1)

\* A plan that is shown is followed, whatever was recorded of it later.
PlansShown ==
  /\ \A r \in Shown : PlanShape(r)
  /\ (\E r \in Shown : r.kind = "plan") => \E r \in Shown : Followed(r)

\* What advance f has still to append: no completed plan but of one that is followed,
\* and a decision only without a plan.
DueFine(f) ==
  /\ Listed(f.todo)
  /\ \A x \in ToSet(f.todo) :
       /\ x.rec.kind = "plan" => /\ PlanShape(x.rec)
                                 /\ Followed(x.rec) \/ \E r \in Shown : Followed(r)
       /\ x.rec.kind = "decision" => /\ \A r \in Shown : r.kind # "plan"
                                     /\ \A y \in ToSet(f.todo) : y.rec.kind # "plan"

\* An advance that is about to take a step holds the plan that is shown.
KnownFine(f) ==
  f.pc \in {"step", "resolve"} =>
    /\ \A x \in ToSet(f.todo) : x.rec.kind # "plan"
    /\ Listed(f.ctx) /\ \A r \in ToSet(f.ctx) : r.kind = "plan" => r \in Shown
    /\ (\E r \in Shown : r.kind = "plan") => \E r \in ToSet(f.ctx) : Followed(r)

PlanInv ==
  /\ \A d, e \in Busy : d = e
  /\ PlansShown
  /\ \A d \in Drivers : DueFine(run[d]) /\ KnownFine(run[d])

\* A number is held for the append that it was given for.
Held == \A d \in Drivers : run[d].seq # 0 => run[d].todo # << >>

NeverLeftInv ==
  WatchInv /\ Held /\ faults \in Nat /\ (Calm => PlanInv) /\ PlanNeverLeft

LEMMA PlainIsFine ==
  ASSUME NEW f, Plain(f.todo)
  PROVE  DueFine(f)
BY DEF Plain, DueFine

\* What is loaded is what is shown.
LEMMA LoadedFacts ==
  ASSUME Numbered
  PROVE  Listed(Loaded) /\ ToSet(Loaded) = Shown
<1>1. /\ DOMAIN Queried = 1..Len(rows) /\ Len(rows) \in Nat /\ DOMAIN rows = 1..Len(rows)
      /\ \A i \in DOMAIN rows : Where(i) \in 1..Len(rows) /\ Queried[Where(i)] = rows[i]
      /\ \A k \in 1..Len(rows) : \E i \in DOMAIN rows : Where(i) = k
  BY QueriedFacts, RowsAreIndexed
<1>2. Loaded = [i \in 1..Len(rows) |-> Queried[i].rec]
  BY <1>1 DEF Loaded, Records
<1>3. Loaded \in Seq(ToSet(Loaded))
  BY <1>1, <1>2 DEF ToSet
<1>4. ToSet(Loaded) = {Queried[i].rec : i \in 1..Len(rows)}
  BY <1>2 DEF ToSet
<1>5. \A k \in 1..Len(rows) : \E i \in DOMAIN rows : Queried[k] = rows[i]
  BY <1>1
<1>6. \A i \in DOMAIN rows : \E k \in 1..Len(rows) : Queried[k] = rows[i]
  BY <1>1
<1>7. ToSet(Loaded) = Shown
  <2>1. ToSet(Loaded) \subseteq Shown
    BY <1>4, <1>5 DEF Shown
  <2>2. Shown \subseteq ToSet(Loaded)
    BY <1>4, <1>6 DEF Shown
  <2> QED BY <2>1, <2>2
<1> QED BY <1>3, <1>7 DEF Listed

Less == {p \in Nat \X Nat : p[1] < p[2]}

LEMMA LeastExists ==
  ASSUME NEW S \in SUBSET Nat, S # {}
  PROVE  \E x \in S : \A y \in S : x <= y
<1>1. IsWellFoundedOn(Less, Nat)
  <2>1. Less = OpToRel(<, Nat)
    BY DEF Less, OpToRel
  <2> QED BY <2>1, NatLessThanWellFounded
<1>2. PICK x \in S : \A y \in S : <<y, x>> \notin Less
  BY <1>1, WFMin
<1>3. \A y \in S : ~(y < x)
  BY <1>2 DEF Less
<1> QED BY <1>3

LEMMA MaxIn ==
  ASSUME NEW n \in Nat, NEW S \in SUBSET (1..n), S # {}
  PROVE  Max(S) \in S /\ \A x \in S : x <= Max(S)
<1> DEFINE T == {n - x : x \in S}
<1>0. \A x \in S : n - x \in Nat
  OBVIOUS
<1>1. T \in SUBSET Nat /\ T # {}
  BY <1>0
<1>2. PICK t \in T : \A y \in T : t <= y
  BY <1>1, LeastExists
<1>3. PICK x \in S : t = n - x
  OBVIOUS
<1>4. \A y \in S : n - x <= n - y
  BY <1>2, <1>3
<1>5. \A y \in S : x >= y
  BY <1>4
<1> QED BY <1>5 DEF Max

\* The plan that an advance follows is one it holds, and it follows one if it holds any.
LEMMA ActivePlanFacts ==
  ASSUME NEW s, Listed(s)
  PROVE  \/ ActivePlan(s) \in ToSet(s) /\ Followed(ActivePlan(s)) /\ ActivePlan(s) # None
         \/ ActivePlan(s) = None /\ \A r \in ToSet(s) : ~Followed(r)
<1> DEFINE at == {i \in DOMAIN s : s[i].kind = "plan" /\ s[i].arg # "completed"}
<1>1. ActivePlan(s) = IF at = {} THEN None ELSE s[Max(at)]
  BY DEF ActivePlan, LastOf
<1>2. CASE at = {}
  BY <1>1, <1>2 DEF ToSet, Followed
<1>3. CASE at # {}
  <2>1. Len(s) \in Nat /\ at \in SUBSET (1..Len(s))
    BY ListedFacts
  <2>2. Max(at) \in at
    <3> HIDE DEF at
    <3> QED BY <1>3, <2>1, MaxIn
  <2>3. None.kind = "none"
    BY DEF None, Rec
  <2>4. PICK i \in at : i = Max(at)
    BY <2>2
  <2> QED BY <1>1, <1>3, <2>3, <2>4 DEF ToSet, Followed
<1> QED BY <1>2, <1>3

\* A step by which advance d goes on as f and nothing comes to be shown.
LEMMA PlanGoing ==
  ASSUME Numbered, PlanInv, NEW d \in Drivers, NEW f, run' = [run EXCEPT ![d] = f],
         UNCHANGED rows, \A e \in Drivers \ {d} : run[e].pc = "idle",
         DueFine(f), KnownFine(f)
  PROVE  PlanInv'
<1>1. run'[d] = f /\ \A e \in Drivers \ {d} : run'[e] = run[e]
  BY DEF Numbered
<1>2. \A e, g \in Busy' : e = g
  BY <1>1 DEF Busy
<1>3. Shown' = Shown
  BY DEF Shown
<1>4. PlansShown'
  BY <1>3 DEF PlanInv, PlansShown
<1>5. \A e \in Drivers : DueFine(run[e])' /\ KnownFine(run[e])'
  <2>1. TAKE e \in Drivers
  <2>2. DueFine(run'[e]) /\ KnownFine(run'[e])
    BY <1>1 DEF PlanInv
  <2> QED BY <1>3, <2>2 DEF DueFine, KnownFine
<1> QED BY <1>2, <1>4, <1>5 DEF PlanInv

\* The advances other than one that is under way are idle.
LEMMA OthersIdle ==
  ASSUME PlanInv, NEW d \in Drivers, run[d].pc # "idle"
  PROVE  \A e \in Drivers \ {d} : run[e].pc = "idle"
BY DEF PlanInv, Busy

LEMMA IdleIsFine == DueFine(Idle) /\ KnownFine(Idle)
<1>1. Plain(Idle.todo) /\ Idle.pc = "idle"
  BY PlainFacts DEF Idle
<1> QED BY <1>1, PlainIsFine DEF KnownFine

\* An advance that has just loaded the session is about to take a step.
LEMMA LoadedIsKnown ==
  ASSUME Numbered, PlanInv, NEW f, f.ctx = Loaded, Plain(f.todo)
  PROVE  DueFine(f) /\ KnownFine(f)
<1>1. Listed(Loaded) /\ ToSet(Loaded) = Shown
  BY LoadedFacts
<1>2. \A x \in ToSet(f.todo) : x.rec.kind # "plan"
  BY DEF Plain
<1>3. (\E r \in Shown : r.kind = "plan") => \E r \in Shown : Followed(r)
  BY DEF PlanInv, PlansShown
<1> QED BY <1>1, <1>2, <1>3, PlainIsFine DEF KnownFine

LEMMA PlannedIsFine ==
  ASSUME Numbered, PlanInv, NEW d \in Drivers, NEW f,
         f \in Planned(run[d], Loaded) \cup {Observing(run[d], Loaded)}
  PROVE  DueFine(f) /\ KnownFine(f)
<1>1. DOMAIN run[d] = Fields
  BY DEF Numbered
<1>2. CASE f = Observing(run[d], Loaded)
  <2>1. f.ctx = Loaded /\ f.todo = TriggerEvents(run[d])
    BY <1>1, <1>2 DEF Observing, Fields
  <2> QED BY <2>1, TriggerEventsArePlain, LoadedIsKnown
<1>3. CASE f # Observing(run[d], Loaded)
  <2>1. PICK todo : todo = <<Do(Rec("summary", run[d].by, 0, ""), TRUE, FALSE)>>
    OBVIOUS
  <2>2. f = [run[d] EXCEPT !.ctx = Loaded, !.pc = "summary", !.todo = todo]
    BY <1>3, <2>1 DEF Planned
  <2>3. f.ctx = Loaded /\ f.todo = todo
    BY <1>1, <2>2 DEF Fields
  <2> QED BY <2>1, <2>3, OneIsPlain, LoadedIsKnown
<1> QED BY <1>2, <1>3

-----------------------------------------------------------------------------
(* The steps of an advance. *)

LEMMA NumberKeepsPlans ==
  ASSUME Numbered, PlanInv, NEW d \in Drivers, Number(d)
  PROVE  PlanInv'
<1>1. run[d].pc # "idle" /\ DOMAIN run[d] = Fields
  <2>1. Idle.todo = << >> /\ run[d].todo # << >>
    BY DEF Number, Idle
  <2> QED BY <2>1 DEF Numbered
<1>2. PICK f : f = [run[d] EXCEPT !.seq = numbers + 1]
  OBVIOUS
<1>3. run' = [run EXCEPT ![d] = f] /\ UNCHANGED rows
  BY <1>2 DEF Number
<1>4. f.todo = run[d].todo /\ f.ctx = run[d].ctx /\ f.pc = run[d].pc
  BY <1>1, <1>2 DEF Fields
<1>5. DueFine(f) /\ KnownFine(f)
  <2>1. DueFine(run[d]) /\ KnownFine(run[d])
    BY DEF PlanInv
  <2> QED BY <1>4, <2>1 DEF DueFine, KnownFine
<1> QED BY <1>1, <1>3, <1>5, OthersIdle, PlanGoing

LEMMA IdleKeepsPlans ==
  ASSUME Numbered, PlanInv, NEW d \in Drivers, run[d].pc # "idle",
         run' = [run EXCEPT ![d] = Idle], UNCHANGED rows
  PROVE  PlanInv'
BY OthersIdle, IdleIsFine, PlanGoing

LEMMA DeliverKeepsPlans ==
  ASSUME Numbered, PlanInv, NEW d \in Drivers, Deliver(d), met' = {}
  PROVE  PlanInv'
<1>1. PICK f, kind, ref, todo :
        /\ f = [Idle EXCEPT !.pc = "read", !.by = triggers + 1, !.kind = kind, !.ref = ref,
                            !.todo = todo]
        /\ run' = [run EXCEPT ![d] = f]
        /\ todo = <<Aside(Rec("trigger", triggers + 1, ref, kind))>>
  BY Zenon DEF Deliver
<1>2. f.pc = "read" /\ f.todo = todo
  BY <1>1 DEF Idle
<1>3. Plain(todo)
  BY <1>1, OneIsPlain DEF Aside
<1>4. DueFine(f) /\ KnownFine(f)
  BY <1>2, <1>3, PlainIsFine DEF KnownFine
<1>5. \A e \in Drivers \ {d} : run[e].pc = "idle"
  <2>1. SUFFICES ASSUME NEW e \in Busy \ {d} PROVE FALSE
    BY DEF Busy
  <2>2. {triggers + 1, run[e].by} \in Overlaps(d, triggers + 1)
    BY <2>1 DEF Overlaps
  <2> QED BY <2>2 DEF Deliver
<1>6. UNCHANGED rows
  BY DEF Deliver
<1> QED BY <1>1, <1>4, <1>5, <1>6, PlanGoing

LEMMA ReadKeepsPlans ==
  ASSUME Numbered, PlanInv, NEW d \in Drivers, Read(d)
  PROVE  PlanInv'
<1>1. DOMAIN run[d] = Fields /\ run[d].pc # "idle" /\ UNCHANGED rows
  BY DEF Numbered, Read, At
<1>2. \/ run' = [run EXCEPT ![d] = Idle]
      \/ \E f, s, todo :
           /\ f = [run[d] EXCEPT !.ctx = s, !.pc = "refresh", !.todo = todo]
           /\ run' = [run EXCEPT ![d] = f]
           /\ todo = <<Do(Rec("intent", run[d].by, 0, run[d].kind), TRUE, FALSE)>>
  BY Zenon DEF Read
<1>3. ASSUME NEW f, NEW s, NEW todo, run' = [run EXCEPT ![d] = f],
             f = [run[d] EXCEPT !.ctx = s, !.pc = "refresh", !.todo = todo],
             todo = <<Do(Rec("intent", run[d].by, 0, run[d].kind), TRUE, FALSE)>>
      PROVE  PlanInv'
  <2>1. f.pc = "refresh" /\ f.todo = todo
    BY <1>1, <1>3 DEF Fields
  <2>2. Plain(todo)
    BY <1>3, OneIsPlain
  <2>3. DueFine(f) /\ KnownFine(f)
    BY <2>1, <2>2, PlainIsFine DEF KnownFine
  <2> QED BY <1>1, <1>3, <2>3, OthersIdle, PlanGoing
<1> QED BY <1>1, <1>2, <1>3, IdleKeepsPlans

LEMMA RefreshKeepsPlans ==
  ASSUME PlanActions # << >>, Numbered, PlanInv, NEW d \in Drivers, Refresh(d),
         faults' = faults, faults \in Nat
  PROVE  PlanInv'
<1>1. DOMAIN run[d] = Fields /\ run[d].pc # "idle" /\ UNCHANGED rows
  BY DEF Numbered, Refresh, At
<1>2. faults' # faults + 1
  OBVIOUS
<1>3. \/ \E f \in Planned(run[d], Loaded) : run' = [run EXCEPT ![d] = f]
      \/ \E f, out, todo :
           /\ out \in Proposals(Loaded, run[d])
           /\ f = [run[d] EXCEPT !.ctx = Loaded, !.pc = "replan", !.todo = todo]
           /\ run' = [run EXCEPT ![d] = f]
           /\ todo = [i \in DOMAIN out |-> Do(out[i], TRUE, FALSE)]
  BY <1>2, Zenon DEF Refresh, LoadOr
<1>4. ASSUME NEW f \in Planned(run[d], Loaded), run' = [run EXCEPT ![d] = f]
      PROVE  PlanInv'
  BY <1>1, <1>4, PlannedIsFine, OthersIdle, PlanGoing
<1>5. ASSUME NEW f, NEW out \in Proposals(Loaded, run[d]), NEW todo,
             run' = [run EXCEPT ![d] = f],
             f = [run[d] EXCEPT !.ctx = Loaded, !.pc = "replan", !.todo = todo],
             todo = [i \in DOMAIN out |-> Do(out[i], TRUE, FALSE)]
      PROVE  PlanInv'
  <2>1. f.pc = "replan" /\ f.todo = todo
    BY <1>1, <1>5 DEF Fields
  <2>2. Proposed(out)
    BY PlannersPropose DEF Numbered
  <2>3. DOMAIN todo = DOMAIN out /\ todo = [i \in DOMAIN todo |-> todo[i]]
        /\ \A i \in DOMAIN out : todo[i].rec = out[i]
    BY <1>5 DEF Do
  <2>4. Listed(todo)
    BY <2>2, <2>3, MappedFacts DEF Proposed
  <2>5. \A x \in ToSet(todo) : x.rec \in ToSet(out)
    BY <2>3 DEF ToSet
  <2>6. \A r \in ToSet(out) : r.kind = "plan" => Followed(r)
    BY <2>2 DEF Proposed, Followed
  <2>7. 0 \in 0..(Len(PlanActions) - 1)
    BY BoundsAssumption
  <2>8. \A x \in ToSet(todo) :
          /\ x.rec.kind # "decision"
          /\ x.rec.kind = "plan" => PlanShape(x.rec) /\ Followed(x.rec)
    BY <2>2, <2>5, <2>6, <2>7 DEF Proposed, PlanShape
  <2>9. DueFine(f) /\ KnownFine(f)
    BY <2>1, <2>4, <2>8 DEF DueFine, KnownFine
  <2> QED BY <1>1, <1>5, <2>9, OthersIdle, PlanGoing
<1> QED BY <1>3, <1>4, <1>5

LEMMA ReloadKeepsPlans ==
  ASSUME Numbered, PlanInv, NEW d \in Drivers, Reload(d), faults' = faults, faults \in Nat
  PROVE  PlanInv'
<1>1. DOMAIN run[d] = Fields /\ run[d].pc # "idle" /\ UNCHANGED rows
  BY DEF Numbered, Reload, At
<1>2. faults' # faults + 1
  OBVIOUS
<1>3. PICK f \in Planned(run[d], Loaded) \cup {Observing(run[d], Loaded)} :
        run' = [run EXCEPT ![d] = f]
  BY <1>2 DEF Reload, LoadOr
<1> QED BY <1>1, <1>3, PlannedIsFine, OthersIdle, PlanGoing

\* What resolving an approval leaves to be appended.
LEMMA ResolveShape ==
  ASSUME NEW d \in Drivers, Resolve(d)
  PROVE  \E f, todo, n, resolution, settle, verdict :
           /\ run' = [run EXCEPT ![d] = f]
           /\ \/ /\ f = [run[d] EXCEPT !.pc = "step", !.n = n, !.todo = todo]
                 /\ todo = resolution \o settle
                 /\ \/ settle = Runs(run[d].by, run[d].ref)
                    \/ settle = <<Hard(Rec("result", run[d].by, run[d].ref, "refused"))>>
                 /\ \/ resolution = <<Aside(Rec("resolution", run[d].by, run[d].ref, verdict))>>
                    \/ resolution = << >>
              \/ /\ f = [run[d] EXCEPT !.pc = "cache", !.todo = todo]
                 /\ todo = Finish(run[d].by, "PolicyAborted", 0)
<1>1. \E verdict, settle, resolution, found :
        /\ settle = IF verdict = "approve" THEN Runs(run[d].by, run[d].ref)
                    ELSE <<Hard(Rec("result", run[d].by, run[d].ref, "refused"))>>
        /\ resolution = IF IsPending(Loaded, run[d].ref)
                        THEN <<Aside(Rec("resolution", run[d].by, run[d].ref, verdict))>>
                        ELSE << >>
        /\ run' = [run EXCEPT ![d] =
             IF found THEN [run[d] EXCEPT !.pc = "step", !.n = run[d].ref % 10,
                                          !.todo = resolution \o settle]
             ELSE [run[d] EXCEPT !.pc = "cache", !.todo = Finish(run[d].by, "PolicyAborted", 0)]]
  BY Zenon DEF Resolve
<1>2. PICK verdict, settle, resolution, found :
        /\ settle = IF verdict = "approve" THEN Runs(run[d].by, run[d].ref)
                    ELSE <<Hard(Rec("result", run[d].by, run[d].ref, "refused"))>>
        /\ resolution = IF IsPending(Loaded, run[d].ref)
                        THEN <<Aside(Rec("resolution", run[d].by, run[d].ref, verdict))>>
                        ELSE << >>
        /\ run' = [run EXCEPT ![d] =
             IF found THEN [run[d] EXCEPT !.pc = "step", !.n = run[d].ref % 10,
                                          !.todo = resolution \o settle]
             ELSE [run[d] EXCEPT !.pc = "cache", !.todo = Finish(run[d].by, "PolicyAborted", 0)]]
  BY <1>1
<1>3. /\ \/ settle = Runs(run[d].by, run[d].ref)
         \/ settle = <<Hard(Rec("result", run[d].by, run[d].ref, "refused"))>>
      /\ \/ resolution = <<Aside(Rec("resolution", run[d].by, run[d].ref, verdict))>>
         \/ resolution = << >>
  BY <1>2
<1>4. CASE found
  <2>1. PICK todo, n : todo = resolution \o settle /\ n = run[d].ref % 10
    OBVIOUS
  <2>2. PICK f : f = [run[d] EXCEPT !.pc = "step", !.n = n, !.todo = todo]
    OBVIOUS
  <2>3. run' = [run EXCEPT ![d] = f]
    BY <1>2, <1>4, <2>1, <2>2, Zenon
  <2> QED BY <1>3, <2>1, <2>2, <2>3, Zenon
<1>5. CASE ~found
  <2>1. PICK todo : todo = Finish(run[d].by, "PolicyAborted", 0)
    OBVIOUS
  <2>2. PICK f : f = [run[d] EXCEPT !.pc = "cache", !.todo = todo]
    OBVIOUS
  <2>3. run' = [run EXCEPT ![d] = f]
    BY <1>2, <1>5, <2>1, <2>2, Zenon
  <2> QED BY <2>1, <2>2, <2>3, Zenon
<1> QED BY <1>4, <1>5

\* What a continuation leaves to be appended.
LEMMA ContinueShape ==
  ASSUME NEW d \in Drivers, Continue(d)
  PROVE  \/ run' = [run EXCEPT ![d] = Idle] /\ UNCHANGED met
         \/ \E f, t, ref, n, todo :
              /\ f = [run[d] EXCEPT !.pc = "step", !.by = t, !.ctx = Loaded, !.todo = todo, !.n = n]
              /\ run' = [run EXCEPT ![d] = f] /\ met' = Overlaps(d, t)
              /\ \/ todo = << >>
                 \/ todo = <<Aside(Rec("joined", t, ref, "")), Hard(Rec("result", t, ref, "ok"))>>
<1>1. \/ run' = [run EXCEPT ![d] = Idle] /\ UNCHANGED met
      \/ \E t, ref, n, todo :
           /\ run' = [run EXCEPT ![d] = [run[d] EXCEPT !.pc = "step", !.by = t, !.ctx = Loaded,
                                                       !.todo = todo, !.n = n]]
           /\ met' = Overlaps(d, t)
           /\ todo = IF ActiveGraph(Loaded) = None THEN << >>
                     ELSE <<Aside(Rec("joined", t, ref, "")), Hard(Rec("result", t, ref, "ok"))>>
  BY Zenon DEF Continue
<1>2. ASSUME NEW t, NEW ref, NEW n, NEW todo,
             run' = [run EXCEPT ![d] = [run[d] EXCEPT !.pc = "step", !.by = t, !.ctx = Loaded,
                                                      !.todo = todo, !.n = n]],
             met' = Overlaps(d, t),
             todo = IF ActiveGraph(Loaded) = None THEN << >>
                    ELSE <<Aside(Rec("joined", t, ref, "")), Hard(Rec("result", t, ref, "ok"))>>
      PROVE  \E f, u, r, m, v :
              /\ f = [run[d] EXCEPT !.pc = "step", !.by = u, !.ctx = Loaded, !.todo = v, !.n = m]
              /\ run' = [run EXCEPT ![d] = f] /\ met' = Overlaps(d, u)
              /\ \/ v = << >>
                 \/ v = <<Aside(Rec("joined", u, r, "")), Hard(Rec("result", u, r, "ok"))>>
  <2>1. \/ todo = << >>
        \/ todo = <<Aside(Rec("joined", t, ref, "")), Hard(Rec("result", t, ref, "ok"))>>
    BY <1>2
  <2> QED BY <1>2, <2>1, Zenon
<1> QED BY <1>1, <1>2, Zenon

LEMMA ResolveKeepsPlans ==
  ASSUME Numbered, PlanInv, NEW d \in Drivers, Resolve(d)
  PROVE  PlanInv'
<1>1. DOMAIN run[d] = Fields /\ run[d].pc = "resolve" /\ UNCHANGED rows
  BY DEF Numbered, Resolve, At
<1>2. ASSUME NEW f, NEW todo, Plain(todo), run' = [run EXCEPT ![d] = f],
             f.todo = todo, f.ctx = run[d].ctx
      PROVE  PlanInv'
  <2>1. KnownFine(run[d])
    BY DEF PlanInv
  <2>2. DueFine(f) /\ KnownFine(f)
    BY <1>1, <1>2, <2>1, PlainIsFine DEF KnownFine, Plain
  <2> QED BY <1>1, <1>2, <2>2, OthersIdle, PlanGoing
<1>3. \A by, ref, arg, verdict :
        /\ Plain(<<Aside(Rec("resolution", by, ref, verdict))>>)
        /\ Plain(<<Hard(Rec("result", by, ref, arg))>>)
        /\ Plain(Runs(by, ref)) /\ Plain(<< >>)
  BY OneIsPlain, RunsIsPlain, PlainFacts DEF Aside, Hard
<1>4. \A u, v : Plain(u) /\ Plain(v) => Plain(u \o v)
  BY PlainFacts
<1>5. \E f, todo, n :
        /\ Plain(todo) /\ run' = [run EXCEPT ![d] = f]
        /\ \/ f = [run[d] EXCEPT !.pc = "step", !.n = n, !.todo = todo]
           \/ f = [run[d] EXCEPT !.pc = "cache", !.todo = todo]
  <2>1. PICK f, todo, n, resolution, settle, verdict :
          /\ run' = [run EXCEPT ![d] = f]
          /\ \/ /\ f = [run[d] EXCEPT !.pc = "step", !.n = n, !.todo = todo]
                /\ todo = resolution \o settle
                /\ \/ settle = Runs(run[d].by, run[d].ref)
                   \/ settle = <<Hard(Rec("result", run[d].by, run[d].ref, "refused"))>>
                /\ \/ resolution = <<Aside(Rec("resolution", run[d].by, run[d].ref, verdict))>>
                   \/ resolution = << >>
             \/ /\ f = [run[d] EXCEPT !.pc = "cache", !.todo = todo]
                /\ todo = Finish(run[d].by, "PolicyAborted", 0)
    BY ResolveShape
  <2>2. CASE f = [run[d] EXCEPT !.pc = "cache", !.todo = todo]
             /\ todo = Finish(run[d].by, "PolicyAborted", 0)
    <3>1. Plain(todo)
      BY <2>2, FinishIsPlain
    <3> QED BY <2>1, <2>2, <3>1, Zenon
  <2>3. CASE /\ f = [run[d] EXCEPT !.pc = "step", !.n = n, !.todo = todo]
             /\ todo = resolution \o settle
             /\ \/ settle = Runs(run[d].by, run[d].ref)
                \/ settle = <<Hard(Rec("result", run[d].by, run[d].ref, "refused"))>>
             /\ \/ resolution = <<Aside(Rec("resolution", run[d].by, run[d].ref, verdict))>>
                \/ resolution = << >>
    <3>1. Plain(resolution) /\ Plain(settle)
      BY <2>3, <1>3, Zenon
    <3>2. Plain(todo)
      BY <2>3, <3>1, <1>4, Zenon
    <3> QED BY <2>1, <2>3, <3>2, Zenon
  <2> QED BY <2>1, <2>2, <2>3, Zenon
<1>6. PICK f, todo, n :
        /\ Plain(todo) /\ run' = [run EXCEPT ![d] = f]
        /\ \/ f = [run[d] EXCEPT !.pc = "step", !.n = n, !.todo = todo]
           \/ f = [run[d] EXCEPT !.pc = "cache", !.todo = todo]
  BY <1>5
<1>7. f.todo = todo /\ f.ctx = run[d].ctx
  BY <1>1, <1>6 DEF Fields
<1> QED BY <1>2, <1>6, <1>7

LEMMA ContinueKeepsPlans ==
  ASSUME Numbered, PlanInv, NEW d \in Drivers, Continue(d)
  PROVE  PlanInv'
<1>1. DOMAIN run[d] = Fields /\ run[d].pc # "idle" /\ UNCHANGED rows
  BY DEF Numbered, Continue, At
<1>2. \A t, ref : /\ Plain(<<Aside(Rec("joined", t, ref, ""))>>)
                  /\ Plain(<<Hard(Rec("result", t, ref, "ok"))>>)
  BY OneIsPlain DEF Aside, Hard
<1>3. \A t, ref : Plain(<<Aside(Rec("joined", t, ref, "")), Hard(Rec("result", t, ref, "ok"))>>)
  BY <1>2, TwoArePlain
<1>4. \/ run' = [run EXCEPT ![d] = Idle] /\ UNCHANGED met
      \/ \E f, t, n, todo :
           /\ f = [run[d] EXCEPT !.pc = "step", !.by = t, !.ctx = Loaded, !.todo = todo, !.n = n]
           /\ run' = [run EXCEPT ![d] = f] /\ Plain(todo) /\ met' = Overlaps(d, t)
  <2>1. \A t, ref, todo :
          \/ todo = << >>
          \/ todo = <<Aside(Rec("joined", t, ref, "")), Hard(Rec("result", t, ref, "ok"))>>
          => Plain(todo)
    BY <1>3, PlainFacts, Zenon
  <2> QED BY <2>1, ContinueShape, Zenon
<1>5. ASSUME NEW f, NEW t, NEW n, NEW todo, Plain(todo), run' = [run EXCEPT ![d] = f],
             f = [run[d] EXCEPT !.pc = "step", !.by = t, !.ctx = Loaded, !.todo = todo, !.n = n]
      PROVE  PlanInv'
  <2>1. f.ctx = Loaded /\ f.todo = todo
    BY <1>1, <1>5 DEF Fields
  <2> QED BY <1>1, <1>5, <2>1, LoadedIsKnown, OthersIdle, PlanGoing
<1> QED BY <1>1, <1>4, <1>5, IdleKeepsPlans

\* Following a plan records that it is completed only behind one of its earlier records.
LEMMA FollowPlanIsFine ==
  ASSUME PlanInv, NEW p \in Shown, Followed(p), NEW f, NEW rest, Plain(rest), NEW by,
         f.todo = <<Do(Rec("plan", by, p.ref + 1,
                           IF p.ref + 1 = Len(PlanActions) THEN "completed" ELSE "open"),
                       TRUE, FALSE)>> \o rest
  PROVE  DueFine(f)
<1>1. p.ref \in 0..(Len(PlanActions) - 1) /\ Len(PlanActions) \in Nat
  BY BoundsAssumption DEF PlanInv, PlansShown, PlanShape, Followed
<1>2. PICK r : r = Rec("plan", by, p.ref + 1,
                       IF p.ref + 1 = Len(PlanActions) THEN "completed" ELSE "open")
  OBVIOUS
<1>3. PICK x : x = Do(r, TRUE, FALSE)
  OBVIOUS
<1>4. x.rec = r /\ r.kind = "plan" /\ PlanShape(r)
  BY <1>1, <1>2, <1>3 DEF Do, Rec, PlanShape
<1>5. Listed(<<x>>) /\ ToSet(<<x>>) = {x}
  BY OneFacts
<1>6. f.todo = <<x>> \o rest
  BY <1>2, <1>3, Zenon
<1>7. Listed(f.todo) /\ ToSet(f.todo) = {x} \cup ToSet(rest)
  <2>1. Listed(rest)
    BY DEF Plain
  <2>2. PICK one : one = <<x>> /\ Listed(one) /\ ToSet(one) = {x}
    BY <1>5
  <2>3. Listed(one \o rest) /\ ToSet(one \o rest) = ToSet(one) \cup ToSet(rest)
    BY <2>1, <2>2, ConcatFacts
  <2> QED BY <1>6, <2>2, <2>3
<1> QED BY <1>4, <1>7 DEF DueFine, Plain

LEMMA AskIsFine ==
  ASSUME \A r \in Shown : r.kind # "plan", NEW f, NEW rest, Plain(rest), NEW by, NEW n, NEW act,
         f.todo = <<Hard(Rec("decision", by, n, act))>> \o rest
  PROVE  DueFine(f)
<1>1. PICK x : x = Hard(Rec("decision", by, n, act))
  OBVIOUS
<1>2. x.rec.kind = "decision"
  BY <1>1 DEF Hard, Do, Rec
<1>3. Listed(<<x>>) /\ ToSet(<<x>>) = {x}
  BY OneFacts
<1>4. Listed(f.todo) /\ ToSet(f.todo) = {x} \cup ToSet(rest)
  BY <1>1, <1>3, ConcatFacts DEF Plain
<1>5. \A y \in ToSet(f.todo) : y.rec.kind # "plan"
  BY <1>2, <1>4 DEF Plain
<1> QED BY <1>4, <1>5 DEF DueFine

LEMMA StepKeepsPlans ==
  ASSUME Numbered, PlanInv, NEW d \in Drivers, Step(d)
  PROVE  PlanInv'
<1>1. /\ DOMAIN run[d] = Fields /\ run[d].pc = "step" /\ UNCHANGED rows
      /\ deploy.acts \subseteq Acts
  BY DeploymentsAssumption DEF Numbered, Step, At
<1>2. /\ Listed(run[d].ctx) /\ \A r \in ToSet(run[d].ctx) : r.kind = "plan" => r \in Shown
      /\ (\E r \in Shown : r.kind = "plan") => \E r \in ToSet(run[d].ctx) : Followed(r)
  BY <1>1 DEF PlanInv, KnownFine
<1>3. PICK plan : plan = ActivePlan(run[d].ctx)
  OBVIOUS
<1>4. \/ plan \in Shown /\ Followed(plan) /\ plan # None
      \/ plan = None /\ \A r \in Shown : r.kind # "plan"
  BY <1>2, <1>3, ActivePlanFacts DEF Followed
<1>5. Len(PlanActions) \in Nat /\ \A i \in 1..Len(PlanActions) : PlanActions[i] \in Acts
  BY BoundsAssumption
<1>6. plan # None => plan.ref \in 0..(Len(PlanActions) - 1)
  BY <1>4 DEF PlanInv, PlansShown, PlanShape, Followed
<1>7. ASSUME NEW f, NEW pc, pc \in {"cache", "between"}, NEW todo, run' = [run EXCEPT ![d] = f],
             f = [run[d] EXCEPT !.pc = pc, !.todo = todo],
             f.todo = todo => DueFine(f)
      PROVE  PlanInv'
  <2>1. f.pc = pc /\ f.todo = todo
    BY <1>1, <1>7 DEF Fields
  <2>2. DueFine(f) /\ KnownFine(f)
    BY <1>7, <2>1 DEF KnownFine
  <2> QED BY <1>1, <1>7, <2>2, OthersIdle, PlanGoing
<1>8. CASE plan # None /\ FollowPlan(d, plan)
  <2>1. PICK act : act = PlanActions[plan.ref + 1] /\ act \in Acts
    BY <1>5, <1>6, <1>8
  <2>2. PICK rest : rest = Carried(act, run[d].by, run[d].n + 1) /\ Plain(rest)
    BY <2>1, CarriedIsPlain
  <2>3. PICK pc : pc = (IF Ends(act) THEN "cache" ELSE "between") /\ pc \in {"cache", "between"}
    OBVIOUS
  <2>4. PICK todo : todo = <<Do(Rec("plan", plan.by, plan.ref + 1,
                                    IF plan.ref + 1 = Len(PlanActions)
                                    THEN "completed" ELSE "open"),
                                TRUE, FALSE)>> \o rest
    OBVIOUS
  <2>5. PICK f : f = [run[d] EXCEPT !.pc = pc, !.todo = todo]
    OBVIOUS
  <2>6. run' = [run EXCEPT ![d] = f]
    BY <1>8, <2>1, <2>2, <2>3, <2>4, <2>5, Zenon DEF FollowPlan
  <2>7. f.todo = todo => DueFine(f)
    BY <1>4, <1>8, <2>2, <2>4, FollowPlanIsFine
  <2> QED BY <1>7, <2>3, <2>5, <2>6, <2>7
<1>9. CASE plan = None /\ AskProvider(d)
  <2>1. PICK act \in deploy.acts :
          run' = [run EXCEPT ![d] = [run[d] EXCEPT
                    !.pc = IF Ends(act) THEN "cache" ELSE "between",
                    !.todo = <<Hard(Rec("decision", run[d].by, run[d].n + 1, act))>>
                             \o Carried(act, run[d].by, run[d].n + 1)]]
    BY <1>9, Zenon DEF AskProvider
  <2>2. PICK rest : rest = Carried(act, run[d].by, run[d].n + 1) /\ Plain(rest)
    BY <1>1, CarriedIsPlain
  <2>3. PICK pc : pc = (IF Ends(act) THEN "cache" ELSE "between") /\ pc \in {"cache", "between"}
    OBVIOUS
  <2>4. PICK todo : todo = <<Hard(Rec("decision", run[d].by, run[d].n + 1, act))>> \o rest
    OBVIOUS
  <2>5. PICK f : f = [run[d] EXCEPT !.pc = pc, !.todo = todo]
    OBVIOUS
  <2>6. run' = [run EXCEPT ![d] = f]
    BY <2>1, <2>2, <2>3, <2>4, <2>5, Zenon
  <2>7. f.todo = todo => DueFine(f)
    BY <1>4, <1>9, <2>2, <2>4, AskIsFine
  <2> QED BY <1>7, <2>3, <2>5, <2>6, <2>7
<1>10. CASE run' = [run EXCEPT ![d] = [run[d] EXCEPT
                      !.pc = "cache", !.todo = Finish(run[d].by, "MaxSteps", 0)]]
  <2>1. PICK pc, todo : pc = "cache" /\ todo = Finish(run[d].by, "MaxSteps", 0)
    OBVIOUS
  <2>2. PICK f : f = [run[d] EXCEPT !.pc = pc, !.todo = todo]
    OBVIOUS
  <2>3. run' = [run EXCEPT ![d] = f]
    BY <1>10, <2>1, <2>2, Zenon
  <2>4. f.todo = todo => DueFine(f)
    BY <2>1, FinishIsPlain, PlainIsFine
  <2> QED BY <1>7, <2>1, <2>2, <2>3, <2>4
<1>11. \/ plan # None /\ FollowPlan(d, plan)
       \/ ~(plan # None /\ plan.ref < Len(PlanActions)) /\ AskProvider(d)
       \/ run' = [run EXCEPT ![d] = [run[d] EXCEPT
                    !.pc = "cache", !.todo = Finish(run[d].by, "MaxSteps", 0)]]
  BY <1>3, Zenon DEF Step
<1> QED BY <1>5, <1>6, <1>8, <1>9, <1>10, <1>11

-----------------------------------------------------------------------------
(* The steps that show a record. *)

LEMMA AppendShows ==
  ASSUME Numbered, NEW q, NEW r, rows' = Append(rows, [seq |-> q, rec |-> r])
  PROVE  /\ Shown' = Shown \cup {r} /\ DOMAIN rows' = 1..(Len(rows) + 1)
         /\ rows'[Len(rows) + 1].rec = r
         /\ \A i \in DOMAIN rows : rows'[i] = rows[i]
<1>1. PICK S : rows \in Seq(S)
  BY DEF Numbered
<1>2. PICK new : new = [seq |-> q, rec |-> r]
  OBVIOUS
<1>3. rows \in Seq(S \cup {new}) /\ rows' = Append(rows, new) /\ new.rec = r
  BY <1>1, <1>2
<1>4. /\ DOMAIN rows' = 1..(Len(rows) + 1) /\ rows'[Len(rows) + 1] = new
      /\ DOMAIN rows = 1..Len(rows) /\ Len(rows) \in Nat
      /\ \A i \in DOMAIN rows : rows'[i] = rows[i]
  BY <1>3
<1>5. Shown' = Shown \cup {r}
  <2>1. \A i \in DOMAIN rows' : i \in DOMAIN rows \/ i = Len(rows) + 1
    BY <1>4
  <2>2. \A i \in DOMAIN rows : i \in DOMAIN rows'
    BY <1>4
  <2>3. Len(rows) + 1 \in DOMAIN rows'
    BY <1>4
  <2> QED BY <1>3, <1>4, <2>1, <2>2, <2>3 DEF Shown
<1> QED BY <1>3, <1>4, <1>5

LEMMA PushShows ==
  ASSUME Numbered, Held, NEW d \in Drivers, Push(d)
  PROVE  \E x, r : /\ run[d].todo # << >> /\ x = Head(run[d].todo) /\ r = x.rec
                   /\ rows' = Append(rows, [seq |-> run[d].seq, rec |-> r])
                   /\ Shown' = Shown \cup {r}
<1>1. PICK x, r : x = Head(run[d].todo) /\ r = x.rec
  OBVIOUS
<1>2. rows' = Append(rows, [seq |-> run[d].seq, rec |-> r]) /\ run[d].todo # << >>
  BY <1>1 DEF Push, Held
<1> QED BY <1>1, <1>2, AppendShows

\* An advance that has appended the first of its records.
LEMMA AppendedIsFine ==
  ASSUME NEW f, NEW g, NEW x, f.todo # << >>, x = Head(f.todo), DueFine(f), KnownFine(f),
         g.todo = Tail(f.todo), g.ctx = Kept(f), g.pc = f.pc, Shown' = Shown \cup {x.rec},
         PlansShown
  PROVE  PlansShown' /\ DueFine(g)' /\ KnownFine(g)'
<1>1. /\ Listed(g.todo) /\ ToSet(g.todo) \subseteq ToSet(f.todo) /\ x \in ToSet(f.todo)
  BY ListedFacts DEF DueFine
<1>2. /\ x.rec.kind = "plan" => /\ PlanShape(x.rec)
                                /\ Followed(x.rec) \/ \E r \in Shown : Followed(r)
      /\ \A y \in ToSet(f.todo) :
           /\ y.rec.kind = "plan" => /\ PlanShape(y.rec)
                                     /\ Followed(y.rec) \/ \E r \in Shown : Followed(r)
           /\ y.rec.kind = "decision" => /\ \A r \in Shown : r.kind # "plan"
                                         /\ \A z \in ToSet(f.todo) : z.rec.kind # "plan"
  BY <1>1 DEF DueFine
<1>3. PlansShown'
  <2>1. \A r \in Shown' : PlanShape(r)
    <3>1. \A r \in Shown : PlanShape(r)
      BY DEF PlansShown
    <3>2. PlanShape(x.rec)
      BY <1>2 DEF PlanShape
    <3> QED BY <3>1, <3>2
  <2>2. (\E r \in Shown' : r.kind = "plan") => \E r \in Shown' : Followed(r)
    BY <1>2 DEF PlansShown
  <2> QED BY <2>1, <2>2 DEF PlansShown
<1>4. DueFine(g)'
  <2>1. SUFFICES ASSUME NEW y \in ToSet(g.todo)
                 PROVE  /\ y.rec.kind = "plan" =>
                             /\ PlanShape(y.rec)
                             /\ Followed(y.rec) \/ \E r \in Shown' : Followed(r)
                        /\ y.rec.kind = "decision" =>
                             /\ \A r \in Shown' : r.kind # "plan"
                             /\ \A z \in ToSet(g.todo) : z.rec.kind # "plan"
    BY <1>1 DEF DueFine
  <2>2. y \in ToSet(f.todo)
    BY <1>1, <2>1
  <2> QED BY <1>1, <1>2, <2>2
<1>5. KnownFine(g)'
  <2>1. SUFFICES ASSUME f.pc \in {"step", "resolve"}
                 PROVE  /\ \A y \in ToSet(g.todo) : y.rec.kind # "plan"
                        /\ Listed(g.ctx)
                        /\ \A r \in ToSet(g.ctx) : r.kind = "plan" => r \in Shown'
                        /\ (\E r \in Shown' : r.kind = "plan") =>
                             \E r \in ToSet(g.ctx) : Followed(r)
    BY DEF KnownFine
  <2>2. /\ \A y \in ToSet(f.todo) : y.rec.kind # "plan"
        /\ Listed(f.ctx) /\ \A r \in ToSet(f.ctx) : r.kind = "plan" => r \in Shown
        /\ (\E r \in Shown : r.kind = "plan") => \E r \in ToSet(f.ctx) : Followed(r)
    BY <2>1 DEF KnownFine
  <2>3. x.rec.kind # "plan"
    BY <1>1, <2>2
  <2>4. g.ctx = f.ctx \/ g.ctx = Append(f.ctx, x.rec)
    BY DEF Kept
  <2>5. Listed(g.ctx) /\ ToSet(f.ctx) \subseteq ToSet(g.ctx)
        /\ \A r \in ToSet(g.ctx) : r \in ToSet(f.ctx) \/ r = x.rec
    <3>1. CASE g.ctx = f.ctx
      BY <2>2, <3>1
    <3>2. CASE g.ctx = Append(f.ctx, x.rec)
      <4>1. PICK r : r = x.rec
        OBVIOUS
      <4>2. Listed(Append(f.ctx, r)) /\ ToSet(Append(f.ctx, r)) = ToSet(f.ctx) \cup {r}
        BY <2>2, ListedFacts
      <4> QED BY <3>2, <4>1, <4>2
    <3> QED BY <2>4, <3>1, <3>2
  <2> QED BY <1>1, <2>2, <2>3, <2>5
<1> QED BY <1>3, <1>4, <1>5

LEMMA PushKeepsPlans ==
  ASSUME Numbered, Held, PlanInv, NEW d \in Drivers, Push(d)
  PROVE  PlanInv'
<1>1. PICK x : run[d].todo # << >> /\ x = Head(run[d].todo) /\ Shown' = Shown \cup {x.rec}
  BY PushShows
<1>2. PICK g : g = [run[d] EXCEPT !.ctx = Kept(run[d]), !.todo = Tail(run[d].todo), !.seq = 0]
  OBVIOUS
<1>3. run' = [run EXCEPT ![d] = g]
  BY <1>2, Zenon DEF Push
<1>4. DOMAIN run = Drivers /\ DOMAIN run[d] = Fields /\ run[d].pc # "idle"
  <2>1. Idle.todo = << >>
    BY DEF Idle
  <2> QED BY <1>1, <2>1 DEF Numbered
<1>5. g.todo = Tail(run[d].todo) /\ g.ctx = Kept(run[d]) /\ g.pc = run[d].pc
  BY <1>2, <1>4 DEF Fields
<1>6. run'[d] = g /\ \A e \in Drivers \ {d} : run'[e] = run[e] /\ run[e] = Idle
  BY <1>3, <1>4, OthersIdle DEF Numbered
<1>7. PlansShown' /\ DueFine(g)' /\ KnownFine(g)'
  BY <1>1, <1>5, AppendedIsFine DEF PlanInv
<1>8. \A e \in Drivers : DueFine(run[e])' /\ KnownFine(run[e])'
  <2>1. DueFine(Idle)' /\ KnownFine(Idle)'
    <3>1. Plain(Idle.todo) /\ Idle.pc = "idle"
      BY PlainFacts DEF Idle
    <3> QED BY <3>1 DEF Plain, DueFine, KnownFine
  <2>2. TAKE e \in Drivers
  <2>3. CASE e = d
    BY <1>6, <1>7, <2>3 DEF DueFine, KnownFine
  <2>4. CASE e # d
    BY <1>6, <2>1, <2>4 DEF DueFine, KnownFine
  <2> QED BY <2>3, <2>4
<1>9. \A e, h \in Busy' : e = h
  <2>1. Idle.pc = "idle"
    BY DEF Idle
  <2> QED BY <1>6, <2>1 DEF Busy
<1> QED BY <1>7, <1>8, <1>9 DEF PlanInv

LEMMA ReportKeepsPlans ==
  ASSUME Numbered, PlanInv, Report
  PROVE  PlanInv'
<1>1. PICK t : rows' = Append(rows, [seq |-> numbers + 1, rec |-> Rec("report", 0, t, "Done")])
  BY DEF Report
<1>2. PICK r : r = Rec("report", 0, t, "Done")
  OBVIOUS
<1>3. r.kind = "report"
  BY <1>2 DEF Rec
<1>4. Shown' = Shown \cup {r}
  BY <1>1, <1>2, AppendShows
<1>5. PlansShown'
  BY <1>3, <1>4 DEF PlanInv, PlansShown, PlanShape
<1>6. run' = run /\ \A d \in Drivers : run[d] = Idle
  BY DEF Report, Busy, Numbered
<1>7. Plain(Idle.todo) /\ Idle.pc = "idle"
  BY PlainFacts DEF Idle
<1>8. \A d \in Drivers : DueFine(run[d])' /\ KnownFine(run[d])'
  BY <1>6, <1>7 DEF Plain, DueFine, KnownFine
<1> QED BY <1>5, <1>6, <1>7, <1>8 DEF PlanInv, Busy

\* A record that is shown behind the others is no decision if one of them is a plan.
LEMMA ShownNeverLeaves ==
  ASSUME Numbered, NEW q, NEW r, rows' = Append(rows, [seq |-> q, rec |-> r]),
         r.kind = "decision" => \A p \in Shown : p.kind # "plan",
         PlanNeverLeft, UNCHANGED <<faults, met>>
  PROVE  PlanNeverLeft'
<1>1. /\ DOMAIN rows' = 1..(Len(rows) + 1) /\ rows'[Len(rows) + 1].rec = r
      /\ \A i \in DOMAIN rows : rows'[i] = rows[i]
  BY AppendShows
<1>2. Len(rows) \in Nat /\ DOMAIN rows = 1..Len(rows)
  BY RowsAreIndexed
<1>3. SUFFICES ASSUME NEW i \in DOMAIN rows', NEW j \in DOMAIN rows', i < j,
                      rows'[i].rec.kind = "plan", rows'[j].rec.kind = "decision"
               PROVE  (faults > 0 \/ met # {})'
  BY DEF PlanNeverLeft
<1>4. i \in DOMAIN rows
  BY <1>1, <1>2, <1>3
<1>5. rows[i].rec \in Shown /\ rows[i].rec.kind = "plan"
  BY <1>1, <1>3, <1>4 DEF Shown
<1>6. j # Len(rows) + 1
  BY <1>1, <1>3, <1>5
<1>7. j \in DOMAIN rows
  BY <1>1, <1>2, <1>6
<1> QED BY <1>1, <1>3, <1>4, <1>7 DEF PlanNeverLeft

LEMMA PushNeverLeaves ==
  ASSUME Numbered, Held, PlanInv, NEW d \in Drivers, Push(d), PlanNeverLeft
  PROVE  PlanNeverLeft'
<1>1. PICK x, r : /\ run[d].todo # << >> /\ x = Head(run[d].todo) /\ r = x.rec
                  /\ rows' = Append(rows, [seq |-> run[d].seq, rec |-> r])
  BY PushShows
<1>2. x \in ToSet(run[d].todo)
  BY <1>1, ListedFacts DEF PlanInv, DueFine
<1>3. r.kind = "decision" => \A p \in Shown : p.kind # "plan"
  BY <1>1, <1>2 DEF PlanInv, DueFine
<1>4. UNCHANGED <<faults, met>>
  BY DEF Push
<1> QED BY <1>1, <1>3, <1>4, ShownNeverLeaves

LEMMA ReportNeverLeaves ==
  ASSUME Numbered, Report, PlanNeverLeft
  PROVE  PlanNeverLeft'
<1>1. PICK t : rows' = Append(rows, [seq |-> numbers + 1, rec |-> Rec("report", 0, t, "Done")])
  BY DEF Report
<1>2. PICK r : r = Rec("report", 0, t, "Done")
  OBVIOUS
<1>3. r.kind = "report"
  BY <1>2 DEF Rec
<1>4. UNCHANGED <<faults, met>>
  BY DEF Report
<1> QED BY <1>1, <1>2, <1>3, <1>4, ShownNeverLeaves

-----------------------------------------------------------------------------
(* The second theorem. *)

\* What has failed and what has overlapped is not forgotten.
LEMMA CalmEnds ==
  ASSUME faults \in Nat, [Next]_vars
  PROVE  faults' \in Nat /\ (Calm' => Calm /\ faults' = faults)
<1>1. faults' \in {faults, faults + 1} /\ met \subseteq met'
  <2>1. CASE UNCHANGED vars
    BY <2>1 DEF vars
  <2>2. CASE Report \/ Poll \/ ReadPage
    BY <2>2 DEF Report, Poll, ReadPage
  <2>3. ASSUME NEW d \in Drivers, Number(d) \/ Push(d) \/ AppendFails(d) \/ Drop(d)
        PROVE  faults' \in {faults, faults + 1} /\ met \subseteq met'
    BY <2>3 DEF Number, Push, AppendFails, Drop
  <2>4. ASSUME NEW d \in Drivers, Deliver(d) \/ Read(d) \/ Resolve(d) \/ Step(d) \/ Cache(d)
        PROVE  faults' \in {faults, faults + 1} /\ met \subseteq met'
    BY <2>4 DEF Deliver, Overlaps, Read, Resolve, Step, Cache
  <2>5. ASSUME NEW d \in Drivers, Refresh(d) \/ Reload(d)
        PROVE  faults' \in {faults, faults + 1} /\ met \subseteq met'
    BY <2>5 DEF Refresh, Reload, LoadOr
  <2>6. ASSUME NEW d \in Drivers, Continue(d)
        PROVE  faults' \in {faults, faults + 1} /\ met \subseteq met'
    BY <2>6 DEF Continue, Overlaps
  <2> QED BY <2>1, <2>2, <2>3, <2>4, <2>5, <2>6 DEF Next, Advance
<1> QED BY <1>1 DEF Calm

LEMMA NextKeepsHeld ==
  ASSUME WatchInv, Held, [Next]_vars
  PROVE  Held'
<1>0. Numbered /\ DOMAIN run = Drivers /\ Idle.seq = 0
  BY DEF WatchInv, Numbered, Idle
<1>1. ASSUME NEW d \in Drivers, NEW f, Goes(d, f), run[d].seq = 0 \/ f = Idle
      PROVE  Held'
  <2>1. f.seq = 0
    BY <1>0, <1>1 DEF Goes
  <2> QED BY <1>0, <1>1, <2>1 DEF Goes, Held
<1>2. ASSUME NEW d \in Drivers, Number(d)
      PROVE  Held'
  <2>1. PICK f : f = [run[d] EXCEPT !.seq = numbers + 1]
    OBVIOUS
  <2>2. run' = [run EXCEPT ![d] = f]
    BY <1>2, <2>1 DEF Number
  <2>3. f.todo = run[d].todo /\ f.todo # << >>
    BY <1>0, <1>2, <2>1 DEF Number, Numbered, Fields
  <2> QED BY <1>0, <2>2, <2>3 DEF Held
<1>3. ASSUME NEW d \in Drivers, Push(d)
      PROVE  Held'
  <2>1. PICK f : f = [run[d] EXCEPT !.ctx = Kept(run[d]), !.todo = Tail(run[d].todo), !.seq = 0]
    OBVIOUS
  <2>2. run' = [run EXCEPT ![d] = f]
    BY <1>3, <2>1, Zenon DEF Push
  <2>3. f.seq = 0
    BY <1>0, <2>1 DEF Numbered, Fields
  <2> QED BY <1>0, <2>2, <2>3 DEF Held
<1>4. ASSUME NEW d \in Drivers, AppendFails(d)
      PROVE  Held'
  <2>1. run[d].seq = 0
    BY <1>4 DEF AppendFails
  <2> QED BY <1>0, <1>1, <1>4, <2>1, AppendFailsGoes
<1>5. ASSUME NEW d \in Drivers, Drop(d) \/ Cache(d)
      PROVE  Held'
  BY <1>0, <1>1, <1>5, DropGoes, CacheGoes
<1>6. ASSUME NEW d \in Drivers, Deliver(d)
      PROVE  Held'
  <2>1. run[d].seq = 0
    BY <1>0, <1>6 DEF Deliver, Numbered
  <2> QED BY <1>0, <1>1, <1>6, <2>1, DeliverGoes
<1>7. ASSUME NEW d \in Drivers,
             Read(d) \/ Refresh(d) \/ Reload(d) \/ Resolve(d) \/ Step(d) \/ Continue(d)
      PROVE  Held'
  <2>1. run[d].todo = << >>
    BY <1>7 DEF Read, Refresh, Reload, Resolve, Step, Continue, At
  <2>2. run[d].seq = 0
    BY <2>1 DEF Held
  <2>3. \E f : Goes(d, f)
    BY <1>0, <1>7, ReadGoes, RefreshGoes, ReloadGoes, ResolveGoes, StepGoes, ContinueGoes
  <2> QED BY <1>1, <2>2, <2>3
<1>8. CASE UNCHANGED run
  BY <1>8 DEF Held
<1>9. Report \/ Poll \/ ReadPage \/ UNCHANGED vars => UNCHANGED run
  BY DEF Report, Poll, ReadPage, vars
<1> QED BY <1>2, <1>3, <1>4, <1>5, <1>6, <1>7, <1>8, <1>9 DEF Next, Advance

LEMMA NextKeepsPlans ==
  ASSUME PlanActions # << >>, Numbered, Held, faults \in Nat, PlanInv, [Next]_vars, Calm'
  PROVE  PlanInv'
<1>1. faults' = faults /\ faults' # faults + 1 /\ met' = {}
  BY CalmEnds DEF Calm
<1>2. ASSUME NEW d \in Drivers, Advance(d)
      PROVE  PlanInv'
  <2>1. CASE Number(d)
    BY <2>1, NumberKeepsPlans
  <2>2. CASE Push(d)
    BY <2>2, PushKeepsPlans
  <2>3. CASE AppendFails(d) \/ Drop(d)
    BY <1>1, <2>3 DEF AppendFails, Drop
  <2>4. CASE Deliver(d)
    BY <1>1, <2>4, DeliverKeepsPlans
  <2>5. CASE Read(d)
    BY <2>5, ReadKeepsPlans
  <2>6. CASE Refresh(d)
    BY <1>1, <2>6, RefreshKeepsPlans
  <2>7. CASE Reload(d)
    BY <1>1, <2>7, ReloadKeepsPlans
  <2>8. CASE Resolve(d)
    BY <2>8, ResolveKeepsPlans
  <2>9. CASE Step(d)
    BY <2>9, StepKeepsPlans
  <2>10. CASE Cache(d)
    <3>1. run[d].pc # "idle" /\ run' = [run EXCEPT ![d] = Idle] /\ UNCHANGED rows
      BY <2>10 DEF Cache, At
    <3> QED BY <3>1, IdleKeepsPlans
  <2>11. CASE Continue(d)
    BY <2>11, ContinueKeepsPlans
  <2> QED
    BY <1>2, <2>1, <2>2, <2>3, <2>4, <2>5, <2>6, <2>7, <2>8, <2>9, <2>10, <2>11 DEF Advance
<1>3. CASE Report
  BY <1>3, ReportKeepsPlans
<1>4. CASE UNCHANGED <<rows, run>>
  <2>1. Shown' = Shown
    BY <1>4 DEF Shown
  <2> QED BY <1>4, <2>1 DEF PlanInv, Busy, PlansShown, DueFine, KnownFine
<1>5. Poll \/ ReadPage \/ UNCHANGED vars => UNCHANGED <<rows, run>>
  BY DEF Poll, ReadPage, vars
<1> QED BY <1>2, <1>3, <1>4, <1>5 DEF Next

LEMMA NextNeverLeaves ==
  ASSUME Numbered, Held, faults \in Nat, Calm => PlanInv, PlanNeverLeft, [Next]_vars
  PROVE  PlanNeverLeft'
<1>1. faults' \in Nat /\ (Calm' => Calm)
  BY CalmEnds
<1>2. CASE ~Calm'
  BY <1>1, <1>2 DEF Calm, PlanNeverLeft
<1>3. CASE UNCHANGED rows /\ Calm'
  BY <1>1, <1>3 DEF Calm, PlanNeverLeft
<1>4. CASE Report
  BY <1>4, ReportNeverLeaves
<1>5. ASSUME NEW d \in Drivers, Push(d), Calm
      PROVE  PlanNeverLeft'
  BY <1>5, PushNeverLeaves
<1>6. UNCHANGED rows \/ Report \/ \E d \in Drivers : Push(d)
  BY DEF Next, Advance, vars, Poll, ReadPage, Number, AppendFails, Drop, Deliver, Read, Refresh,
         Reload, Resolve, Step, Cache, Continue
<1> QED BY <1>1, <1>2, <1>3, <1>4, <1>5, <1>6

LEMMA InitNeverLeft == Init => NeverLeftInv
<1> SUFFICES ASSUME Init PROVE NeverLeftInv
  OBVIOUS
<1>1. WatchInv /\ faults = 0
  BY InitWatch DEF Init
<1>2. rows = << >> /\ DOMAIN << >> = {} /\ \A d \in Drivers : run[d] = Idle
  BY DEF Init
<1>3. Shown = {} /\ PlanNeverLeft
  BY <1>2 DEF Shown, PlanNeverLeft
<1>4. Idle.pc = "idle" /\ Idle.seq = 0
  BY DEF Idle
<1>5. PlanInv
  BY <1>2, <1>3, <1>4, IdleIsFine DEF PlanInv, PlansShown, Busy
<1>6. Held
  BY <1>2, <1>4 DEF Held
<1> QED BY <1>1, <1>3, <1>5, <1>6 DEF NeverLeftInv

\* A plan that has a step is never left: once its record is shown, no decision of the
\* model comes behind it, unless an append or a load failed or advances overlapped.
\* The record that completes it is not taken for an active plan, and hides none of the
\* earlier ones.  (types.rs:2016, engine.rs:727)
THEOREM PlansAreNeverLeft ==
  ASSUME PlanActions # << >>
  PROVE  Spec => []PlanNeverLeft
<1>1. NeverLeftInv /\ [Next]_vars => NeverLeftInv'
  <2> SUFFICES ASSUME NeverLeftInv, [Next]_vars PROVE NeverLeftInv'
    OBVIOUS
  <2>1. WatchInv /\ Numbered /\ Held /\ faults \in Nat /\ (Calm => PlanInv) /\ PlanNeverLeft
    BY DEF NeverLeftInv, WatchInv
  <2>2. WatchInv' /\ Held'
    BY <2>1, NextKeepsWatch, NextKeepsHeld
  <2>3. faults' \in Nat /\ (Calm' => Calm)
    BY <2>1, CalmEnds
  <2>4. Calm' => PlanInv'
    BY <2>1, <2>3, NextKeepsPlans
  <2>5. PlanNeverLeft'
    BY <2>1, NextNeverLeaves
  <2> QED BY <2>2, <2>3, <2>4, <2>5 DEF NeverLeftInv
<1>2. NeverLeftInv => PlanNeverLeft
  BY DEF NeverLeftInv
<1> QED BY <1>1, <1>2, InitNeverLeft, PTL DEF Spec

-----------------------------------------------------------------------------
(* The agent state, record by record. *)

Fresh == [goals |-> {}, tasks |-> <<>>, wake |-> 0]

\* What the fold computes for the sets of positions it meets.
Folding(s, D, it) ==
  it = [T \in SUBSET D |-> IF T = {} THEN Fresh ELSE Folded(it[T \ {Max(T)}], s[Max(T)])]

LEMMA MaxOf ==
  ASSUME NEW n \in Nat, NEW T \in SUBSET (1..n), n \in T
  PROVE  Max(T) = n
<1>1. \A x \in T : n >= x
  OBVIOUS
<1>2. \A x \in T : (\A y \in T : x >= y) => x = n
  OBVIOUS
<1> QED BY <1>1, <1>2 DEF Max

LEMMA FoldingExists ==
  ASSUME NEW s, NEW n \in Nat
  PROVE  \A k \in 0..n : \E it : Folding(s, 1..k, it)
<1> DEFINE Bad == {k \in 0..n : ~ \E it : Folding(s, 1..k, it)}
<1>1. SUFFICES ASSUME Bad # {} PROVE FALSE
  OBVIOUS
<1>2. PICK k \in Bad : \A j \in Bad : k <= j
  <2>1. Bad \in SUBSET Nat
    OBVIOUS
  <2> HIDE DEF Bad
  <2> QED BY <1>1, <2>1, LeastExists
<1>3. k # 0
  <2>1. SUFFICES ASSUME k = 0 PROVE \E it : Folding(s, 1..k, it)
    BY <1>2
  <2>2. 1..k = {}
    BY <2>1
  <2>3. PICK it : it = [T \in SUBSET {} |-> Fresh]
    OBVIOUS
  <2>4. Folding(s, {}, it)
    BY <2>3 DEF Folding
  <2> QED BY <2>2, <2>4
<1>4. PICK m : m = k - 1 /\ m \in 0..n /\ k = m + 1
  BY <1>2, <1>3
<1>5. PICK f : Folding(s, 1..m, f)
  BY <1>2, <1>4
<1>6. PICK it : it = [T \in SUBSET (1..k) |->
                        IF k \in T THEN Folded(f[T \ {k}], s[k]) ELSE f[T]]
  OBVIOUS
<1>7. \A T \in SUBSET (1..k) : T \ {k} \in SUBSET (1..m)
  BY <1>4
<1>8. \A T \in SUBSET (1..m) : it[T] = f[T]
  BY <1>4, <1>6
<1>9. \A T \in SUBSET (1..k) :
        it[T] = IF T = {} THEN Fresh ELSE Folded(it[T \ {Max(T)}], s[Max(T)])
  <2>1. TAKE T \in SUBSET (1..k)
  <2>2. CASE k \in T
    <3>1. Max(T) = k
      BY <1>2, <2>2, MaxOf
    <3> QED BY <1>6, <1>7, <1>8, <2>2, <3>1
  <2>3. CASE k \notin T
    <3>1. T \in SUBSET (1..m)
      BY <1>7, <2>3
    <3>2. f[T] = IF T = {} THEN Fresh ELSE Folded(f[T \ {Max(T)}], s[Max(T)])
      BY <1>5, <3>1 DEF Folding
    <3>3. T \ {Max(T)} \in SUBSET (1..m)
      BY <3>1
    <3> QED BY <1>6, <1>8, <2>3, <3>1, <3>2, <3>3
  <2> QED BY <2>2, <2>3
<1>10. Folding(s, 1..k, it)
  BY <1>6, <1>9 DEF Folding
<1> QED BY <1>2, <1>10

\* The agent state is that after the last record, from each record to the next by Folded.
States(s, h) ==
  /\ DOMAIN h = 0..Len(s) /\ h[0] = Fresh /\ \A i \in 1..Len(s) : h[i] = Folded(h[i - 1], s[i])
  /\ AgentState(s) = h[Len(s)]

LEMMA AgentStateFacts ==
  ASSUME NEW s, Listed(s)
  PROVE  \E h : States(s, h)
<1>1. Len(s) \in Nat /\ DOMAIN s = 1..Len(s)
  BY ListedFacts
<1>2. PICK it : it = CHOOSE f : f = [T \in SUBSET DOMAIN s |->
                       IF T = {} THEN Fresh ELSE Folded(f[T \ {Max(T)}], s[Max(T)])]
  OBVIOUS
<1>3. AgentState(s) = it[DOMAIN s]
  BY <1>2, Zenon DEF AgentState, FoldLeft, MapThenFoldSet, Fresh
<1>4. Folding(s, DOMAIN s, it)
  <2>1. PICK n : n = Len(s)
    OBVIOUS
  <2>2. \E f : Folding(s, 1..n, f)
    <3>1. n \in Nat /\ n \in 0..n
      BY <1>1, <2>1
    <3> QED BY <3>1, FoldingExists
  <2>3. \E f : Folding(s, DOMAIN s, f)
    BY <1>1, <2>1, <2>2
  <2> QED BY <1>2, <2>3, Zenon DEF Folding
<1>5. PICK h : h = [i \in 0..Len(s) |-> it[1..i]]
  OBVIOUS
<1>6. h[0] = Fresh
  <2>1. 1..0 = {}
    OBVIOUS
  <2> QED BY <1>1, <1>4, <1>5, <2>1 DEF Folding
<1>7. \A i \in 1..Len(s) : h[i] = Folded(h[i - 1], s[i])
  <2>1. TAKE i \in 1..Len(s)
  <2>2. /\ i \in Nat /\ i \in 1..i /\ 1..i # {} /\ i - 1 \in 0..Len(s) /\ i \in 0..Len(s)
        /\ \A j \in 1..i : j \in 1..Len(s)
    <3>1. i \in Nat /\ i >= 1 /\ i <= Len(s) /\ Len(s) \in Nat
      BY <1>1
    <3>2. i \in 1..i /\ i - 1 \in 0..Len(s) /\ i \in 0..Len(s)
      BY <3>1
    <3>3. \A j \in 1..i : j \in 1..Len(s)
      BY <3>1
    <3> QED BY <3>1, <3>2, <3>3
  <2>3. Max(1..i) = i /\ (1..i) \ {i} = 1..(i - 1)
    BY <2>2, MaxOf
  <2>4. PICK T \in SUBSET DOMAIN s : T = 1..i
    BY <1>1, <2>2
  <2>5. it[T] = Folded(it[T \ {Max(T)}], s[Max(T)])
    BY <1>4, <2>2, <2>4 DEF Folding
  <2> QED BY <1>5, <2>2, <2>3, <2>4, <2>5
<1>8. h[Len(s)] = it[DOMAIN s]
  BY <1>1, <1>5
<1> QED BY <1>3, <1>5, <1>6, <1>7, <1>8 DEF States

\* Types of an agent state.
StateOK(state) ==
  /\ DOMAIN state = {"goals", "tasks", "wake"}
  /\ state.goals \in SUBSET Nat /\ IsFiniteSet(state.goals)
  /\ DOMAIN state.tasks \in SUBSET Nat /\ IsFiniteSet(DOMAIN state.tasks)
  /\ state.wake \in Nat

LEMMA FoldedFacts ==
  ASSUME NEW state, StateOK(state), NEW r, r.ref \in Nat
  PROVE  /\ StateOK(Folded(state, r))
         /\ DOMAIN Folded(state, r).tasks =
              DOMAIN state.tasks \cup (IF r.kind = "task" THEN {r.ref} ELSE {})
<1>1. CASE r.kind = "goal"
  <2>1. PICK g : g = [state EXCEPT !.goals = @ \cup {r.ref}]
    OBVIOUS
  <2>2. Folded(state, r) = g
    BY <1>1, <2>1 DEF Folded
  <2>3. g.goals = state.goals \cup {r.ref} /\ g.tasks = state.tasks /\ g.wake = state.wake
        /\ DOMAIN g = DOMAIN state
    BY <2>1 DEF StateOK
  <2>4. IsFiniteSet(state.goals \cup {r.ref})
    BY FS_AddElement DEF StateOK
  <2> QED BY <1>1, <2>2, <2>3, <2>4 DEF StateOK
<1>2. CASE r.kind = "task"
  <2>1. PICK more : more = [n \in DOMAIN state.tasks \cup {r.ref} |->
                              IF n = r.ref THEN r.arg ELSE state.tasks[n]]
    OBVIOUS
  <2>2. DOMAIN more = DOMAIN state.tasks \cup {r.ref}
    BY <2>1
  <2>3. Folded(state, r) = [state EXCEPT !.tasks = more]
    BY <1>2, <2>1 DEF Folded
  <2>4. IsFiniteSet(DOMAIN state.tasks \cup {r.ref})
    BY FS_AddElement DEF StateOK
  <2> QED BY <1>2, <2>2, <2>3, <2>4 DEF StateOK
<1>3. CASE r.kind \in {"claim", "report"}
  <2>1. \/ Folded(state, r) = state
        \/ \E w : Folded(state, r) = [state EXCEPT !.tasks = [state.tasks EXCEPT ![r.ref] = w]]
    BY <1>3 DEF Folded
  <2> QED BY <1>3, <2>1 DEF StateOK
<1>4. CASE r.kind = "wakeset"
  BY <1>4 DEF Folded, StateOK
<1>5. CASE r.kind = "wakedone"
  BY <1>5 DEF Folded, StateOK
<1>6. CASE r.kind \notin {"goal", "task", "claim", "report", "wakeset", "wakedone"}
  BY <1>6 DEF Folded
<1> QED BY <1>1, <1>2, <1>3, <1>4, <1>5, <1>6

TaskNumbers(s) == {r.ref : r \in {x \in ToSet(s) : x.kind = "task"}}

LEMMA AgentStateTyped ==
  ASSUME NEW s, Listed(s), \A r \in ToSet(s) : r.ref \in Nat
  PROVE  StateOK(AgentState(s)) /\ DOMAIN AgentState(s).tasks = TaskNumbers(s)
<1>1. Len(s) \in Nat /\ DOMAIN s = 1..Len(s)
  BY ListedFacts
<1>2. PICK h : States(s, h)
  BY AgentStateFacts
<1> DEFINE Upto(i) == {s[j].ref : j \in {k \in 1..i : s[k].kind = "task"}}
           Bad == {i \in 0..Len(s) : ~ (StateOK(h[i]) /\ DOMAIN h[i].tasks = Upto(i))}
<1>3. StateOK(Fresh) /\ DOMAIN Fresh.tasks = {}
  BY FS_EmptySet DEF StateOK, Fresh
<1>4. Bad = {}
  <2>1. SUFFICES ASSUME Bad # {} PROVE FALSE
    OBVIOUS
  <2>2. PICK i \in Bad : \A j \in Bad : i <= j
    <3>1. Bad \in SUBSET Nat
      BY <1>1
    <3> HIDE DEF Bad
    <3> QED BY <2>1, <3>1, LeastExists
  <2>3. i # 0
    <3>1. Upto(0) = {}
      OBVIOUS
    <3> QED BY <1>2, <1>3, <2>2, <3>1 DEF States
  <2>4. i - 1 \in 0..Len(s) /\ i - 1 \notin Bad /\ i \in 1..Len(s)
    BY <1>1, <2>2, <2>3
  <2>5. StateOK(h[i - 1]) /\ DOMAIN h[i - 1].tasks = Upto(i - 1)
    BY <2>4
  <2>6. s[i] \in ToSet(s) /\ s[i].ref \in Nat /\ h[i] = Folded(h[i - 1], s[i])
    BY <1>1, <1>2, <2>4 DEF States, ToSet
  <2>7. Upto(i) = Upto(i - 1) \cup (IF s[i].kind = "task" THEN {s[i].ref} ELSE {})
    <3>1. 1..i = (1..(i - 1)) \cup {i}
      BY <1>1, <2>4
    <3> QED BY <3>1
  <2> HIDE DEF Upto
  <2>8. StateOK(h[i]) /\ DOMAIN h[i].tasks = Upto(i)
    BY <2>5, <2>6, <2>7, FoldedFacts
  <2> QED BY <2>2, <2>8
<1>5. StateOK(h[Len(s)]) /\ DOMAIN h[Len(s)].tasks = Upto(Len(s))
  BY <1>1, <1>4
<1>6. Upto(Len(s)) = TaskNumbers(s)
  BY <1>1 DEF TaskNumbers, ToSet
<1> QED BY <1>2, <1>5, <1>6 DEF States

-----------------------------------------------------------------------------
(* Types. *)

Pcs == {"idle", "read", "refresh", "replan", "summary", "resolve", "step", "between", "cache"}
TriggerWords == TriggerKinds \cup {""}
\* The records there can be when t triggers were delivered, and their appends.
RecordsTo(t) == [kind : Kinds, by : 0..t, ref : Nat, arg : Words]
DuesTo(t) == [rec : RecordsTo(t), soft : BOOLEAN, kept : BOOLEAN]
FuturesTo(t) == [pc : Pcs, by : 0..t, kind : TriggerWords, ref : Nat,
                 ctx : Seq(RecordsTo(t)), todo : Seq(DuesTo(t)), seq : Nat, n : Nat]
RowsTo(t) == [seq : Nat, rec : RecordsTo(t)]

Typed ==
  /\ triggers \in Nat
  /\ rows \in Seq(RowsTo(triggers)) /\ cache \in Seq(RecordsTo(triggers))
  /\ \A d \in Drivers : run[d] \in FuturesTo(triggers)
  /\ watcher.sent \subseteq Visible

LEMMA SeqGrows ==
  ASSUME NEW S, NEW T, S \subseteq T
  PROVE  Seq(S) \subseteq Seq(T)
OBVIOUS

LEMMA TypesGrow ==
  ASSUME NEW t \in Nat, NEW u \in Nat, t <= u
  PROVE  /\ RecordsTo(t) \subseteq RecordsTo(u) /\ Seq(RecordsTo(t)) \subseteq Seq(RecordsTo(u))
         /\ Seq(RowsTo(t)) \subseteq Seq(RowsTo(u)) /\ FuturesTo(t) \subseteq FuturesTo(u)
<1>1. RecordsTo(t) \subseteq RecordsTo(u)
  BY DEF RecordsTo
<1>2. DuesTo(t) \subseteq DuesTo(u) /\ RowsTo(t) \subseteq RowsTo(u)
  BY <1>1 DEF DuesTo, RowsTo
<1>3. /\ Seq(RecordsTo(t)) \subseteq Seq(RecordsTo(u))
      /\ Seq(DuesTo(t)) \subseteq Seq(DuesTo(u)) /\ Seq(RowsTo(t)) \subseteq Seq(RowsTo(u))
  BY <1>1, <1>2, SeqGrows
<1>4. FuturesTo(t) \subseteq FuturesTo(u)
  BY <1>3 DEF FuturesTo
<1> QED BY <1>1, <1>3, <1>4

LEMMA RecIsTyped ==
  ASSUME NEW t \in Nat, NEW kind \in Kinds, NEW by \in 0..t, NEW ref \in Nat, NEW arg \in Words
  PROVE  Rec(kind, by, ref, arg) \in RecordsTo(t)
BY DEF Rec, RecordsTo

LEMMA DoIsTyped ==
  ASSUME NEW t \in Nat, NEW r \in RecordsTo(t)
  PROVE  /\ \A soft, kept \in BOOLEAN : <<Do(r, soft, kept)>> \in Seq(DuesTo(t))
         /\ <<Hard(r)>> \in Seq(DuesTo(t)) /\ <<Aside(r)>> \in Seq(DuesTo(t))
<1>1. \A soft, kept \in BOOLEAN : Do(r, soft, kept) \in DuesTo(t)
  BY DEF Do, DuesTo
<1>2. \A x \in DuesTo(t) : <<x>> \in Seq(DuesTo(t))
  OBVIOUS
<1> QED BY <1>1, <1>2 DEF Hard, Aside

LEMMA FinishIsTyped ==
  ASSUME NEW t \in Nat, NEW by \in 0..t, NEW stop \in Words, NEW token \in Nat
  PROVE  Finish(by, stop, token) \in Seq(DuesTo(t))
<1>1. Rec("outcome", by, token, stop) \in RecordsTo(t)
  BY RecIsTyped DEF Kinds
<1> QED BY <1>1, DoIsTyped DEF Finish

LEMMA TwoTyped ==
  ASSUME NEW S, NEW x, NEW y, <<x>> \in Seq(S), <<y>> \in Seq(S)
  PROVE  <<x, y>> \in Seq(S)
<1>1. x = <<x>>[1] /\ y = <<y>>[1]
  OBVIOUS
<1>2. x \in S /\ y \in S
  BY <1>1
<1> QED BY <1>2

LEMMA RunsIsTyped ==
  ASSUME NEW t \in Nat, NEW by \in 0..t, NEW call \in Nat
  PROVE  Runs(by, call) \in Seq(DuesTo(t))
<1>1. /\ Rec("graph", by, call, "") \in RecordsTo(t)
      /\ Rec("joined", by, call, "") \in RecordsTo(t)
      /\ Rec("result", by, call, "ok") \in RecordsTo(t)
  BY RecIsTyped DEF Kinds, Words
<1>2. PICK x, y, z : /\ x = Aside(Rec("graph", by, call, ""))
                     /\ y = Aside(Rec("joined", by, call, ""))
                     /\ z = Hard(Rec("result", by, call, "ok"))
  OBVIOUS
<1>3. x \in DuesTo(t) /\ y \in DuesTo(t) /\ z \in DuesTo(t)
  BY <1>1, <1>2 DEF Aside, Hard, Do, DuesTo
<1>4. <<x, y, z>> \in Seq(DuesTo(t))
  BY <1>3
<1> QED BY <1>2, <1>4 DEF Runs

LEMMA CarriedIsTyped ==
  ASSUME NEW t \in Nat, NEW by \in 0..t, NEW n \in Nat, NEW act \in Acts
  PROVE  Carried(act, by, n) \in Seq(DuesTo(t))
<1>0. 10 * by + n \in Nat /\ by \in Nat
  OBVIOUS
<1>1. CASE act \in {"Respond", "Yield"}
  BY <1>1, FinishIsTyped DEF Carried, Words
<1>2. CASE act = "Continue"
  BY <1>2 DEF Carried
<1>3. CASE act = "Plan"
  <2>1. Rec("deliberation", by, 0, "") \in RecordsTo(t)
    BY RecIsTyped DEF Kinds, Words
  <2> QED BY <1>3, <2>1, DoIsTyped DEF Carried
<1>4. CASE act = "Search"
  <2>0. act \in Words /\ \A i \in 1..2 : i \in Nat
    BY <1>4 DEF Words
  <2>1. \A i \in 1..2 : Rec("observed", by, i, act) \in RecordsTo(t)
    BY <2>0, RecIsTyped DEF Kinds
  <2>2. \A i \in 1..2 : Hard(Rec("observed", by, i, act)) \in DuesTo(t)
    BY <2>1 DEF Hard, Do, DuesTo
  <2>3. PICK s : s = [i \in 1..2 |-> Hard(Rec("observed", by, i, act))]
    OBVIOUS
  <2>4. s \in Seq(DuesTo(t))
    BY <2>2, <2>3
  <2>5. Carried(act, by, n) = s
    BY <1>4, <2>3, Zenon DEF Carried
  <2> QED BY <2>4, <2>5
<1>5. CASE act = "Call"
  BY <1>0, <1>5, RunsIsTyped DEF Carried
<1>6. CASE act = "Ask"
  <2>1. Rec("pending", by, 10 * by + n, "") \in RecordsTo(t)
    BY <1>0, RecIsTyped DEF Kinds, Words
  <2>2. PICK a, b : /\ a = <<Hard(Rec("pending", by, 10 * by + n, ""))>>
                    /\ b = Finish(by, "Suspended", 10 * by + n)
    OBVIOUS
  <2>3. a \in Seq(DuesTo(t)) /\ b \in Seq(DuesTo(t))
    BY <1>0, <2>1, <2>2, DoIsTyped, FinishIsTyped DEF Words
  <2>4. Carried(act, by, n) = a \o b
    BY <1>6, <2>2, Zenon DEF Carried
  <2> QED BY <2>3, <2>4
<1>7. CASE act = "Delegate"
  <2>1. /\ Rec("delegation", by, by, "") \in RecordsTo(t)
        /\ Rec("observed", by, by, "") \in RecordsTo(t)
    BY <1>0, RecIsTyped DEF Kinds, Words
  <2>2. PICK a, b : /\ a = <<Hard(Rec("delegation", by, by, "")),
                           Hard(Rec("observed", by, by, ""))>>
                    /\ b = Finish(by, "Delegated", by)
    OBVIOUS
  <2>3. a \in Seq(DuesTo(t)) /\ b \in Seq(DuesTo(t))
    BY <1>0, <2>1, <2>2, DoIsTyped, TwoTyped, FinishIsTyped DEF Words
  <2>4. Carried(act, by, n) = a \o b
    BY <1>7, <2>2, Zenon DEF Carried
  <2> QED BY <2>3, <2>4
<1> QED BY <1>1, <1>2, <1>3, <1>4, <1>5, <1>6, <1>7 DEF Acts

LEMMA SinceOutcomeIsTyped ==
  ASSUME NEW S, NEW s \in Seq(S)
  PROVE  SinceOutcome(s) \in Seq(S)
<1> DEFINE at == {i \in DOMAIN s : s[i].kind = "outcome"}
<1>1. Len(s) \in Nat /\ DOMAIN s = 1..Len(s)
  OBVIOUS
<1>2. CASE at = {}
  BY <1>2 DEF SinceOutcome
<1>3. CASE at # {}
  <2>1. at \in SUBSET (1..Len(s))
    BY <1>1
  <2>2. Max(at) \in 1..Len(s)
    <3> HIDE DEF at
    <3> QED BY <1>1, <1>3, <2>1, MaxIn
  <2>3. PICK m : m = Max(at) + 1
    OBVIOUS
  <2> HIDE DEF at
  <2>4. m \in Nat /\ m >= 1
    BY <1>1, <2>2, <2>3
  <2>5. SubSeq(s, m, Len(s)) \in Seq(S)
    BY <1>1, <2>4
  <2>6. SinceOutcome(s) = SubSeq(s, m, Len(s))
    BY <1>3, <2>3, Zenon DEF SinceOutcome, at
  <2> QED BY <2>5, <2>6
<1> QED BY <1>2, <1>3

LEMMA StepCountIsTyped ==
  ASSUME NEW S, NEW s \in Seq(S)
  PROVE  StepCount(s) \in Nat
<1>1. PICK tail : tail = SinceOutcome(s) /\ tail \in Seq(S)
  BY SinceOutcomeIsTyped
<1>2. PICK at : at = {i \in DOMAIN tail : tail[i].kind \in {"decision", "deliberation"}}
  OBVIOUS
<1>3. Len(tail) \in Nat /\ DOMAIN tail = 1..Len(tail) /\ at \in SUBSET (1..Len(tail))
  BY <1>1, <1>2
<1>4. IsFiniteSet(at)
  <2>1. PICK n : n = Len(tail)
    OBVIOUS
  <2>2. n \in Nat /\ at \in SUBSET (1..n)
    BY <1>3, <2>1
  <2>3. IsFiniteSet(1..n)
    BY <2>2, FS_Interval
  <2> QED BY <2>2, <2>3, FS_Subset
<1>5. StepCount(s) = Cardinality(at)
  BY <1>1, <1>2, Zenon DEF StepCount
<1> QED BY <1>4, <1>5, FS_CardinalityType

LEMMA MinIsIn ==
  ASSUME NEW S \in SUBSET Nat, S # {}
  PROVE  Min(S) \in S
<1>1. \E x \in S : \A y \in S : x <= y
  BY LeastExists
<1> QED BY <1>1 DEF Min

\* A plan record that a kernel step finds, and what an approval was told.
LEMMA LastOfIsTyped ==
  ASSUME NEW s, Listed(s), NEW at, at \subseteq DOMAIN s
  PROVE  at # {} => Max(at) \in DOMAIN s /\ s[Max(at)] \in ToSet(s)
<1>1. Len(s) \in Nat /\ DOMAIN s = 1..Len(s)
  BY ListedFacts
<1>2. at # {} => Max(at) \in at
  BY <1>1, MaxIn
<1> QED BY <1>2 DEF ToSet

LEMMA SeqIsListed ==
  ASSUME NEW S, NEW s \in Seq(S)
  PROVE  Listed(s) /\ \A x \in ToSet(s) : x \in S
BY DEF Listed, ToSet

LEMMA TypedState ==
  ASSUME NEW t \in Nat, NEW s \in Seq(RecordsTo(t))
  PROVE  /\ StateOK(AgentState(s)) /\ DOMAIN AgentState(s).tasks = TaskNumbers(s)
         /\ \A n \in Nat : NextTask(AgentState(s), n) \in Nat
         /\ Cardinality(AgentState(s).goals) + 1 \in Nat
<1>1. Listed(s) /\ \A r \in ToSet(s) : r.ref \in Nat
  <2>1. \A r \in RecordsTo(t) : r.ref \in Nat
    BY DEF RecordsTo
  <2>2. Listed(s) /\ \A x \in ToSet(s) : x \in RecordsTo(t)
    BY SeqIsListed
  <2> QED BY <2>1, <2>2
<1>2. StateOK(AgentState(s)) /\ DOMAIN AgentState(s).tasks = TaskNumbers(s)
  BY <1>1, AgentStateTyped
<1>3. /\ Cardinality(AgentState(s).goals) \in Nat
      /\ Cardinality(DOMAIN AgentState(s).tasks) \in Nat
  BY <1>2, FS_CardinalityType DEF StateOK
<1>4. PICK g, k : g = Cardinality(AgentState(s).goals)
                  /\ k = Cardinality(DOMAIN AgentState(s).tasks)
  OBVIOUS
<1>5. \A n \in Nat : NextTask(AgentState(s), n) = k + n
  BY <1>4, Zenon DEF NextTask
<1>6. (\A n \in Nat : k + n \in Nat) /\ g + 1 \in Nat
  BY <1>3, <1>4
<1> QED BY <1>2, <1>4, <1>5, <1>6

LEMMA MinimalIsTyped ==
  ASSUME NEW t \in Nat, NEW s \in Seq(RecordsTo(t)), NEW by \in 0..t, NEW kind
  PROVE  MinimalPlan(AgentState(s), by, kind) \in Seq(RecordsTo(t))
<1>0. /\ StateOK(AgentState(s)) /\ \A n \in Nat : NextTask(AgentState(s), n) \in Nat
      /\ Cardinality(AgentState(s).goals) + 1 \in Nat
  BY TypedState
<1>1. PICK state : state = AgentState(s)
  OBVIOUS
<1>2. NextTask(state, 1) \in Nat /\ Cardinality(state.goals) + 1 \in Nat /\ by \in Nat
  BY <1>0, <1>1
<1>3. PICK a, b, c : /\ a = Rec("goal", by, Cardinality(state.goals) + 1, "Active")
                     /\ b = Rec("task", by, NextTask(state, 1), "Ready")
                     /\ c = Rec("wakeset", by, by, "follow up")
  OBVIOUS
<1>4. a \in RecordsTo(t) /\ b \in RecordsTo(t) /\ c \in RecordsTo(t)
  BY <1>2, <1>3, RecIsTyped DEF Kinds, Words
<1>5. <<a, b, c>> \in Seq(RecordsTo(t)) /\ << >> \in Seq(RecordsTo(t))
  BY <1>4
<1>6. PICK ready : ready = {n \in DOMAIN state.tasks :
                             state.tasks[n] \in {"Ready", "Blocked", "WaitingHuman"}}
  OBVIOUS
<1>7. ready # {} => Min(ready) \in Nat
  <2>1. ready \in SUBSET Nat
    BY <1>0, <1>1, <1>6 DEF StateOK
  <2> QED BY <2>1, MinIsIn
<1>8. ready # {} => Rec("claim", by, Min(ready), "") \in RecordsTo(t)
  BY <1>7, RecIsTyped DEF Kinds, Words
<1>9. ready # {} => <<Rec("claim", by, Min(ready), "")>> \in Seq(RecordsTo(t))
  <2>1. PICK x : x = Rec("claim", by, Min(ready), "")
    OBVIOUS
  <2>2. x \in RecordsTo(t) => <<x>> \in Seq(RecordsTo(t))
    OBVIOUS
  <2> QED BY <1>8, <2>1, <2>2
<1>10. (\E n \in DOMAIN state.tasks : state.tasks[n] \in {"Ready", "Blocked", "WaitingHuman"})
         => ready # {}
  BY <1>6
<1>11. \/ MinimalPlan(state, by, kind) \in {<<a, b, c>>, << >>}
       \/ ready # {} /\ MinimalPlan(state, by, kind) = <<Rec("claim", by, Min(ready), "")>>
  BY <1>3, <1>6, <1>10, Zenon DEF MinimalPlan
<1> QED BY <1>1, <1>5, <1>9, <1>11

LEMMA ResearchIsTyped ==
  ASSUME NEW t \in Nat, NEW s \in Seq(RecordsTo(t)), NEW by \in 0..t, NEW kind,
         NEW answer, Listed(answer)
  PROVE  ResearchPlan(AgentState(s), by, kind, answer) \in Seq(RecordsTo(t))
<1>1. PICK state : state = AgentState(s) /\ StateOK(state)
  BY TypedState
<1>2. (\A n \in Nat : NextTask(state, n) \in Nat) /\ Cardinality(state.goals) + 1 \in Nat
  BY <1>1, TypedState
<1>3. Len(answer) \in Nat /\ DOMAIN answer = 1..Len(answer)
  BY ListedFacts
<1>4. PICK tasks : tasks = [i \in DOMAIN answer |->
                              Rec("task", by, NextTask(state, i),
                                  IF \E j \in answer[i] : j <= i THEN "Blocked" ELSE "Ready")]
  OBVIOUS
<1>5. \A i \in DOMAIN answer : tasks[i] \in RecordsTo(t)
  <2>1. TAKE i \in DOMAIN answer
  <2>2. PICK w : /\ w = IF \E j \in answer[i] : j <= i THEN "Blocked" ELSE "Ready"
                 /\ w \in Words
    BY DEF Words
  <2>3. NextTask(state, i) \in Nat /\ "task" \in Kinds
    BY <1>2, <1>3 DEF Kinds
  <2>4. Rec("task", by, NextTask(state, i), w) \in RecordsTo(t)
    BY <2>2, <2>3, RecIsTyped
  <2> QED BY <1>4, <2>2, <2>4
<1>6. tasks \in Seq(RecordsTo(t))
  BY <1>3, <1>4, <1>5
<1>7. PICK goal : goal = Rec("goal", by, Cardinality(state.goals) + 1, "Active")
  OBVIOUS
<1>8. goal \in RecordsTo(t)
  BY <1>2, <1>7, RecIsTyped DEF Kinds, Words
<1>9. <<goal>> \o tasks \in Seq(RecordsTo(t)) /\ << >> \in Seq(RecordsTo(t))
  BY <1>6, <1>8
<1>10. ResearchPlan(state, by, kind, answer) \in {<<goal>> \o tasks, << >>}
  BY <1>4, <1>7, Zenon DEF ResearchPlan
<1> QED BY <1>1, <1>9, <1>10

LEMMA ProposalsAreTyped ==
  ASSUME deploy \in Deployments, NEW t \in Nat, NEW s \in Seq(RecordsTo(t)),
         NEW r, r.by \in 0..t, NEW out \in Proposals(s, r)
  PROVE  out \in Seq(RecordsTo(t))
<1>1. deploy.planner \in {"none", "minimal", "research", "proposing"}
  BY DeploymentsAssumption
<1>2. << >> \in Seq(RecordsTo(t))
  OBVIOUS
<1>3. CASE deploy.planner = "none"
  BY <1>2, <1>3 DEF Proposals
<1>4. CASE deploy.planner = "minimal"
  BY <1>4, MinimalIsTyped DEF Proposals
<1>5. CASE deploy.planner = "research"
  <2>1. \A a \in Answers \cup {<< >>} : Listed(a)
    BY BoundsAssumption, NoneFacts DEF Listed
  <2>2. PICK a \in Answers \cup {<< >>} : out = ResearchPlan(AgentState(s), r.by, r.kind, a)
    BY <1>5 DEF Proposals
  <2> QED BY <2>1, <2>2, ResearchIsTyped
<1>6. CASE deploy.planner = "proposing"
  <2>1. PICK x : x = Rec("plan", r.by, 0, "open")
    OBVIOUS
  <2>2. x \in RecordsTo(t)
    BY <2>1, RecIsTyped DEF Kinds, Words
  <2>3. <<x>> \in Seq(RecordsTo(t))
    BY <2>2
  <2> QED BY <1>2, <1>6, <2>1, <2>3 DEF Proposals
<1> QED BY <1>1, <1>3, <1>4, <1>5, <1>6

LEMMA ActiveGraphIsTyped ==
  ASSUME NEW t \in Nat, NEW s \in Seq(RecordsTo(t))
  PROVE  ActiveGraph(s) # None => ActiveGraph(s).ref \in Nat
<1>1. PICK tail : tail = SinceOutcome(s)
  OBVIOUS
<1>2. tail \in Seq(RecordsTo(t))
  BY <1>1, SinceOutcomeIsTyped
<1>3. PICK at : at = {i \in DOMAIN tail : tail[i].kind = "graph"}
  OBVIOUS
<1>4. ActiveGraph(s) # None => at # {} /\ ActiveGraph(s) = tail[Max(at)]
  BY <1>1, <1>3, Zenon DEF ActiveGraph, LastOf
<1>5. Listed(tail) /\ \A x \in ToSet(tail) : x \in RecordsTo(t)
  BY <1>2, SeqIsListed
<1>6. at # {} => tail[Max(at)] \in ToSet(tail)
  BY <1>3, <1>5, LastOfIsTyped
<1>7. \A x \in RecordsTo(t) : x.ref \in Nat
  BY DEF RecordsTo
<1> QED BY <1>4, <1>5, <1>6, <1>7

LEMMA LoadedIsTyped ==
  ASSUME Numbered, Typed
  PROVE  Loaded \in Seq(RecordsTo(triggers)) /\ DOMAIN Loaded = DOMAIN rows
<1>1. PICK t : t = triggers
  OBVIOUS
<1>2. \A i \in DOMAIN rows : rows[i].rec \in RecordsTo(t)
  <2>1. rows \in Seq(RowsTo(t)) /\ \A x \in RowsTo(t) : x.rec \in RecordsTo(t)
    BY <1>1 DEF Typed, RowsTo
  <2>2. \A i \in DOMAIN rows : rows[i] \in RowsTo(t)
    BY <2>1
  <2> QED BY <2>1, <2>2
<1>3. Listed(Loaded) /\ ToSet(Loaded) = Shown
  BY LoadedFacts
<1>4. Len(Loaded) \in Nat /\ DOMAIN Loaded = 1..Len(Loaded)
  BY <1>3, ListedFacts
<1>5. \A i \in DOMAIN Loaded : Loaded[i] \in RecordsTo(t)
  BY <1>2, <1>3 DEF ToSet, Shown
<1>6. PICK s : s = Loaded
  OBVIOUS
<1>7. \E S : s \in Seq(S)
  BY <1>3, <1>6 DEF Listed
<1>8. s \in Seq(RecordsTo(t))
  BY <1>4, <1>5, <1>6, <1>7
<1>9. DOMAIN Loaded = DOMAIN rows
  BY QueriedFacts, RowsAreIndexed DEF Loaded, Records
<1> QED BY <1>1, <1>6, <1>8, <1>9

\* A step by which advance d goes on as f and nothing else is touched.
LEMMA GoingIsTyped ==
  ASSUME Numbered, Typed, NEW d \in Drivers, NEW f \in FuturesTo(triggers),
         run' = [run EXCEPT ![d] = f], UNCHANGED <<rows, cache, triggers, watcher>>
  PROVE  Typed'
<1>1. \A e \in Drivers : run'[e] \in FuturesTo(triggers)
  BY DEF Typed, Numbered
<1>2. Visible' = Visible
  BY DEF Visible
<1> QED BY <1>1, <1>2 DEF Typed

LEMMA IdleIsTyped == \A t \in Nat : Idle \in FuturesTo(t)
<1>1. \A S : << >> \in Seq(S)
  OBVIOUS
<1> QED BY <1>1 DEF Idle, FuturesTo, Pcs, TriggerWords

LEMMA SomeBy == \A t \in Nat : \A r \in FuturesTo(t) :
                  /\ r.by \in 0..t /\ r.by \in Nat
                  /\ r.kind \in Words /\ r.ref \in Nat /\ r.n \in Nat
                  /\ r.kind \in TriggerWords
                  /\ r.ctx \in Seq(RecordsTo(t)) /\ r.todo \in Seq(DuesTo(t))
<1>1. TriggerWords \subseteq Words
  BY DEF TriggerWords, TriggerKinds, Words
<1> QED BY <1>1 DEF FuturesTo

LEMMA TriggerEventsAreTyped ==
  ASSUME NEW t \in Nat, NEW r \in FuturesTo(t)
  PROVE  TriggerEvents(r) \in Seq(DuesTo(t))
<1>1. r.by \in 0..t /\ r.ref \in Nat /\ r.kind \in Words
  BY SomeBy
<1>2. CASE r.kind \in {"human", "external"}
  <2>1. Rec("observed", r.by, 0, r.kind) \in RecordsTo(t)
    BY <1>1, RecIsTyped DEF Kinds
  <2> QED BY <1>2, <2>1, DoIsTyped DEF TriggerEvents
<1>3. CASE r.kind = "wake"
  <2>1. Rec("wakedone", r.by, r.ref, "") \in RecordsTo(t)
    BY <1>1, RecIsTyped DEF Kinds, Words
  <2> QED BY <1>3, <2>1, DoIsTyped DEF TriggerEvents
<1>4. CASE r.kind \notin {"human", "external", "wake"}
  <2>1. TriggerEvents(r) = << >>
    BY <1>4, Zenon DEF TriggerEvents
  <2> QED BY <2>1
<1> QED BY <1>2, <1>3, <1>4

LEMMA PlannedIsTyped ==
  ASSUME NEW t \in Nat, NEW r \in FuturesTo(t), NEW s \in Seq(RecordsTo(t)),
         NEW f \in Planned(r, s) \cup {Observing(r, s)}
  PROVE  f \in FuturesTo(t)
<1>1. PICK n, todo, pc : /\ n = StepCount(s) /\ todo = TriggerEvents(r)
                         /\ pc = IF r.kind \in {"approve", "reject"} THEN "resolve" ELSE "step"
  OBVIOUS
<1>2. n \in Nat /\ todo \in Seq(DuesTo(t)) /\ pc \in Pcs
  BY <1>1, StepCountIsTyped, TriggerEventsAreTyped DEF Pcs
<1>3. PICK g : g = [r EXCEPT !.ctx = s, !.n = n, !.todo = todo, !.pc = pc]
  OBVIOUS
<1>4. g \in FuturesTo(t)
  BY <1>2, <1>3 DEF FuturesTo
<1>5. Observing(r, s) = g
  BY <1>1, <1>3, Zenon DEF Observing
<1>6. PICK x : x = Rec("summary", r.by, 0, "")
  OBVIOUS
<1>7. x \in RecordsTo(t)
  BY <1>6, SomeBy, RecIsTyped DEF Kinds, Words
<1>8. PICK due : due = <<Do(x, TRUE, FALSE)>>
  OBVIOUS
<1>9. due \in Seq(DuesTo(t))
  BY <1>7, <1>8, DoIsTyped
<1>10. PICK h : h = [r EXCEPT !.ctx = s, !.pc = "summary", !.todo = due]
  OBVIOUS
<1>11. h \in FuturesTo(t)
  BY <1>9, <1>10 DEF FuturesTo, Pcs
<1>12. f \in {g, h}
  BY <1>5, <1>6, <1>8, <1>10, Zenon DEF Planned
<1> QED BY <1>4, <1>11, <1>12

-----------------------------------------------------------------------------
(* The steps keep the types. *)

LEMMA NumberIsTyped ==
  ASSUME Numbered, Typed, NEW d \in Drivers, Number(d)
  PROVE  Typed'
<1>1. PICK f : f = [run[d] EXCEPT !.seq = numbers + 1]
  OBVIOUS
<1>2. run' = [run EXCEPT ![d] = f] /\ UNCHANGED <<rows, cache, triggers, watcher>>
  BY <1>1 DEF Number
<1>3. f \in FuturesTo(triggers)
  <2>1. run[d] \in FuturesTo(triggers) /\ numbers + 1 \in Nat
    BY DEF Typed, Numbered
  <2> QED BY <1>1, <2>1 DEF FuturesTo
<1> QED BY <1>2, <1>3, GoingIsTyped

\* What an advance holds when it has taken its next append from the list.
LEMMA KeptIsTyped ==
  ASSUME NEW t \in Nat, NEW r \in FuturesTo(t), r.todo # << >>
  PROVE  /\ Kept(r) \in Seq(RecordsTo(t)) /\ Tail(r.todo) \in Seq(DuesTo(t))
         /\ Head(r.todo).rec \in RecordsTo(t)
<1>1. r.todo \in Seq(DuesTo(t)) /\ r.ctx \in Seq(RecordsTo(t))
  BY SomeBy
<1>2. Head(r.todo) \in DuesTo(t) /\ Tail(r.todo) \in Seq(DuesTo(t))
  BY <1>1
<1>3. Head(r.todo).rec \in RecordsTo(t)
  BY <1>2 DEF DuesTo
<1>4. PICK x : x = Head(r.todo).rec
  OBVIOUS
<1>5. Append(r.ctx, x) \in Seq(RecordsTo(t))
  BY <1>1, <1>3, <1>4
<1> QED BY <1>1, <1>2, <1>3, <1>4, <1>5 DEF Kept

LEMMA PushIsTyped ==
  ASSUME Numbered, Held, Typed, NEW d \in Drivers, Push(d)
  PROVE  Typed'
<1>1. PICK t : t = triggers
  OBVIOUS
<1>2. t \in Nat /\ run[d] \in FuturesTo(t) /\ rows \in Seq(RowsTo(t))
  BY <1>1 DEF Typed
<1>3. run[d].todo # << >> /\ run[d].seq \in Nat
  BY DEF Held, Push, Numbered
<1>4. PICK ctx, todo, rec : ctx = Kept(run[d]) /\ todo = Tail(run[d].todo)
                            /\ rec = Head(run[d].todo).rec
  OBVIOUS
<1>5. ctx \in Seq(RecordsTo(t)) /\ todo \in Seq(DuesTo(t)) /\ rec \in RecordsTo(t)
  BY <1>2, <1>3, <1>4, KeptIsTyped
<1>6. PICK f : f = [run[d] EXCEPT !.ctx = ctx, !.todo = todo, !.seq = 0]
  OBVIOUS
<1>7. f \in FuturesTo(t)
  BY <1>2, <1>5, <1>6 DEF FuturesTo
<1>8. run' = [run EXCEPT ![d] = f] /\ UNCHANGED <<cache, triggers, watcher>>
  BY <1>4, <1>6, Zenon DEF Push
<1>9. PICK row : row = [seq |-> run[d].seq, rec |-> rec]
  OBVIOUS
<1>10. row \in RowsTo(t)
  BY <1>3, <1>5, <1>9 DEF RowsTo
<1>11. rows' = Append(rows, row)
  BY <1>4, <1>9 DEF Push
<1>12. /\ rows' \in Seq(RowsTo(t)) /\ DOMAIN rows \subseteq DOMAIN rows'
       /\ \A i \in DOMAIN rows : rows'[i] = rows[i]
  BY <1>2, <1>10, <1>11
<1>13. Visible \subseteq Visible'
  BY <1>12 DEF Visible
<1>14. \A e \in Drivers : run'[e] \in FuturesTo(t)
  BY <1>1, <1>7, <1>8 DEF Typed, Numbered
<1> QED BY <1>1, <1>2, <1>8, <1>12, <1>13, <1>14 DEF Typed

LEMMA AppendFailsIsTyped ==
  ASSUME Numbered, Typed, NEW d \in Drivers, AppendFails(d)
  PROVE  Typed'
<1>1. PICK t : t = triggers
  OBVIOUS
<1>2. t \in Nat /\ run[d] \in FuturesTo(t) /\ run[d].todo # << >>
  BY <1>1 DEF Typed, AppendFails
<1>3. PICK ctx, todo : ctx = Kept(run[d]) /\ todo = Tail(run[d].todo)
  OBVIOUS
<1>4. ctx \in Seq(RecordsTo(t)) /\ todo \in Seq(DuesTo(t))
  BY <1>2, <1>3, KeptIsTyped
<1>5. PICK g : g = [run[d] EXCEPT !.ctx = ctx, !.todo = todo]
  OBVIOUS
<1>6. g \in FuturesTo(t)
  BY <1>2, <1>4, <1>5 DEF FuturesTo
<1>7. UNCHANGED <<rows, cache, triggers, watcher>>
  BY DEF AppendFails
<1>8. run' = [run EXCEPT ![d] = g] \/ run' = [run EXCEPT ![d] = Idle]
  BY <1>3, <1>5, Zenon DEF AppendFails
<1> QED BY <1>1, <1>2, <1>6, <1>7, <1>8, IdleIsTyped, GoingIsTyped

LEMMA DropIsTyped ==
  ASSUME Numbered, Typed, NEW d \in Drivers, Drop(d)
  PROVE  Typed'
<1>1. run' = [run EXCEPT ![d] = Idle] /\ UNCHANGED <<rows, cache, triggers, watcher>>
  BY DEF Drop
<1>2. Idle \in FuturesTo(triggers)
  BY IdleIsTyped DEF Typed
<1> QED BY <1>1, <1>2, GoingIsTyped

LEMMA CacheIsTyped ==
  ASSUME Numbered, Typed, NEW d \in Drivers, Cache(d)
  PROVE  Typed'
<1>1. /\ run' = [run EXCEPT ![d] = Idle] /\ UNCHANGED <<rows, triggers, watcher>>
      /\ cache' \in {cache, run[d].ctx}
  BY DEF Cache
<1>2. triggers \in Nat /\ run[d] \in FuturesTo(triggers)
  BY DEF Typed
<1>3. \A e \in Drivers : run'[e] \in FuturesTo(triggers)
  BY <1>1, <1>2, IdleIsTyped DEF Typed, Numbered
<1>4. cache' \in Seq(RecordsTo(triggers))
  BY <1>1, <1>2, SomeBy DEF Typed
<1>5. Visible' = Visible
  BY <1>1 DEF Visible
<1> QED BY <1>1, <1>3, <1>4, <1>5 DEF Typed

LEMMA SubjectsAreTyped ==
  ASSUME Numbered, Typed, NEW kind \in TriggerKinds
  PROVE  Subjects(kind) \subseteq Nat
<1>1. PICK t : t = triggers
  OBVIOUS
<1>2. t \in Nat /\ Loaded \in Seq(RecordsTo(t)) /\ DOMAIN Loaded = DOMAIN rows
  BY <1>1, LoadedIsTyped DEF Typed
<1>3. \A x \in RecordsTo(t) : x.ref \in Nat
  BY DEF RecordsTo
<1>4. \A i \in DOMAIN rows : Loaded[i].ref \in Nat
  <2>1. \A i \in DOMAIN Loaded : Loaded[i] \in RecordsTo(t)
    BY <1>2
  <2> QED BY <1>2, <1>3, <2>1
<1>5. AgentState(Loaded).wake \in Nat
  BY <1>2, TypedState DEF StateOK
<1>6. CASE kind = "wake"
  BY <1>5, <1>6 DEF Subjects
<1>7. CASE kind \in {"approve", "reject"}
  BY <1>4, <1>7 DEF Subjects
<1>8. CASE kind \notin {"wake", "approve", "reject"}
  BY <1>8 DEF Subjects
<1> QED BY <1>6, <1>7, <1>8

LEMMA DeliverIsTyped ==
  ASSUME Numbered, Typed, NEW d \in Drivers, Deliver(d)
  PROVE  Typed'
<1>1. PICK t, u : t = triggers /\ u = triggers + 1
  OBVIOUS
<1>2. t \in Nat /\ u \in Nat /\ t <= u /\ u \in 0..u
  BY <1>1 DEF Typed
<1>3. triggers' = u /\ UNCHANGED <<rows, cache, watcher>>
  BY <1>1 DEF Deliver
<1>4. PICK kind, ref :
        /\ kind \in deploy.kinds /\ ref \in Subjects(kind)
        /\ run' = [run EXCEPT ![d] =
                 [Idle EXCEPT !.pc = "read", !.by = triggers + 1, !.kind = kind, !.ref = ref,
                              !.todo = <<Aside(Rec("trigger", triggers + 1, ref, kind))>>]]
  BY Zenon DEF Deliver
<1>5. kind \in TriggerKinds
  BY <1>4, DeploymentsAssumption DEF Numbered
<1>6. ref \in Nat /\ kind \in Words /\ kind \in TriggerWords
  BY <1>4, <1>5, SubjectsAreTyped DEF TriggerKinds, Words, TriggerWords
<1>7. PICK x : x = Rec("trigger", u, ref, kind)
  OBVIOUS
<1>8. x \in RecordsTo(u)
  BY <1>2, <1>6, <1>7, RecIsTyped DEF Kinds
<1>9. PICK todo : todo = <<Aside(x)>>
  OBVIOUS
<1>10. todo \in Seq(DuesTo(u))
  BY <1>2, <1>8, <1>9, DoIsTyped
<1>11. PICK f : f = [Idle EXCEPT !.pc = "read", !.by = u, !.kind = kind, !.ref = ref, !.todo = todo]
  OBVIOUS
<1>12. f \in FuturesTo(u)
  <2>1. Idle \in FuturesTo(u) /\ "read" \in Pcs
    BY <1>2, IdleIsTyped DEF Pcs
  <2> QED BY <1>2, <1>6, <1>10, <1>11, <2>1 DEF FuturesTo
<1>13. run' = [run EXCEPT ![d] = f]
  BY <1>1, <1>4, <1>7, <1>9, <1>11, Zenon
<1>14. /\ FuturesTo(t) \subseteq FuturesTo(u) /\ Seq(RecordsTo(t)) \subseteq Seq(RecordsTo(u))
       /\ Seq(RowsTo(t)) \subseteq Seq(RowsTo(u))
  BY <1>2, TypesGrow
<1>15. \A e \in Drivers : run'[e] \in FuturesTo(u)
  BY <1>1, <1>12, <1>13, <1>14 DEF Typed, Numbered
<1>16. Visible' = Visible
  BY <1>3 DEF Visible
<1> QED BY <1>1, <1>2, <1>3, <1>14, <1>15, <1>16 DEF Typed

LEMMA ReadIsTyped ==
  ASSUME Numbered, Typed, NEW d \in Drivers, Read(d)
  PROVE  Typed'
<1>1. PICK t : t = triggers
  OBVIOUS
<1>2. /\ t \in Nat /\ run[d] \in FuturesTo(t) /\ cache \in Seq(RecordsTo(t))
      /\ Loaded \in Seq(RecordsTo(t))
  BY <1>1, LoadedIsTyped DEF Typed
<1>3. run[d].by \in 0..t /\ run[d].ref \in Nat /\ run[d].kind \in Words
  BY <1>2, SomeBy
<1>4. PICK x, y : /\ x = Rec("trigger", run[d].by, run[d].ref, run[d].kind)
                  /\ y = Rec("intent", run[d].by, 0, run[d].kind)
  OBVIOUS
<1>5. x \in RecordsTo(t) /\ y \in RecordsTo(t)
  BY <1>2, <1>3, <1>4, RecIsTyped DEF Kinds
<1>6. PICK todo : todo = <<Do(y, TRUE, FALSE)>>
  OBVIOUS
<1>7. todo \in Seq(DuesTo(t))
  BY <1>2, <1>5, <1>6, DoIsTyped
<1>8. PICK more : more = Append(cache, x)
  OBVIOUS
<1>9. more \in Seq(RecordsTo(t))
  BY <1>2, <1>5, <1>8
<1>10. ASSUME NEW s \in Seq(RecordsTo(t)), NEW f,
              f = [run[d] EXCEPT !.ctx = s, !.pc = "refresh", !.todo = todo]
       PROVE  f \in FuturesTo(t)
  BY <1>2, <1>7, <1>10 DEF FuturesTo, Pcs
<1>11. UNCHANGED <<rows, cache, triggers, watcher>>
  BY DEF Read
<1>12. \/ run' = [run EXCEPT ![d] = Idle]
       \/ \E s, f : /\ s \in {more, Loaded} /\ run' = [run EXCEPT ![d] = f]
                    /\ f = [run[d] EXCEPT !.ctx = s, !.pc = "refresh", !.todo = todo]
  BY <1>4, <1>6, <1>8, Zenon DEF Read
<1>13. \E f \in FuturesTo(t) : run' = [run EXCEPT ![d] = f]
  BY <1>2, <1>9, <1>10, <1>12, IdleIsTyped
<1> QED BY <1>1, <1>11, <1>13, GoingIsTyped

LEMMA RefreshIsTyped ==
  ASSUME Numbered, Typed, NEW d \in Drivers, Refresh(d)
  PROVE  Typed'
<1>1. PICK t : t = triggers
  OBVIOUS
<1>2. /\ t \in Nat /\ run[d] \in FuturesTo(t) /\ Loaded \in Seq(RecordsTo(t))
      /\ run[d].ctx \in Seq(RecordsTo(t)) /\ run[d].by \in 0..t /\ deploy \in Deployments
  BY <1>1, LoadedIsTyped, SomeBy DEF Typed, Numbered
<1>3. ASSUME NEW s \in Seq(RecordsTo(t)), NEW out \in Proposals(s, run[d]), NEW todo, NEW f,
             todo = [i \in DOMAIN out |-> Do(out[i], TRUE, FALSE)],
             f = [run[d] EXCEPT !.ctx = s, !.pc = "replan", !.todo = todo]
      PROVE  f \in FuturesTo(t)
  <2>1. out \in Seq(RecordsTo(t))
    BY <1>2, <1>3, ProposalsAreTyped
  <2>2. \A i \in DOMAIN out : todo[i] \in DuesTo(t)
    <3>1. \A i \in DOMAIN out : out[i] \in RecordsTo(t)
      BY <2>1
    <3> QED BY <1>3, <3>1 DEF Do, DuesTo
  <2>3. todo \in Seq(DuesTo(t))
    <3>1. PICK n : n = Len(out)
      OBVIOUS
    <3>2. n \in Nat /\ DOMAIN out = 1..n
      BY <2>1, <3>1
    <3>3. todo = [i \in 1..n |-> todo[i]]
      BY <1>3, <3>2
    <3>4. \A i \in 1..n : todo[i] \in DuesTo(t)
      BY <2>2, <3>2
    <3> HIDE <1>3
    <3> QED BY <3>2, <3>3, <3>4
  <2> QED BY <1>2, <1>3, <2>3 DEF FuturesTo, Pcs
<1>4. UNCHANGED <<rows, cache, triggers, watcher>>
  BY DEF Refresh
<1>5. \E s \in {Loaded, run[d].ctx} :
        \/ \E f \in Planned(run[d], s) : run' = [run EXCEPT ![d] = f]
        \/ \E f, out, todo :
             /\ out \in Proposals(s, run[d])
             /\ f = [run[d] EXCEPT !.ctx = s, !.pc = "replan", !.todo = todo]
             /\ run' = [run EXCEPT ![d] = f]
             /\ todo = [i \in DOMAIN out |-> Do(out[i], TRUE, FALSE)]
  BY Zenon DEF Refresh, LoadOr
<1>6. \E f \in FuturesTo(t) : run' = [run EXCEPT ![d] = f]
  <2>1. PICK s : /\ s \in Seq(RecordsTo(t))
                 /\ \/ \E f \in Planned(run[d], s) : run' = [run EXCEPT ![d] = f]
                    \/ \E f, out, todo :
                         /\ out \in Proposals(s, run[d])
                         /\ f = [run[d] EXCEPT !.ctx = s, !.pc = "replan", !.todo = todo]
                         /\ run' = [run EXCEPT ![d] = f]
                         /\ todo = [i \in DOMAIN out |-> Do(out[i], TRUE, FALSE)]
    BY <1>2, <1>5
  <2>2. CASE \E f \in Planned(run[d], s) : run' = [run EXCEPT ![d] = f]
    BY <1>2, <2>1, <2>2, PlannedIsTyped
  <2>3. ASSUME NEW f, NEW out \in Proposals(s, run[d]), NEW todo,
               f = [run[d] EXCEPT !.ctx = s, !.pc = "replan", !.todo = todo],
               run' = [run EXCEPT ![d] = f],
               todo = [i \in DOMAIN out |-> Do(out[i], TRUE, FALSE)]
        PROVE  \E g \in FuturesTo(t) : run' = [run EXCEPT ![d] = g]
    <3>1. f \in FuturesTo(t)
      BY <1>3, <2>1, <2>3
    <3> QED BY <2>3, <3>1
  <2> QED BY <2>1, <2>2, <2>3
<1> QED BY <1>1, <1>4, <1>6, GoingIsTyped

LEMMA ReloadIsTyped ==
  ASSUME Numbered, Typed, NEW d \in Drivers, Reload(d)
  PROVE  Typed'
<1>1. PICK t : t = triggers
  OBVIOUS
<1>2. /\ t \in Nat /\ run[d] \in FuturesTo(t) /\ Loaded \in Seq(RecordsTo(t))
      /\ run[d].ctx \in Seq(RecordsTo(t))
  BY <1>1, LoadedIsTyped, SomeBy DEF Typed
<1>3. \E s \in {Loaded, run[d].ctx} :
        \E f \in Planned(run[d], s) \cup {Observing(run[d], s)} : run' = [run EXCEPT ![d] = f]
  BY DEF Reload, LoadOr
<1>4. \E f \in FuturesTo(t) : run' = [run EXCEPT ![d] = f]
  <2>1. PICK s : /\ s \in Seq(RecordsTo(t))
                 /\ \E f \in Planned(run[d], s) \cup {Observing(run[d], s)} :
                      run' = [run EXCEPT ![d] = f]
    BY <1>2, <1>3
  <2> QED BY <1>2, <2>1, PlannedIsTyped
<1>5. UNCHANGED <<rows, cache, triggers, watcher>>
  BY DEF Reload
<1> QED BY <1>1, <1>4, <1>5, GoingIsTyped

LEMMA TypedConcat ==
  ASSUME NEW S, NEW u \in Seq(S), NEW v \in Seq(S)
  PROVE  u \o v \in Seq(S)
OBVIOUS

LEMMA ResolveIsTyped ==
  ASSUME Numbered, Typed, NEW d \in Drivers, Resolve(d)
  PROVE  Typed'
<1>1. PICK t, by, ref, kind :
        t = triggers /\ by = run[d].by /\ ref = run[d].ref /\ kind = run[d].kind
  OBVIOUS
<1>2. /\ t \in Nat /\ run[d] \in FuturesTo(t)
      /\ by \in 0..t /\ ref \in Nat /\ kind \in Words
  BY <1>1, SomeBy DEF Typed
<1>3. PICK x, y : x = Rec("resolution", by, ref, kind) /\ y = Rec("result", by, ref, "refused")
  OBVIOUS
<1>4. x \in RecordsTo(t) /\ y \in RecordsTo(t)
  <2>1. "resolution" \in Kinds /\ "result" \in Kinds /\ "refused" \in Words
    BY DEF Kinds, Words
  <2> QED BY <1>2, <1>3, <2>1, RecIsTyped
<1>5. PICK told, refused, none, graph, no :
        /\ told = <<Aside(x)>> /\ refused = <<Hard(y)>> /\ none = << >>
        /\ graph = Runs(by, ref) /\ no = Finish(by, "PolicyAborted", 0)
  OBVIOUS
<1>6. none \in Seq(DuesTo(t))
  BY <1>5
<1>7. /\ told \in Seq(DuesTo(t)) /\ refused \in Seq(DuesTo(t))
      /\ graph \in Seq(DuesTo(t)) /\ no \in Seq(DuesTo(t))
  BY <1>2, <1>4, <1>5, DoIsTyped, RunsIsTyped, FinishIsTyped DEF Words
<1>8. PICK n : n = ref % 10
  OBVIOUS
<1>9. n \in Nat
  BY <1>2, <1>8
<1>10. UNCHANGED <<rows, cache, triggers, watcher>>
  BY DEF Resolve
<1>11. \/ run' = [run EXCEPT ![d] = [run[d] EXCEPT !.pc = "cache", !.todo = no]]
       \/ \E u, v : /\ u \in {told, none} /\ v \in {refused, graph}
                    /\ run' = [run EXCEPT ![d] = [run[d] EXCEPT !.pc = "step", !.n = n,
                                                                !.todo = u \o v]]
  BY <1>1, <1>3, <1>5, <1>8, Zenon DEF Resolve
<1>12. ASSUME NEW todo \in Seq(DuesTo(t))
       PROVE  /\ [run[d] EXCEPT !.pc = "cache", !.todo = todo] \in FuturesTo(t)
              /\ [run[d] EXCEPT !.pc = "step", !.n = n, !.todo = todo] \in FuturesTo(t)
  BY <1>2, <1>9, <1>12 DEF FuturesTo, Pcs
<1>13. \E f \in FuturesTo(t) : run' = [run EXCEPT ![d] = f]
  <2>1. CASE run' = [run EXCEPT ![d] = [run[d] EXCEPT !.pc = "cache", !.todo = no]]
    BY <1>7, <1>12, <2>1, Zenon
  <2>2. ASSUME NEW u \in {told, none}, NEW v \in {refused, graph},
               run' = [run EXCEPT ![d] = [run[d] EXCEPT !.pc = "step", !.n = n, !.todo = u \o v]]
        PROVE  \E f \in FuturesTo(t) : run' = [run EXCEPT ![d] = f]
    <3>1. u \o v \in Seq(DuesTo(t))
      BY <1>6, <1>7, <2>2, TypedConcat
    <3> QED BY <1>12, <2>2, <3>1, Zenon
  <2> QED BY <1>11, <2>1, <2>2
<1> QED BY <1>1, <1>10, <1>13, GoingIsTyped

LEMMA StepIsTyped ==
  ASSUME Numbered, Typed, NEW d \in Drivers, Step(d)
  PROVE  Typed'
<1>1. PICK t, by, n : t = triggers /\ by = run[d].by /\ n = run[d].n + 1
  OBVIOUS
<1>2. /\ t \in Nat /\ run[d] \in FuturesTo(t) /\ by \in 0..t /\ n \in Nat
      /\ run[d].ctx \in Seq(RecordsTo(t)) /\ deploy.acts \subseteq Acts
  BY <1>1, SomeBy, DeploymentsAssumption DEF Typed, Numbered
<1>3. UNCHANGED <<rows, cache, triggers, watcher>>
  BY DEF Step
<1>4. ASSUME NEW r \in RecordsTo(t), NEW act \in Acts, NEW soft \in BOOLEAN, NEW kept \in BOOLEAN,
             NEW pc \in {"cache", "between"},
             run' = [run EXCEPT ![d] = [run[d] EXCEPT !.pc = pc,
                       !.todo = <<Do(r, soft, kept)>> \o Carried(act, by, n)]]
      PROVE  Typed'
  <2>1. PICK head, rest, todo : /\ head = <<Do(r, soft, kept)>> /\ rest = Carried(act, by, n)
                                /\ todo = head \o rest
    OBVIOUS
  <2>2. head \in Seq(DuesTo(t)) /\ rest \in Seq(DuesTo(t))
    BY <1>2, <2>1, DoIsTyped, CarriedIsTyped
  <2>3. todo \in Seq(DuesTo(t))
    BY <2>1, <2>2, TypedConcat
  <2>4. PICK f : f = [run[d] EXCEPT !.pc = pc, !.todo = todo]
    OBVIOUS
  <2>5. f \in FuturesTo(t)
    BY <1>2, <2>3, <2>4 DEF FuturesTo, Pcs
  <2>6. run' = [run EXCEPT ![d] = f]
    BY <1>4, <2>1, <2>4, Zenon
  <2> QED BY <1>1, <1>3, <2>5, <2>6, GoingIsTyped
<1>5. PICK plan : plan = ActivePlan(run[d].ctx)
  OBVIOUS
<1>6. plan # None => plan.ref \in Nat /\ plan.by \in 0..t
  <2>1. Listed(run[d].ctx) /\ \A x \in ToSet(run[d].ctx) : x \in RecordsTo(t)
    BY <1>2, SeqIsListed
  <2>2. plan # None => plan \in ToSet(run[d].ctx)
    BY <1>5, <2>1, ActivePlanFacts
  <2>3. \A x \in RecordsTo(t) : x.ref \in Nat /\ x.by \in 0..t
    BY DEF RecordsTo
  <2> QED BY <2>1, <2>2, <2>3
<1>7. CASE plan # None /\ plan.ref < Len(PlanActions) /\ FollowPlan(d, plan)
  <2>1. PICK act : act = PlanActions[plan.ref + 1]
    OBVIOUS
  <2>2. act \in Acts
    BY <1>6, <1>7, <2>1, BoundsAssumption
  <2>3. PICK word, pc : /\ word = (IF plan.ref + 1 = Len(PlanActions) THEN "completed" ELSE "open")
                        /\ pc = (IF Ends(act) THEN "cache" ELSE "between")
    OBVIOUS
  <2>4. PICK r : r = Rec("plan", plan.by, plan.ref + 1, word)
    OBVIOUS
  <2>5. r \in RecordsTo(t)
    <3>1. word \in Words /\ plan.ref + 1 \in Nat
      BY <1>6, <1>7, <2>3 DEF Words
    <3> QED BY <1>2, <1>6, <1>7, <2>4, <3>1, RecIsTyped DEF Kinds
  <2>6. run' = [run EXCEPT ![d] = [run[d] EXCEPT !.pc = pc,
                  !.todo = <<Do(r, TRUE, FALSE)>> \o Carried(act, by, n)]]
    BY <1>1, <1>7, <2>1, <2>3, <2>4, Zenon DEF FollowPlan
  <2> QED BY <1>4, <2>2, <2>3, <2>5, <2>6
<1>8. CASE AskProvider(d)
  <2>1. PICK act \in deploy.acts :
          run' = [run EXCEPT ![d] = [run[d] EXCEPT
                    !.pc = IF Ends(act) THEN "cache" ELSE "between",
                    !.todo = <<Hard(Rec("decision", run[d].by, run[d].n + 1, act))>>
                             \o Carried(act, run[d].by, run[d].n + 1)]]
    BY <1>8, Zenon DEF AskProvider
  <2>2. act \in Acts
    BY <1>2
  <2>3. PICK r, pc : /\ r = Rec("decision", by, n, act)
                     /\ pc = (IF Ends(act) THEN "cache" ELSE "between")
    OBVIOUS
  <2>4. r \in RecordsTo(t)
    <3>1. Acts \subseteq Words
      BY DEF Acts, Words
    <3> QED BY <1>2, <2>2, <2>3, <3>1, RecIsTyped DEF Kinds
  <2>5. run' = [run EXCEPT ![d] = [run[d] EXCEPT !.pc = pc,
                  !.todo = <<Do(r, FALSE, TRUE)>> \o Carried(act, by, n)]]
    BY <1>1, <2>1, <2>3, Zenon DEF Hard
  <2> QED BY <1>4, <2>2, <2>3, <2>4, <2>5
<1>9. CASE run' = [run EXCEPT ![d] = [run[d] EXCEPT
                     !.pc = "cache", !.todo = Finish(run[d].by, "MaxSteps", 0)]]
  <2>1. PICK todo : todo = Finish(by, "MaxSteps", 0)
    OBVIOUS
  <2>2. todo \in Seq(DuesTo(t))
    BY <1>2, <2>1, FinishIsTyped DEF Words
  <2>3. PICK f : f = [run[d] EXCEPT !.pc = "cache", !.todo = todo]
    OBVIOUS
  <2>4. f \in FuturesTo(t)
    BY <1>2, <2>2, <2>3 DEF FuturesTo, Pcs
  <2>5. run' = [run EXCEPT ![d] = f]
    BY <1>1, <1>9, <2>1, <2>3, Zenon
  <2> QED BY <1>1, <1>3, <2>4, <2>5, GoingIsTyped
<1> QED BY <1>5, <1>7, <1>8, <1>9, Zenon DEF Step

LEMMA ContinueIsTyped ==
  ASSUME Numbered, Typed, NEW d \in Drivers, Continue(d)
  PROVE  Typed'
<1>1. PICK t, s : t = triggers /\ s = Loaded
  OBVIOUS
<1>2. t \in Nat /\ run[d] \in FuturesTo(t) /\ s \in Seq(RecordsTo(t))
  BY <1>1, LoadedIsTyped DEF Typed
<1>3. UNCHANGED <<rows, cache, triggers, watcher>>
  BY DEF Continue
<1>4. PICK tail : tail = SinceOutcome(s)
  OBVIOUS
<1>5. PICK at : at = {i \in DOMAIN tail : tail[i].kind = "trigger"}
  OBVIOUS
<1>6. PICK by, g, n : by = tail[Min(at)].by /\ g = ActiveGraph(s) /\ n = StepCount(s)
  OBVIOUS
<1>7. n \in Nat /\ (g # None => g.ref \in Nat)
  BY <1>2, <1>6, StepCountIsTyped, ActiveGraphIsTyped
<1>8. at # {} => by \in 0..t
  <2>1. tail \in Seq(RecordsTo(t))
    BY <1>2, <1>4, SinceOutcomeIsTyped
  <2>2. at \in SUBSET Nat /\ \A i \in at : tail[i] \in RecordsTo(t)
    BY <1>5, <2>1
  <2>3. at # {} => Min(at) \in at
    BY <2>2, MinIsIn
  <2>4. \A x \in RecordsTo(t) : x.by \in 0..t
    BY DEF RecordsTo
  <2> QED BY <1>6, <2>2, <2>3, <2>4
<1>9. PICK rest : rest = IF g = None THEN << >>
                         ELSE <<Aside(Rec("joined", by, g.ref, "")),
                                Hard(Rec("result", by, g.ref, "ok"))>>
  OBVIOUS
<1>10. at # {} => rest \in Seq(DuesTo(t))
  <2>1. CASE g = None
    BY <1>9, <2>1
  <2>2. CASE g # None /\ at # {}
    <3>1. "joined" \in Kinds /\ "result" \in Kinds /\ "" \in Words /\ "ok" \in Words
      BY DEF Kinds, Words
    <3>2. /\ Rec("joined", by, g.ref, "") \in RecordsTo(t)
          /\ Rec("result", by, g.ref, "ok") \in RecordsTo(t)
      BY <1>2, <1>7, <1>8, <2>2, <3>1, RecIsTyped
    <3> QED BY <1>2, <1>9, <2>2, <3>2, DoIsTyped, TwoTyped
  <2> QED BY <2>1, <2>2
<1>11. PICK f : f = [run[d] EXCEPT !.pc = "step", !.by = by, !.ctx = s, !.todo = rest, !.n = n]
  OBVIOUS
<1>12. at # {} => f \in FuturesTo(t)
  BY <1>2, <1>7, <1>8, <1>10, <1>11 DEF FuturesTo, Pcs
<1>13. \/ run' = [run EXCEPT ![d] = Idle]
       \/ at # {} /\ run' = [run EXCEPT ![d] = f]
  <2>1. \/ run' = [run EXCEPT ![d] = Idle]
        \/ at # {} /\ run' = [run EXCEPT ![d] = [run[d] EXCEPT
                                !.pc = "step", !.by = tail[Min(at)].by, !.ctx = s,
                                !.todo = IF ActiveGraph(s) = None THEN << >>
                                         ELSE <<Aside(Rec("joined", tail[Min(at)].by,
                                                          ActiveGraph(s).ref, "")),
                                                Hard(Rec("result", tail[Min(at)].by,
                                                         ActiveGraph(s).ref, "ok"))>>,
                                !.n = StepCount(s)]]
    BY <1>1, <1>4, <1>5, ZenonT(60) DEF Continue
  <2> QED BY <1>6, <1>9, <1>11, <2>1, Zenon
<1> QED BY <1>1, <1>2, <1>3, <1>12, <1>13, IdleIsTyped, GoingIsTyped

LEMMA ReportIsTyped ==
  ASSUME Numbered, Typed, Report
  PROVE  Typed'
<1>1. PICK t : t = triggers
  OBVIOUS
<1>2. t \in Nat /\ rows \in Seq(RowsTo(t)) /\ Loaded \in Seq(RecordsTo(t)) /\ numbers + 1 \in Nat
  BY <1>1, LoadedIsTyped DEF Typed, Numbered
<1>3. PICK n \in DOMAIN AgentState(Loaded).tasks :
        rows' = Append(rows, [seq |-> numbers + 1, rec |-> Rec("report", 0, n, "Done")])
  BY DEF Report
<1>4. n \in Nat
  BY <1>2, TypedState DEF StateOK
<1>5. PICK row : row = [seq |-> numbers + 1, rec |-> Rec("report", 0, n, "Done")]
  OBVIOUS
<1>6. row \in RowsTo(t)
  <2>1. Rec("report", 0, n, "Done") \in RecordsTo(t)
    <3>1. "report" \in Kinds /\ "Done" \in Words /\ 0 \in 0..t
      BY <1>2 DEF Kinds, Words
    <3> QED BY <1>2, <1>4, <3>1, RecIsTyped
  <2> QED BY <1>2, <1>5, <2>1 DEF RowsTo
<1>7. /\ rows' \in Seq(RowsTo(t)) /\ DOMAIN rows \subseteq DOMAIN rows'
      /\ \A i \in DOMAIN rows : rows'[i] = rows[i]
  BY <1>2, <1>3, <1>5, <1>6
<1>8. Visible \subseteq Visible'
  BY <1>7 DEF Visible
<1>9. UNCHANGED <<cache, run, triggers, watcher>>
  BY DEF Report
<1> QED BY <1>1, <1>7, <1>8, <1>9 DEF Typed

LEMMA WatchersAreTyped ==
  ASSUME Numbered, Typed, Poll \/ ReadPage
  PROVE  Typed'
<1>1. UNCHANGED <<rows, cache, run, triggers>>
  BY DEF Poll, ReadPage
<1>2. Visible' = Visible
  BY <1>1 DEF Visible
<1>3. CASE Poll
  <2>1. watcher'.sent = Visible \/ watcher'.sent = watcher.sent
    BY <1>3 DEF Poll
  <2> QED BY <1>1, <1>2, <2>1 DEF Typed
<1>4. CASE ReadPage
  <2>1. watcher'.sent \subseteq watcher.sent \cup Page(watcher.offset).got
    BY <1>4 DEF ReadPage
  <2>2. Page(watcher.offset).got \subseteq Visible
    <3>1. \A k \in DOMAIN rows : \E i \in DOMAIN rows : Queried[k] = rows[i]
      BY QueriedFacts, RowsAreIndexed
    <3>2. \A k \in DOMAIN rows : Queried[k].seq \in Visible
      BY <3>1 DEF Visible
    <3> QED BY <3>2 DEF Page
  <2> QED BY <1>1, <1>2, <2>1, <2>2 DEF Typed
<1> QED BY <1>3, <1>4

LEMMA NextIsTyped ==
  ASSUME Numbered, Held, Typed, [Next]_vars
  PROVE  Typed'
<1>1. ASSUME NEW d \in Drivers, Advance(d)
      PROVE  Typed'
  BY <1>1, NumberIsTyped, PushIsTyped, AppendFailsIsTyped, DropIsTyped, DeliverIsTyped,
     ReadIsTyped, RefreshIsTyped, ReloadIsTyped, ResolveIsTyped, StepIsTyped, CacheIsTyped,
     ContinueIsTyped DEF Advance
<1>2. CASE UNCHANGED vars
  BY <1>2 DEF vars, Typed, Visible
<1> QED BY <1>1, <1>2, ReportIsTyped, WatchersAreTyped DEF Next

LEMMA InitIsTyped == Init => Typed
<1> SUFFICES ASSUME Init PROVE Typed
  OBVIOUS
<1>1. rows = << >> /\ cache = << >> /\ triggers = 0 /\ watcher.sent = {}
      /\ \A d \in Drivers : run[d] = Idle
  BY DEF Init
<1>2. \A S : << >> \in Seq(S)
  OBVIOUS
<1> QED BY <1>1, <1>2, IdleIsTyped DEF Typed

LEMMA RecordsAreRecords ==
  ASSUME NEW t \in Nat, NEW r \in RecordsTo(t)
  PROVE  IsRecord(r)
BY DEF RecordsTo, IsRecord

LEMMA TypedMeansTypeOK ==
  ASSUME WatchInv, Held, Typed
  PROVE  TypeOK
<1>1. PICK t : t = triggers
  OBVIOUS
<1>2. t \in Nat
  BY <1>1 DEF Typed
<1>3. \A i \in DOMAIN rows : IsRecord(rows[i].rec)
  <2>1. \A x \in RowsTo(t) : IsRecord(x.rec)
    BY <1>2, RecordsAreRecords DEF RowsTo
  <2>2. rows \in Seq(RowsTo(t))
    BY <1>1 DEF Typed
  <2> QED BY <2>1, <2>2
<1>4. \A i \in DOMAIN cache : IsRecord(cache[i])
  <2>1. cache \in Seq(RecordsTo(t))
    BY <1>1 DEF Typed
  <2> QED BY <1>2, <2>1, RecordsAreRecords
<1>5. \A d \in Drivers : run[d].pc \in Pcs /\ run[d].by \in 0..triggers
  BY DEF Typed, FuturesTo
<1>6. /\ deploy \in Deployments
      /\ \A i \in DOMAIN rows : rows[i].seq \in 1..numbers
      /\ \A i, j \in DOMAIN rows : rows[i].seq = rows[j].seq => i = j
      /\ deploy.store = "sqlite" => Ordered
      /\ \A d \in Drivers : /\ run[d].seq \in 0..numbers
                            /\ run[d].seq # 0 => run[d].todo # << >> /\ run[d].seq \notin Visible
  BY DEF WatchInv, Numbered, Held
<1>7. watcher.sent \subseteq Visible /\ watcher.start \subseteq Visible
  BY DEF Typed, WatchInv, Watching
<1> QED BY <1>3, <1>4, <1>5, <1>6, <1>7 DEF TypeOK, Pcs

\* Types: every record, of the ledger, of the projection or still to be appended, is one
\* of the kinds there are, by a trigger that was delivered; a number is given to one row or
\* to one advance that has an append to do; and clients have what is shown.
\* (engine.rs:253, memory.rs:353)
THEOREM TypesAreKept == Spec => []TypeOK
<1> DEFINE Inv == WatchInv /\ Held /\ Typed
<1>1. Init => Inv
  <2> SUFFICES ASSUME Init PROVE Inv
    OBVIOUS
  <2>1. Held
    BY DEF Init, Held, Idle
  <2> QED BY <2>1, InitWatch, InitIsTyped
<1>2. Inv /\ [Next]_vars => Inv'
  BY NextKeepsWatch, NextKeepsHeld, NextIsTyped DEF WatchInv
<1>3. Inv => TypeOK
  BY TypedMeansTypeOK
<1> QED BY <1>1, <1>2, <1>3, PTL DEF Spec

-----------------------------------------------------------------------------
(* The numbers of tasks. *)

Taken == {r.ref : r \in {x \in Shown : x.kind = "task"}}
\* Where the tasks are that advance f has still to append.
DueTasks(f) == {p \in DOMAIN f.todo : f.todo[p].rec.kind = "task"}

\* The task x at position p is the next that is neither shown nor before it in the list,
\* but for what advances show that f has overlapped.
NumberFits(f, p, x) ==
  /\ x.by = f.by /\ x.ref \in Nat \ {0}
  /\ \A k \in 1..(x.ref - 1) :
       k \in Taken \/ \E q \in DueTasks(f) : q < p /\ f.todo[q].rec.ref = k
  /\ \A q \in DueTasks(f) : f.todo[q].rec.ref = x.ref => q = p
  /\ \A r \in Shown : r.kind = "task" /\ r.ref = x.ref => {r.by, f.by} \in met
Numbering(f) == \A p \in DueTasks(f) : NumberFits(f, p, f.todo[p].rec)

Clashing(a, b) == a.kind = "task" /\ b.kind = "task" /\ a.ref = b.ref

\* Numbers are taken from 1, and twice by advances that overlapped.
TasksInv ==
  /\ \A n \in Taken : n \in Nat \ {0} /\ \A k \in 1..n : k \in Taken
  /\ \A d \in Drivers : Numbering(run[d])
  /\ \A i, j \in DOMAIN rows :
       i # j /\ Clashing(rows[i].rec, rows[j].rec) => {rows[i].rec.by, rows[j].rec.by} \in met

\* Advances in flight together have met.
BusyMet == \A d, e \in Busy : d # e => {run[d].by, run[e].by} \in met

\* How many numbers there are, when they are taken from 1.
LEMMA TakenFromOne ==
  ASSUME NEW D \in SUBSET (Nat \ {0}), IsFiniteSet(D), \A n \in D : \A k \in 1..n : k \in D
  PROVE  \A k \in Nat \ {0} : k \in D <=> k <= Cardinality(D)
<1>1. PICK c : c = Cardinality(D)
  OBVIOUS
<1>2. c \in Nat
  BY <1>1, FS_CardinalityType
<1> DEFINE Free == {k \in 1..(c + 1) : k \notin D}
<1>3. Free # {}
  <2>1. SUFFICES ASSUME Free = {} PROVE FALSE
    OBVIOUS
  <2>2. 1..(c + 1) \in SUBSET D
    BY <2>1
  <2>3. Cardinality(1..(c + 1)) <= c
    BY <1>1, <2>2, FS_Subset
  <2>4. Cardinality(1..(c + 1)) = c + 1
    <3>1. c + 1 \in Nat /\ c + 1 \in Int /\ 1 \in Int /\ ~(1 > c + 1) /\ (c + 1) - 1 + 1 = c + 1
      BY <1>2
    <3>2. PICK m : m = c + 1
      OBVIOUS
    <3>3. m \in Int /\ ~(1 > m) /\ m - 1 + 1 = m
      BY <3>1, <3>2
    <3>4. Cardinality(1..m) = m
      BY <3>3, FS_Interval
    <3> QED BY <3>2, <3>4
  <2> QED BY <1>2, <2>3, <2>4
<1>4. PICK k \in Free : \A j \in Free : k <= j
  <2>1. Free \in SUBSET Nat
    BY <1>2
  <2> HIDE DEF Free
  <2> QED BY <1>3, <2>1, LeastExists
<1>5. PICK m : m = k - 1
  OBVIOUS
<1>6. m \in Nat /\ k = m + 1 /\ k \notin D /\ k \in Nat
  BY <1>2, <1>4, <1>5
<1>7. D = 1..m
  <2>1. \A j \in 1..m : j \in D
    BY <1>2, <1>4, <1>6
  <2>2. ASSUME NEW n \in D, n > m PROVE FALSE
    <3>1. n \in Nat /\ k \in 1..n
      BY <1>6, <2>2
    <3> QED BY <1>6, <3>1
  <2>3. \A n \in D : n \in Nat /\ n >= 1
    OBVIOUS
  <2>4. \A n \in D : n \in 1..m
    BY <1>6, <2>2, <2>3
  <2> QED BY <2>1, <2>4
<1>8. c = m
  <2>1. Cardinality(1..m) = m
    <3>1. m \in Int /\ 1 \in Int /\ (1 > m => m = 0) /\ m - 1 + 1 = m
      BY <1>6
    <3>2. Cardinality(1..m) = IF 1 > m THEN 0 ELSE m - 1 + 1
      BY <3>1, FS_Interval
    <3> QED BY <3>1, <3>2
  <2> QED BY <1>1, <1>7, <2>1
<1> QED BY <1>1, <1>6, <1>7, <1>8

LEMMA TakenFacts ==
  ASSUME Numbered, Typed, TasksInv, NEW c, c = Cardinality(DOMAIN AgentState(Loaded).tasks)
  PROVE  /\ c \in Nat /\ \A k \in Nat \ {0} : k \in Taken <=> k <= c
         /\ \A n \in Nat : NextTask(AgentState(Loaded), n) = c + n
<1>1. PICK t, s : t = triggers /\ s = Loaded
  OBVIOUS
<1>2. t \in Nat /\ s \in Seq(RecordsTo(t))
  BY <1>1, LoadedIsTyped DEF Typed
<1>3. PICK D : D = DOMAIN AgentState(s).tasks
  OBVIOUS
<1>4. D = TaskNumbers(s) /\ IsFiniteSet(D)
  BY <1>2, <1>3, TypedState DEF StateOK
<1>5. TaskNumbers(s) = Taken
  BY <1>1, LoadedFacts DEF TaskNumbers, Taken
<1>6. D \in SUBSET (Nat \ {0}) /\ \A n \in D : \A k \in 1..n : k \in D
  BY <1>4, <1>5 DEF TasksInv
<1>7. \A k \in Nat \ {0} : k \in D <=> k <= Cardinality(D)
  BY <1>4, <1>6, TakenFromOne
<1>8. c = Cardinality(D) /\ c \in Nat
  BY <1>1, <1>3, <1>4, FS_CardinalityType
<1>9. \A n \in Nat : NextTask(AgentState(Loaded), n) = c + n
  BY Zenon DEF NextTask
<1> QED BY <1>4, <1>5, <1>7, <1>8, <1>9

-----------------------------------------------------------------------------
(* What planners number. *)

TasksIn(out) == {p \in DOMAIN out : out[p].kind = "task"}

\* Tasks of trigger t, numbered from c + 1.
NumbersFrom(out, t, c) ==
  \A p \in TasksIn(out) :
    /\ out[p].by = t /\ out[p].ref \in Nat /\ out[p].ref > c
    /\ \A k \in (c + 1)..(out[p].ref - 1) : \E q \in TasksIn(out) : q < p /\ out[q].ref = k
    /\ \A q \in TasksIn(out) : out[q].ref = out[p].ref => q = p

LEMMA NoneNumbers ==
  ASSUME NEW out, NEW t, NEW c, TasksIn(out) = {}
  PROVE  NumbersFrom(out, t, c)
BY DEF NumbersFrom

LEMMA MinimalNumbers ==
  ASSUME NEW state, NEW t, NEW kind, NEW c \in Nat, NextTask(state, 1) = c + 1
  PROVE  NumbersFrom(MinimalPlan(state, t, kind), t, c)
<1>1. PICK a, b, w : /\ a = Rec("goal", t, Cardinality(state.goals) + 1, "Active")
                     /\ b = Rec("task", t, NextTask(state, 1), "Ready")
                     /\ w = Rec("wakeset", t, t, "follow up")
  OBVIOUS
<1>2. /\ a.kind = "goal" /\ w.kind = "wakeset"
      /\ b.kind = "task" /\ b.by = t /\ b.ref = c + 1
  BY <1>1 DEF Rec
<1>3. PICK new : new = <<a, b, w>>
  OBVIOUS
<1>4. DOMAIN new = {1, 2, 3} /\ new[1] = a /\ new[2] = b /\ new[3] = w
  BY <1>3
<1>5. TasksIn(new) = {2} /\ new[2] = b
  BY <1>2, <1>4 DEF TasksIn
<1>6. NumbersFrom(new, t, c)
  <2>1. c + 1 \in Nat /\ c + 1 > c /\ (c + 1)..(c + 1 - 1) = {}
    OBVIOUS
  <2> QED BY <1>2, <1>5, <2>1 DEF NumbersFrom
<1>7. \A n : TasksIn(<<Rec("claim", t, n, "")>>) = {}
  <2>1. \A n : Rec("claim", t, n, "").kind = "claim"
    BY DEF Rec
  <2>2. \A x : DOMAIN <<x>> = {1} /\ <<x>>[1] = x
    OBVIOUS
  <2> QED BY <2>1, <2>2 DEF TasksIn
<1>8. TasksIn(<< >>) = {}
  BY DEF TasksIn
<1>9. \/ MinimalPlan(state, t, kind) = new
      \/ \E n : MinimalPlan(state, t, kind) = <<Rec("claim", t, n, "")>>
      \/ MinimalPlan(state, t, kind) = << >>
  BY <1>1, <1>3, Zenon DEF MinimalPlan
<1> QED BY <1>6, <1>7, <1>8, <1>9, NoneNumbers

LEMMA ResearchNumbers ==
  ASSUME NEW state, NEW t, NEW kind, NEW answer, Listed(answer),
         NEW c \in Nat, \A n \in Nat : NextTask(state, n) = c + n
  PROVE  NumbersFrom(ResearchPlan(state, t, kind, answer), t, c)
<1>1. PICK m : m = Len(answer)
  OBVIOUS
<1>2. m \in Nat /\ DOMAIN answer = 1..m
  BY <1>1, ListedFacts
<1>3. PICK tasks : tasks = [i \in DOMAIN answer |->
                              Rec("task", t, NextTask(state, i),
                                  IF \E j \in answer[i] : j <= i THEN "Blocked" ELSE "Ready")]
  OBVIOUS
<1>4. \A i \in 1..m : tasks[i].kind = "task" /\ tasks[i].by = t /\ tasks[i].ref = c + i
  BY <1>2, <1>3 DEF Rec
<1>5. PICK goal : goal = Rec("goal", t, Cardinality(state.goals) + 1, "Active")
  OBVIOUS
<1>6. goal.kind = "goal"
  BY <1>5 DEF Rec
<1>7. PICK out : out = <<goal>> \o tasks
  OBVIOUS
<1>8. DOMAIN out = 1..(m + 1) /\ out[1] = goal /\ \A i \in 1..m : out[i + 1] = tasks[i]
  <2>1. PICK S : S = {goal} \cup {tasks[i] : i \in 1..m}
    OBVIOUS
  <2>2. PICK one : one = <<goal>>
    OBVIOUS
  <2>3. one \in Seq(S) /\ Len(one) = 1 /\ one[1] = goal
    BY <2>1, <2>2
  <2>4. DOMAIN tasks = 1..m /\ tasks = [i \in 1..m |-> tasks[i]]
    BY <1>2, <1>3
  <2>5. tasks \in Seq(S) /\ Len(tasks) = m
    BY <1>2, <2>1, <2>4
  <2>6. out = one \o tasks
    BY <1>7, <2>2
  <2>7. one \in Seq(S) /\ tasks \in Seq(S)
    BY <2>3, <2>5
  <2>8. /\ (one \o tasks) \in Seq(S) /\ Len(one \o tasks) = Len(one) + Len(tasks)
        /\ \A i \in 1..Len(one) : (one \o tasks)[i] = one[i]
        /\ \A i \in 1..Len(tasks) : (one \o tasks)[Len(one) + i] = tasks[i]
    BY <2>7
  <2>9. out \in Seq(S) /\ Len(out) = 1 + m /\ \A i \in 1..m : out[1 + i] = tasks[i]
    BY <2>3, <2>5, <2>6, <2>8
  <2>10. out[1] = goal
    BY <2>3, <2>6, <2>8
  <2>11. \A i \in 1..m : out[i + 1] = tasks[i]
    <3>1. TAKE i \in 1..m
    <3>2. PICK j : j = 1 + i
      OBVIOUS
    <3>3. out[j] = tasks[i] /\ j = i + 1
      BY <1>2, <2>9, <3>2
    <3> QED BY <3>3
  <2>12. DOMAIN out = 1..(m + 1)
    BY <1>2, <2>9
  <2> QED BY <2>10, <2>11, <2>12
<1>9. \A p \in TasksIn(out) :
        p \in Nat /\ p - 1 \in 1..m /\ out[p].by = t /\ out[p].ref = c + (p - 1)
  <2>1. TAKE p \in TasksIn(out)
  <2>2. p \in 1..(m + 1) /\ p # 1
    BY <1>6, <1>8 DEF TasksIn
  <2>3. PICK i : i = p - 1
    OBVIOUS
  <2>4. i \in 1..m /\ p = i + 1 /\ p \in Nat
    BY <1>2, <2>2, <2>3
  <2>5. out[p] = tasks[i]
    BY <1>8, <2>4
  <2> QED BY <1>4, <2>3, <2>4, <2>5
<1>10. \A i \in 1..m : i + 1 \in TasksIn(out) /\ out[i + 1].ref = c + i
  <2>1. TAKE i \in 1..m
  <2>2. PICK p : p = i + 1
    OBVIOUS
  <2>3. p \in 1..(m + 1)
    BY <1>2, <2>2
  <2>4. out[p] = tasks[i]
    BY <1>8, <2>2
  <2> QED BY <1>4, <1>8, <2>2, <2>3, <2>4 DEF TasksIn
<1>11. NumbersFrom(out, t, c)
  <2>1. SUFFICES ASSUME NEW p \in TasksIn(out)
                 PROVE  /\ out[p].by = t /\ out[p].ref \in Nat /\ out[p].ref > c
                        /\ \A k \in (c + 1)..(out[p].ref - 1) :
                             \E q \in TasksIn(out) : q < p /\ out[q].ref = k
                        /\ \A q \in TasksIn(out) : out[q].ref = out[p].ref => q = p
    BY DEF NumbersFrom
  <2>2. p \in Nat /\ p - 1 \in 1..m /\ out[p].by = t /\ out[p].ref = c + (p - 1)
    BY <1>9
  <2>3. ASSUME NEW k \in (c + 1)..(out[p].ref - 1)
        PROVE  \E q \in TasksIn(out) : q < p /\ out[q].ref = k
    <3>1. PICK i : i = k - c
      OBVIOUS
    <3>2. i \in 1..m /\ i + 1 < p /\ k = c + i
      BY <1>2, <2>2, <2>3, <3>1
    <3> QED BY <1>10, <3>2
  <2>4. \A q \in TasksIn(out) : out[q].ref = out[p].ref => q = p
    <3>1. TAKE q \in TasksIn(out)
    <3>2. q \in Nat /\ out[q].ref = c + (q - 1)
      BY <1>9
    <3> QED BY <2>2, <3>2
  <2> QED BY <1>2, <2>2, <2>3, <2>4
<1>12. TasksIn(<< >>) = {}
  BY DEF TasksIn
<1>13. ResearchPlan(state, t, kind, answer) = out \/ ResearchPlan(state, t, kind, answer) = << >>
  BY <1>3, <1>5, <1>7, Zenon DEF ResearchPlan
<1> QED BY <1>11, <1>12, <1>13, NoneNumbers

LEMMA PlannersNumber ==
  ASSUME deploy \in Deployments, NEW s, NEW r, NEW out \in Proposals(s, r),
         NEW c \in Nat, \A n \in Nat : NextTask(AgentState(s), n) = c + n
  PROVE  NumbersFrom(out, r.by, c)
<1>1. deploy.planner \in {"none", "minimal", "research", "proposing"}
  BY DeploymentsAssumption
<1>2. TasksIn(<< >>) = {}
  BY DEF TasksIn
<1>3. CASE deploy.planner = "none"
  BY <1>2, <1>3, NoneNumbers DEF Proposals
<1>4. CASE deploy.planner = "minimal"
  <2>1. out = MinimalPlan(AgentState(s), r.by, r.kind)
    BY <1>4 DEF Proposals
  <2> QED BY <2>1, MinimalNumbers
<1>5. CASE deploy.planner = "research"
  <2>1. \A a \in Answers \cup {<< >>} : Listed(a)
    BY BoundsAssumption, NoneFacts DEF Listed
  <2>2. PICK a \in Answers \cup {<< >>} : out = ResearchPlan(AgentState(s), r.by, r.kind, a)
    BY <1>5 DEF Proposals
  <2> QED BY <2>1, <2>2, ResearchNumbers
<1>6. CASE deploy.planner = "proposing"
  <2>1. Rec("plan", r.by, 0, "open").kind = "plan"
    BY DEF Rec
  <2>2. \A x : DOMAIN <<x>> = {1} /\ <<x>>[1] = x
    OBVIOUS
  <2>3. TasksIn(<<Rec("plan", r.by, 0, "open")>>) = {}
    BY <2>1, <2>2 DEF TasksIn
  <2> QED BY <1>2, <1>6, <2>3, NoneNumbers DEF Proposals
<1> QED BY <1>1, <1>3, <1>4, <1>5, <1>6

-----------------------------------------------------------------------------
(* The steps that show nothing. *)

LEMMA PlainHasNoTasks ==
  ASSUME NEW f, Plain(f.todo)
  PROVE  DueTasks(f) = {}
BY DEF Plain, DueTasks, ToSet

\* What was met stays met, and the numbers of what is to be appended stay right.
LEMMA MetGrows ==
  ASSUME UNCHANGED rows, met \subseteq met', NEW f, Numbering(f)
  PROVE  Numbering(f)'
<1>1. Shown' = Shown /\ Taken' = Taken
  BY DEF Shown, Taken
<1> QED BY <1>1 DEF Numbering, NumberFits, DueTasks

LEMMA TasksGoing ==
  ASSUME Numbered, TasksInv, NEW d \in Drivers, NEW f, run' = [run EXCEPT ![d] = f],
         UNCHANGED rows, met \subseteq met', Numbering(f)'
  PROVE  TasksInv'
<1>1. Shown' = Shown /\ Taken' = Taken
  BY DEF Shown, Taken
<1>2. run'[d] = f /\ \A e \in Drivers \ {d} : run'[e] = run[e]
  BY DEF Numbered
<1>3. \A e \in Drivers : Numbering(run[e])'
  <2>1. TAKE e \in Drivers
  <2>2. CASE e = d
    BY <1>2, <2>2 DEF Numbering, NumberFits, DueTasks
  <2>3. CASE e # d
    <3>1. Numbering(run[e])
      BY DEF TasksInv
    <3>2. PICK g : g = run[e]
      OBVIOUS
    <3>3. run'[e] = g
      BY <1>2, <2>3, <3>2
    <3>4. Numbering(g)'
      BY <3>1, <3>2, MetGrows
    <3> QED BY <3>3, <3>4, SMTT(30) DEF Numbering, NumberFits, DueTasks
  <2> QED BY <2>2, <2>3
<1> QED BY <1>1, <1>3 DEF TasksInv

\* An advance goes on with no task to append, and has met the others.
GoesOn(d, f) ==
  /\ run' = [run EXCEPT ![d] = f] /\ DueTasks(f) = {} /\ UNCHANGED rows /\ met \subseteq met'
  /\ f.pc # "idle" => \A e \in Busy \ {d} : {f.by, run[e].by} \in met'

LEMMA GoingOnKeepsTasks ==
  ASSUME Numbered, TasksInv, NEW d \in Drivers, NEW f, GoesOn(d, f)
  PROVE  TasksInv'
<1>1. Numbering(f)'
  BY DEF GoesOn, Numbering, DueTasks
<1> QED BY <1>1, TasksGoing DEF GoesOn

LEMMA PairsAreSets == \A a, b : {a, b} = {b, a}
OBVIOUS

LEMMA GoingKeepsMet ==
  ASSUME Numbered, BusyMet, NEW d \in Drivers, NEW f, run' = [run EXCEPT ![d] = f],
         met \subseteq met', f.pc # "idle" => \A e \in Busy \ {d} : {f.by, run[e].by} \in met'
  PROVE  BusyMet'
<1>1. run'[d] = f /\ \A e \in Drivers \ {d} : run'[e] = run[e]
  BY DEF Numbered
<1>2. SUFFICES ASSUME NEW e \in Busy', NEW g \in Busy', e # g
               PROVE  {run'[e].by, run'[g].by} \in met'
  BY DEF BusyMet
<1>3. e \in Drivers /\ g \in Drivers /\ run'[e].pc # "idle" /\ run'[g].pc # "idle"
  BY DEF Busy
<1>4. CASE e # d /\ g # d
  <2>1. e \in Busy /\ g \in Busy /\ run'[e] = run[e] /\ run'[g] = run[g]
    BY <1>1, <1>3, <1>4 DEF Busy
  <2> QED BY <1>2, <2>1 DEF BusyMet
<1>5. CASE e = d
  <2>1. g \in Busy \ {d} /\ run'[g] = run[g]
    BY <1>1, <1>2, <1>3, <1>5 DEF Busy
  <2> QED BY <1>1, <1>3, <1>5, <2>1
<1>6. CASE g = d
  <2>1. e \in Busy \ {d} /\ run'[e] = run[e]
    BY <1>1, <1>2, <1>3, <1>6 DEF Busy
  <2>2. {f.by, run[e].by} \in met'
    BY <1>1, <1>3, <1>6, <2>1
  <2> QED BY <1>1, <1>6, <2>1, <2>2, PairsAreSets
<1> QED BY <1>4, <1>5, <1>6

\* An advance that goes on with its trigger has met those it had met.
LEMMA SameTriggerMet ==
  ASSUME Numbered, BusyMet, NEW d \in Drivers, run[d].pc # "idle", NEW f, f.by = run[d].by,
         met \subseteq met'
  PROVE  \A e \in Busy \ {d} : {f.by, run[e].by} \in met'
<1>1. d \in Busy
  BY DEF Busy
<1> QED BY <1>1 DEF BusyMet

LEMMA GoesOnWith ==
  ASSUME Numbered, BusyMet, NEW d \in Drivers, run[d].pc # "idle", NEW f,
         run' = [run EXCEPT ![d] = f], UNCHANGED <<rows, met>>, f.by = run[d].by, Plain(f.todo)
  PROVE  GoesOn(d, f)
BY SameTriggerMet, PlainHasNoTasks DEF GoesOn

LEMMA GoesIdle ==
  ASSUME NEW d \in Drivers, run' = [run EXCEPT ![d] = Idle], UNCHANGED <<rows, met>>
  PROVE  GoesOn(d, Idle)
<1>1. Plain(Idle.todo) /\ Idle.pc = "idle"
  BY PlainFacts DEF Idle
<1> QED BY <1>1, PlainHasNoTasks DEF GoesOn

LEMMA PlannedGoesOn ==
  ASSUME Numbered, BusyMet, NEW d \in Drivers, run[d].pc # "idle", NEW s, NEW f,
         f \in Planned(run[d], s) \cup {Observing(run[d], s)},
         run' = [run EXCEPT ![d] = f], UNCHANGED <<rows, met>>
  PROVE  GoesOn(d, f)
<1>1. DOMAIN run[d] = Fields
  BY DEF Numbered
<1>2. CASE f = Observing(run[d], s)
  <2>1. f.by = run[d].by /\ f.todo = TriggerEvents(run[d])
    BY <1>1, <1>2 DEF Observing, Fields
  <2> QED BY <2>1, TriggerEventsArePlain, GoesOnWith
<1>3. CASE f # Observing(run[d], s)
  <2>1. PICK todo : todo = <<Do(Rec("summary", run[d].by, 0, ""), TRUE, FALSE)>>
    OBVIOUS
  <2>2. f = [run[d] EXCEPT !.ctx = s, !.pc = "summary", !.todo = todo]
    BY <1>3, <2>1 DEF Planned
  <2>3. f.by = run[d].by /\ f.todo = todo
    BY <1>1, <2>2 DEF Fields
  <2>4. Plain(todo)
    BY <2>1, OneIsPlain
  <2> QED BY <2>3, <2>4, GoesOnWith
<1> QED BY <1>2, <1>3

LEMMA DeliverGoesOn ==
  ASSUME Numbered, NEW d \in Drivers, Deliver(d)
  PROVE  \E f : GoesOn(d, f)
<1>1. PICK f, kind, ref, todo :
        /\ f = [Idle EXCEPT !.pc = "read", !.by = triggers + 1, !.kind = kind, !.ref = ref,
                            !.todo = todo]
        /\ run' = [run EXCEPT ![d] = f]
        /\ todo = <<Aside(Rec("trigger", triggers + 1, ref, kind))>>
  BY Zenon DEF Deliver
<1>2. f.by = triggers + 1 /\ f.todo = todo
  BY <1>1 DEF Idle
<1>3. Plain(todo)
  BY <1>1, OneIsPlain DEF Aside
<1>4. met' = Overlaps(d, triggers + 1) /\ UNCHANGED rows
  BY DEF Deliver
<1>5. met \subseteq met' /\ \A e \in Busy \ {d} : {f.by, run[e].by} \in met'
  BY <1>2, <1>4 DEF Overlaps
<1> QED BY <1>1, <1>2, <1>3, <1>4, <1>5, PlainHasNoTasks DEF GoesOn

LEMMA ReadGoesOn ==
  ASSUME Numbered, BusyMet, NEW d \in Drivers, Read(d)
  PROVE  \E f : GoesOn(d, f)
<1>1. DOMAIN run[d] = Fields /\ run[d].pc # "idle" /\ UNCHANGED <<rows, met>>
  BY DEF Numbered, Read, At
<1>2. \/ run' = [run EXCEPT ![d] = Idle]
      \/ \E f, s, todo : /\ f = [run[d] EXCEPT !.ctx = s, !.pc = "refresh", !.todo = todo]
                         /\ run' = [run EXCEPT ![d] = f]
                         /\ todo = <<Do(Rec("intent", run[d].by, 0, run[d].kind), TRUE, FALSE)>>
  BY Zenon DEF Read
<1>3. ASSUME NEW f, NEW s, NEW todo, run' = [run EXCEPT ![d] = f],
             f = [run[d] EXCEPT !.ctx = s, !.pc = "refresh", !.todo = todo],
             todo = <<Do(Rec("intent", run[d].by, 0, run[d].kind), TRUE, FALSE)>>
      PROVE  GoesOn(d, f)
  <2>1. f.by = run[d].by /\ f.todo = todo
    BY <1>1, <1>3 DEF Fields
  <2>2. Plain(todo)
    BY <1>3, OneIsPlain
  <2> QED BY <1>1, <1>3, <2>1, <2>2, GoesOnWith
<1> QED BY <1>1, <1>2, <1>3, GoesIdle

LEMMA ResolveGoesOn ==
  ASSUME Numbered, BusyMet, NEW d \in Drivers, Resolve(d)
  PROVE  \E f : GoesOn(d, f)
<1>1. DOMAIN run[d] = Fields /\ run[d].pc # "idle" /\ UNCHANGED <<rows, met>>
  BY DEF Numbered, Resolve, At
<1>2. \A by, ref, arg, verdict :
        /\ Plain(<<Aside(Rec("resolution", by, ref, verdict))>>)
        /\ Plain(<<Hard(Rec("result", by, ref, arg))>>)
        /\ Plain(Runs(by, ref)) /\ Plain(<< >>)
  BY OneIsPlain, RunsIsPlain, PlainFacts DEF Aside, Hard
<1>3. \A u, v : Plain(u) /\ Plain(v) => Plain(u \o v)
  BY PlainFacts
<1>4. \E f, todo, n :
        /\ Plain(todo) /\ run' = [run EXCEPT ![d] = f]
        /\ \/ f = [run[d] EXCEPT !.pc = "step", !.n = n, !.todo = todo]
           \/ f = [run[d] EXCEPT !.pc = "cache", !.todo = todo]
  <2>1. PICK f, todo, n, resolution, settle, verdict :
          /\ run' = [run EXCEPT ![d] = f]
          /\ \/ /\ f = [run[d] EXCEPT !.pc = "step", !.n = n, !.todo = todo]
                /\ todo = resolution \o settle
                /\ \/ settle = Runs(run[d].by, run[d].ref)
                   \/ settle = <<Hard(Rec("result", run[d].by, run[d].ref, "refused"))>>
                /\ \/ resolution = <<Aside(Rec("resolution", run[d].by, run[d].ref, verdict))>>
                   \/ resolution = << >>
             \/ /\ f = [run[d] EXCEPT !.pc = "cache", !.todo = todo]
                /\ todo = Finish(run[d].by, "PolicyAborted", 0)
    BY ResolveShape
  <2>2. CASE f = [run[d] EXCEPT !.pc = "cache", !.todo = todo]
             /\ todo = Finish(run[d].by, "PolicyAborted", 0)
    <3>1. Plain(todo)
      BY <2>2, FinishIsPlain
    <3> QED BY <2>1, <2>2, <3>1, Zenon
  <2>3. CASE /\ f = [run[d] EXCEPT !.pc = "step", !.n = n, !.todo = todo]
             /\ todo = resolution \o settle
             /\ \/ settle = Runs(run[d].by, run[d].ref)
                \/ settle = <<Hard(Rec("result", run[d].by, run[d].ref, "refused"))>>
             /\ \/ resolution = <<Aside(Rec("resolution", run[d].by, run[d].ref, verdict))>>
                \/ resolution = << >>
    <3>1. Plain(resolution) /\ Plain(settle)
      BY <2>3, <1>2, Zenon
    <3>2. Plain(todo)
      BY <2>3, <3>1, <1>3, Zenon
    <3> QED BY <2>1, <2>3, <3>2, Zenon
  <2> QED BY <2>1, <2>2, <2>3, Zenon
<1>5. PICK f, todo, n :
        /\ Plain(todo) /\ run' = [run EXCEPT ![d] = f]
        /\ \/ f = [run[d] EXCEPT !.pc = "step", !.n = n, !.todo = todo]
           \/ f = [run[d] EXCEPT !.pc = "cache", !.todo = todo]
  BY <1>4
<1>6. f.todo = todo /\ f.by = run[d].by
  BY <1>1, <1>5 DEF Fields
<1> QED BY <1>1, <1>5, <1>6, GoesOnWith

LEMMA ContinueGoesOn ==
  ASSUME Numbered, NEW d \in Drivers, Continue(d)
  PROVE  \E f : GoesOn(d, f)
<1>1. DOMAIN run[d] = Fields /\ UNCHANGED rows
  BY DEF Numbered, Continue
<1>2. \A t, ref : /\ Plain(<<Aside(Rec("joined", t, ref, ""))>>)
                  /\ Plain(<<Hard(Rec("result", t, ref, "ok"))>>)
  BY OneIsPlain DEF Aside, Hard
<1>3. \A t, ref : Plain(<<Aside(Rec("joined", t, ref, "")), Hard(Rec("result", t, ref, "ok"))>>)
  BY <1>2, TwoArePlain
<1>4. \/ run' = [run EXCEPT ![d] = Idle] /\ UNCHANGED met
      \/ \E f, t, n, todo :
           /\ f = [run[d] EXCEPT !.pc = "step", !.by = t, !.ctx = Loaded, !.todo = todo, !.n = n]
           /\ run' = [run EXCEPT ![d] = f] /\ Plain(todo) /\ met' = Overlaps(d, t)
  <2>1. \A t, ref, todo :
          \/ todo = << >>
          \/ todo = <<Aside(Rec("joined", t, ref, "")), Hard(Rec("result", t, ref, "ok"))>>
          => Plain(todo)
    BY <1>3, PlainFacts, Zenon
  <2> QED BY <2>1, ContinueShape, Zenon
<1>5. ASSUME NEW f, NEW t, NEW n, NEW todo, Plain(todo), run' = [run EXCEPT ![d] = f],
             f = [run[d] EXCEPT !.pc = "step", !.by = t, !.ctx = Loaded, !.todo = todo, !.n = n],
             met' = Overlaps(d, t)
      PROVE  GoesOn(d, f)
  <2>1. f.by = t /\ f.todo = todo
    BY <1>1, <1>5 DEF Fields
  <2>2. met \subseteq met' /\ \A e \in Busy \ {d} : {f.by, run[e].by} \in met'
    BY <1>5, <2>1 DEF Overlaps
  <2> QED BY <1>1, <1>5, <2>1, <2>2, PlainHasNoTasks DEF GoesOn
<1> QED BY <1>1, <1>4, <1>5, GoesIdle

\* A step is marked by the plan it follows or by the decision that was asked for.
Marks(x) == x.rec.kind \in {"plan", "decision"}

LEMMA StepKeepsTasks ==
  ASSUME Numbered, Typed, TasksInv, BusyMet, NEW d \in Drivers, Step(d)
  PROVE  TasksInv' /\ BusyMet'
<1>1. /\ DOMAIN run[d] = Fields /\ run[d].pc # "idle" /\ UNCHANGED <<rows, met>>
      /\ deploy.acts \subseteq Acts
  BY DeploymentsAssumption DEF Numbered, Step, At
<1>2. ASSUME NEW x, NEW act \in Acts, NEW by, NEW n, NEW todo, NEW pc, NEW f,
             Marks(x), todo = <<x>> \o Carried(act, by, n),
             f = [run[d] EXCEPT !.pc = pc, !.todo = todo], run' = [run EXCEPT ![d] = f]
      PROVE  TasksInv' /\ BusyMet'
  <2>1. PICK head, rest : head = <<x>> /\ rest = Carried(act, by, n) /\ todo = head \o rest
    BY <1>2
  <2>2. f.by = run[d].by /\ f.todo = todo
    BY <1>1, <1>2 DEF Fields
  <2>3. Listed(head) /\ ToSet(head) = {x} /\ Plain(rest)
    BY <2>1, OneFacts, CarriedIsPlain
  <2>4. ToSet(todo) = {x} \cup ToSet(rest)
    BY <2>1, <2>3, ConcatFacts DEF Plain
  <2>5. \A y \in ToSet(todo) : y.rec.kind # "task"
    BY <1>2, <2>3, <2>4 DEF Plain, Marks
  <2>6. DueTasks(f) = {}
    BY <2>2, <2>5 DEF DueTasks, ToSet
  <2>7. GoesOn(d, f)
    BY <1>1, <1>2, <2>2, <2>6, SameTriggerMet DEF GoesOn
  <2> QED BY <2>7, GoingOnKeepsTasks, GoingKeepsMet DEF GoesOn
<1>2a. PICK by, n : by = run[d].by /\ n = run[d].n + 1
  OBVIOUS
<1>3. PICK plan : plan = ActivePlan(run[d].ctx)
  OBVIOUS
<1>4. plan # None => plan.ref \in Nat
  <2>1. PICK t : t = triggers
    OBVIOUS
  <2>2. t \in Nat /\ run[d] \in FuturesTo(t)
    BY <2>1 DEF Typed
  <2>3. Listed(run[d].ctx) /\ \A x \in ToSet(run[d].ctx) : x \in RecordsTo(t)
    BY <2>2, SomeBy, SeqIsListed
  <2>4. plan # None => plan \in ToSet(run[d].ctx)
    BY <1>3, <2>3, ActivePlanFacts
  <2> QED BY <2>3, <2>4 DEF RecordsTo
<1>5. CASE plan # None /\ plan.ref < Len(PlanActions) /\ FollowPlan(d, plan)
  <2>1. PICK act : act = PlanActions[plan.ref + 1]
    OBVIOUS
  <2>2. act \in Acts
    BY <1>4, <1>5, <2>1, BoundsAssumption
  <2>3. PICK word, pc : /\ word = (IF plan.ref + 1 = Len(PlanActions) THEN "completed" ELSE "open")
                        /\ pc = (IF Ends(act) THEN "cache" ELSE "between")
    OBVIOUS
  <2>4. PICK x : x = Do(Rec("plan", plan.by, plan.ref + 1, word), TRUE, FALSE)
    OBVIOUS
  <2>5. Marks(x)
    BY <2>4 DEF Marks, Do, Rec
  <2>6. PICK todo : todo = <<x>> \o Carried(act, by, n)
    OBVIOUS
  <2>7. PICK f : f = [run[d] EXCEPT !.pc = pc, !.todo = todo]
    OBVIOUS
  <2>8. run' = [run EXCEPT ![d] = f]
    BY <1>2a, <1>5, <2>1, <2>3, <2>4, <2>6, <2>7, Zenon DEF FollowPlan
  <2> QED BY <1>2, <2>2, <2>5, <2>6, <2>7, <2>8
<1>6. CASE AskProvider(d)
  <2>1. PICK act \in deploy.acts :
          run' = [run EXCEPT ![d] = [run[d] EXCEPT
                    !.pc = IF Ends(act) THEN "cache" ELSE "between",
                    !.todo = <<Hard(Rec("decision", run[d].by, run[d].n + 1, act))>>
                             \o Carried(act, run[d].by, run[d].n + 1)]]
    BY <1>6, Zenon DEF AskProvider
  <2>2. act \in Acts
    BY <1>1
  <2>3. PICK x, pc : /\ x = Hard(Rec("decision", run[d].by, run[d].n + 1, act))
                     /\ pc = (IF Ends(act) THEN "cache" ELSE "between")
    OBVIOUS
  <2>4. Marks(x)
    BY <2>3 DEF Marks, Hard, Do, Rec
  <2>5. PICK todo : todo = <<x>> \o Carried(act, by, n)
    OBVIOUS
  <2>6. PICK f : f = [run[d] EXCEPT !.pc = pc, !.todo = todo]
    OBVIOUS
  <2>7. run' = [run EXCEPT ![d] = f]
    BY <1>2a, <2>1, <2>3, <2>5, <2>6, Zenon
  <2> QED BY <1>2, <2>2, <2>4, <2>5, <2>6, <2>7
<1>7. CASE run' = [run EXCEPT ![d] = [run[d] EXCEPT
                     !.pc = "cache", !.todo = Finish(run[d].by, "MaxSteps", 0)]]
  <2>1. PICK todo : todo = Finish(run[d].by, "MaxSteps", 0)
    OBVIOUS
  <2>2. PICK f : f = [run[d] EXCEPT !.pc = "cache", !.todo = todo]
    OBVIOUS
  <2>3. f.by = run[d].by /\ f.todo = todo /\ Plain(todo)
    BY <1>1, <2>1, <2>2, FinishIsPlain DEF Fields
  <2>4. run' = [run EXCEPT ![d] = f]
    BY <1>7, <2>1, <2>2, Zenon
  <2>5. GoesOn(d, f)
    BY <1>1, <2>3, <2>4, GoesOnWith
  <2> QED BY <2>5, GoingOnKeepsTasks, GoingKeepsMet DEF GoesOn
<1> QED BY <1>3, <1>5, <1>6, <1>7, Zenon DEF Step

-----------------------------------------------------------------------------
(* Proposing tasks, and showing them. *)

\* What is proposed from what is loaded is numbered behind what is shown.
LEMMA ProposedNumbers ==
  ASSUME Numbered, Typed, TasksInv, NEW d \in Drivers, NEW out \in Proposals(Loaded, run[d]),
         NEW f, f.by = run[d].by, f.todo = [i \in DOMAIN out |-> Do(out[i], TRUE, FALSE)]
  PROVE  Numbering(f)
<1>1. PICK c : c = Cardinality(DOMAIN AgentState(Loaded).tasks)
  OBVIOUS
<1>2. /\ c \in Nat /\ \A k \in Nat \ {0} : k \in Taken <=> k <= c
      /\ \A n \in Nat : NextTask(AgentState(Loaded), n) = c + n
  BY <1>1, TakenFacts
<1>3. NumbersFrom(out, run[d].by, c)
  BY <1>2, PlannersNumber DEF Numbered
<1>4. DOMAIN f.todo = DOMAIN out /\ \A i \in DOMAIN out : f.todo[i].rec = out[i]
  BY DEF Do
<1>5. DueTasks(f) = TasksIn(out)
  BY <1>4 DEF DueTasks, TasksIn
<1>6. SUFFICES ASSUME NEW p \in TasksIn(out) PROVE NumberFits(f, p, out[p])
  <2>1. \A p \in TasksIn(out) : f.todo[p].rec = out[p]
    BY <1>4 DEF TasksIn
  <2> QED BY <1>5, <2>1 DEF Numbering
<1>7. /\ out[p].by = f.by /\ out[p].ref \in Nat /\ out[p].ref > c
      /\ \A k \in (c + 1)..(out[p].ref - 1) : \E q \in TasksIn(out) : q < p /\ out[q].ref = k
      /\ \A q \in TasksIn(out) : out[q].ref = out[p].ref => q = p
  BY <1>3 DEF NumbersFrom
<1>8. out[p].ref \notin Taken /\ out[p].ref # 0
  BY <1>2, <1>7
<1>9. \A r \in Shown : ~ (r.kind = "task" /\ r.ref = out[p].ref)
  BY <1>8 DEF Taken
<1>10. \A k \in 1..(out[p].ref - 1) : k \in Taken \/ k \in (c + 1)..(out[p].ref - 1)
  BY <1>2, <1>7
<1>11. \A q \in TasksIn(out) : f.todo[q].rec = out[q]
  BY <1>4 DEF TasksIn
<1>12. \A k \in 1..(out[p].ref - 1) :
         k \in Taken \/ \E q \in DueTasks(f) : q < p /\ f.todo[q].rec.ref = k
  <2>1. TAKE k \in 1..(out[p].ref - 1)
  <2>2. CASE k \in Taken
    BY <2>2
  <2>3. CASE k \in (c + 1)..(out[p].ref - 1)
    <3>1. PICK q \in TasksIn(out) : q < p /\ out[q].ref = k
      BY <1>7, <2>3
    <3> QED BY <1>5, <1>11, <3>1
  <2> QED BY <1>10, <2>2, <2>3
<1>13. \A q \in DueTasks(f) : f.todo[q].rec.ref = out[p].ref => q = p
  BY <1>5, <1>7, <1>11
<1>14. \A r \in Shown : r.kind = "task" /\ r.ref = out[p].ref => {r.by, f.by} \in met
  BY <1>9
<1> QED BY <1>7, <1>8, <1>12, <1>13, <1>14, Zenon DEF NumberFits

LEMMA RefreshKeepsTasks ==
  ASSUME Numbered, Typed, TasksInv, BusyMet, NEW d \in Drivers, Refresh(d),
         faults' = faults, faults \in Nat
  PROVE  TasksInv' /\ BusyMet'
<1>1. DOMAIN run[d] = Fields /\ run[d].pc # "idle" /\ UNCHANGED <<rows, met>>
  BY DEF Numbered, Refresh, At
<1>2. faults' # faults + 1
  OBVIOUS
<1>3. \/ \E f \in Planned(run[d], Loaded) : run' = [run EXCEPT ![d] = f]
      \/ \E f, out, todo :
           /\ out \in Proposals(Loaded, run[d])
           /\ f = [run[d] EXCEPT !.ctx = Loaded, !.pc = "replan", !.todo = todo]
           /\ run' = [run EXCEPT ![d] = f]
           /\ todo = [i \in DOMAIN out |-> Do(out[i], TRUE, FALSE)]
  BY <1>2, Zenon DEF Refresh, LoadOr
<1>4. ASSUME NEW f \in Planned(run[d], Loaded), run' = [run EXCEPT ![d] = f]
      PROVE  TasksInv' /\ BusyMet'
  <2>1. GoesOn(d, f)
    BY <1>1, <1>4, PlannedGoesOn
  <2> QED BY <2>1, GoingOnKeepsTasks, GoingKeepsMet DEF GoesOn
<1>5. ASSUME NEW f, NEW out \in Proposals(Loaded, run[d]), NEW todo,
             run' = [run EXCEPT ![d] = f],
             f = [run[d] EXCEPT !.ctx = Loaded, !.pc = "replan", !.todo = todo],
             todo = [i \in DOMAIN out |-> Do(out[i], TRUE, FALSE)]
      PROVE  TasksInv' /\ BusyMet'
  <2>1. f.by = run[d].by /\ f.todo = todo
    BY <1>1, <1>5 DEF Fields
  <2>2. Numbering(f)
    BY <1>5, <2>1, ProposedNumbers
  <2>3. met \subseteq met' /\ UNCHANGED rows
    BY <1>1
  <2>4. Numbering(f)'
    BY <2>2, <2>3, MetGrows
  <2>5. \A e \in Busy \ {d} : {f.by, run[e].by} \in met'
    BY <1>1, <2>1, <2>3, SameTriggerMet
  <2> QED BY <1>5, <2>3, <2>4, <2>5, TasksGoing, GoingKeepsMet
<1> QED BY <1>3, <1>4, <1>5

LEMMA NumberKeepsTasks ==
  ASSUME Numbered, TasksInv, BusyMet, NEW d \in Drivers, Number(d)
  PROVE  TasksInv' /\ BusyMet'
<1>1. run[d].pc # "idle" /\ DOMAIN run[d] = Fields
  <2>1. Idle.todo = << >> /\ run[d].todo # << >>
    BY DEF Number, Idle
  <2> QED BY <2>1 DEF Numbered
<1>2. PICK f : f = [run[d] EXCEPT !.seq = numbers + 1]
  OBVIOUS
<1>3. run' = [run EXCEPT ![d] = f] /\ UNCHANGED rows /\ met \subseteq met'
  BY <1>2 DEF Number
<1>4. f.todo = run[d].todo /\ f.by = run[d].by
  BY <1>1, <1>2 DEF Fields
<1>5. Numbering(f)
  <2>1. Numbering(run[d])
    BY DEF TasksInv
  <2> QED BY <1>4, <2>1 DEF Numbering, NumberFits, DueTasks
<1>6. Numbering(f)'
  BY <1>3, <1>5, MetGrows
<1>7. \A e \in Busy \ {d} : {f.by, run[e].by} \in met'
  BY <1>1, <1>3, <1>4, SameTriggerMet
<1> QED BY <1>3, <1>6, <1>7, TasksGoing, GoingKeepsMet

\* A task that is shown by an advance d clashes with what it has met alone.
LEMMA ShownKeepsTasks ==
  ASSUME Numbered, TasksInv, NEW q, NEW r, rows' = Append(rows, [seq |-> q, rec |-> r]),
         r.kind = "task" =>
           /\ r.ref \in Nat \ {0} /\ \A k \in 1..(r.ref - 1) : k \in Taken
           /\ \A x \in Shown : Clashing(x, r) => {x.by, r.by} \in met,
         UNCHANGED met
  PROVE  /\ \A n \in Taken' : n \in Nat \ {0} /\ \A k \in 1..n : k \in Taken'
         /\ \A i, j \in DOMAIN rows' :
              i # j /\ Clashing(rows'[i].rec, rows'[j].rec)
                => {rows'[i].rec.by, rows'[j].rec.by} \in met'
         /\ Taken' = Taken \cup (IF r.kind = "task" THEN {r.ref} ELSE {})
         /\ Shown' = Shown \cup {r}
<1>1. /\ Shown' = Shown \cup {r} /\ DOMAIN rows' = 1..(Len(rows) + 1)
      /\ rows'[Len(rows) + 1].rec = r
      /\ \A i \in DOMAIN rows : rows'[i] = rows[i]
  BY AppendShows
<1>2. DOMAIN rows = 1..Len(rows) /\ Len(rows) \in Nat
  BY RowsAreIndexed
<1>3. Taken' = Taken \cup (IF r.kind = "task" THEN {r.ref} ELSE {})
  BY <1>1 DEF Taken
<1>4. \A n \in Taken' : n \in Nat \ {0} /\ \A k \in 1..n : k \in Taken'
  <2>1. SUFFICES ASSUME NEW n \in Taken' PROVE n \in Nat \ {0} /\ \A k \in 1..n : k \in Taken'
    OBVIOUS
  <2>2. CASE n \in Taken
    BY <1>3, <2>2 DEF TasksInv
  <2>3. CASE n \notin Taken
    <3>1. r.kind = "task" /\ n = r.ref /\ n \in Nat \ {0}
      BY <1>3, <2>1, <2>3
    <3>2. \A k \in 1..n : k \in 1..(n - 1) \/ k = n
      BY <3>1
    <3> QED BY <1>3, <3>1, <3>2
  <2> QED BY <2>2, <2>3
<1>5. \A i \in DOMAIN rows : Clashing(rows[i].rec, r) => {rows[i].rec.by, r.by} \in met
  BY DEF Shown, Clashing
<1>6. \A i \in DOMAIN rows' : i \in DOMAIN rows \/ i = Len(rows) + 1
  BY <1>1, <1>2
<1>7. \A i, j \in DOMAIN rows' :
        i # j /\ Clashing(rows'[i].rec, rows'[j].rec)
          => {rows'[i].rec.by, rows'[j].rec.by} \in met'
  <2>1. SUFFICES ASSUME NEW i \in DOMAIN rows', NEW j \in DOMAIN rows', i # j,
                        Clashing(rows'[i].rec, rows'[j].rec)
                 PROVE  {rows'[i].rec.by, rows'[j].rec.by} \in met
    OBVIOUS
  <2>2. CASE i \in DOMAIN rows /\ j \in DOMAIN rows
    BY <1>1, <2>1, <2>2 DEF TasksInv
  <2>3. CASE i \in DOMAIN rows /\ j = Len(rows) + 1
    BY <1>1, <1>5, <2>1, <2>3
  <2>4. CASE i = Len(rows) + 1 /\ j \in DOMAIN rows
    <3>1. Clashing(rows[j].rec, r)
      BY <1>1, <2>1, <2>4 DEF Clashing
    <3>2. {rows[j].rec.by, r.by} \in met
      BY <1>5, <2>4, <3>1
    <3> QED BY <1>1, <2>4, <3>2, PairsAreSets
  <2> QED BY <1>6, <2>1, <2>2, <2>3, <2>4
<1> QED BY <1>1, <1>3, <1>4, <1>7

LEMMA ReportKeepsTasks ==
  ASSUME Numbered, TasksInv, BusyMet, Report
  PROVE  TasksInv' /\ BusyMet'
<1>1. PICK t : rows' = Append(rows, [seq |-> numbers + 1, rec |-> Rec("report", 0, t, "Done")])
  BY DEF Report
<1>2. PICK r : r = Rec("report", 0, t, "Done")
  OBVIOUS
<1>3. r.kind = "report"
  BY <1>2 DEF Rec
<1>4. rows' = Append(rows, [seq |-> numbers + 1, rec |-> r]) /\ UNCHANGED <<run, met>>
  BY <1>1, <1>2 DEF Report
<1>5. /\ \A n \in Taken' : n \in Nat \ {0} /\ \A k \in 1..n : k \in Taken'
      /\ \A i, j \in DOMAIN rows' :
           i # j /\ Clashing(rows'[i].rec, rows'[j].rec)
             => {rows'[i].rec.by, rows'[j].rec.by} \in met'
      /\ Taken' = Taken /\ Shown' = Shown \cup {r}
  BY <1>3, <1>4, ShownKeepsTasks
<1>6. \A d \in Drivers : Numbering(run[d])'
  <2>1. TAKE d \in Drivers
  <2>2. Numbering(run[d])
    BY DEF TasksInv
  <2>3. PICK f : f = run[d]
    OBVIOUS
  <2>4. \A k \in Shown' : k.kind = "task" => k \in Shown
    BY <1>3, <1>5
  <2>5. ASSUME NEW p \in DueTasks(f) PROVE NumberFits(f, p, f.todo[p].rec)'
    <3>1. NumberFits(f, p, f.todo[p].rec)
      BY <2>2, <2>3, <2>5 DEF Numbering
    <3> QED BY <1>4, <1>5, <2>4, <3>1 DEF NumberFits, DueTasks
  <2>6. run'[d] = f
    BY <1>4, <2>3
  <2> QED BY <2>5, <2>6 DEF Numbering, NumberFits, DueTasks
<1>7. BusyMet'
  BY <1>4 DEF BusyMet, Busy
<1> QED BY <1>5, <1>6, <1>7 DEF TasksInv

\* What an advance has still to append when the first of its tasks is shown, by itself.
LEMMA FirstShown ==
  ASSUME NEW f, NEW g, f.todo # << >>, Listed(f.todo), Numbering(f),
         g.todo = Tail(f.todo), g.by = f.by, NEW r, r = Head(f.todo).rec,
         Shown' = Shown \cup {r}, UNCHANGED met,
         Taken' = Taken \cup (IF r.kind = "task" THEN {r.ref} ELSE {})
  PROVE  Numbering(g)'
<1>1. PICK s, n : s = f.todo /\ n = Len(s)
  OBVIOUS
<1>2. /\ n \in Nat /\ n > 0 /\ DOMAIN s = 1..n /\ Head(s) = s[1]
      /\ DOMAIN Tail(s) = 1..(n - 1) /\ \A i \in 1..(n - 1) : Tail(s)[i] = s[i + 1]
  <2>1. PICK S : s \in Seq(S)
    BY <1>1 DEF Listed
  <2> QED BY <1>1, <2>1
<1>3. \A p \in DueTasks(g) : p \in 1..(n - 1) /\ p + 1 \in DueTasks(f) /\ g.todo[p] = f.todo[p + 1]
  <2>1. TAKE p \in DueTasks(g)
  <2>2. PICK q : q = p + 1
    OBVIOUS
  <2>3. p \in 1..(n - 1) /\ q \in 1..n /\ g.todo[p] = f.todo[q] /\ g.todo[p].rec.kind = "task"
    BY <1>1, <1>2, <2>1, <2>2 DEF DueTasks
  <2> QED BY <1>1, <1>2, <2>2, <2>3 DEF DueTasks
<1>4. \A q \in DueTasks(f) :
        q \in 1..n /\ (q # 1 => q - 1 \in DueTasks(g) /\ g.todo[q - 1] = f.todo[q])
  <2>1. TAKE q \in DueTasks(f)
  <2>2. q \in 1..n
    BY <1>1, <1>2 DEF DueTasks
  <2>3. CASE q # 1
    <3>1. PICK p : p = q - 1
      OBVIOUS
    <3>2. p \in 1..(n - 1) /\ q = p + 1
      BY <1>2, <2>2, <2>3, <3>1
    <3>3. g.todo[p] = f.todo[q]
      BY <1>1, <1>2, <3>2
    <3>4. p \in DueTasks(g)
      BY <1>1, <1>2, <2>1, <3>2, <3>3 DEF DueTasks
    <3> QED BY <2>2, <3>1, <3>3, <3>4
  <2> QED BY <2>2, <2>3
<1>5. r.kind = "task" => 1 \in DueTasks(f) /\ f.todo[1].rec = r
  BY <1>1, <1>2 DEF DueTasks
<1>5a. SUFFICES ASSUME NEW p \in DueTasks(g), NEW x, x = g.todo[p].rec
               PROVE  NumberFits(g, p, x)'
  BY DEF Numbering, DueTasks
<1>6. SUFFICES /\ x.by = g.by /\ x.ref \in Nat \ {0}
               /\ \A k \in 1..(x.ref - 1) :
                    k \in Taken' \/ \E q \in DueTasks(g) : q < p /\ g.todo[q].rec.ref = k
               /\ \A q \in DueTasks(g) : g.todo[q].rec.ref = x.ref => q = p
               /\ \A y \in Shown' : y.kind = "task" /\ y.ref = x.ref => {y.by, g.by} \in met
  BY DEF NumberFits, DueTasks
<1>7. PICK u : u = p + 1
  OBVIOUS
<1>8. p \in 1..(n - 1) /\ u \in DueTasks(f) /\ x = f.todo[u].rec /\ u \in 1..n /\ u # 1
  <2>1. p \in 1..(n - 1) /\ u \in DueTasks(f) /\ x = f.todo[u].rec
    BY <1>5a, <1>3, <1>7
  <2>2. u \in 1..n /\ u # 1
    BY <1>2, <1>7, <2>1
  <2> QED BY <2>1, <2>2
<1>9. NumberFits(f, u, x)
  BY <1>8 DEF Numbering
<1>10. \A k \in 1..(x.ref - 1) :
         k \in Taken' \/ \E q \in DueTasks(g) : q < p /\ g.todo[q].rec.ref = k
  <2>1. TAKE k \in 1..(x.ref - 1)
  <2>2. CASE k \in Taken
    BY <2>2
  <2>3. ASSUME NEW v \in DueTasks(f), v < u, f.todo[v].rec.ref = k
        PROVE  k \in Taken' \/ \E q \in DueTasks(g) : q < p /\ g.todo[q].rec.ref = k
    <3>1. CASE v = 1
      <4>1. r = f.todo[1].rec /\ r.kind = "task"
        BY <1>1, <1>2, <2>3, <3>1 DEF DueTasks
      <4> QED BY <2>3, <3>1, <4>1
    <3>2. CASE v # 1
      <4>1. v - 1 \in DueTasks(g) /\ g.todo[v - 1] = f.todo[v] /\ v \in 1..n
        BY <1>4, <2>3, <3>2
      <4>2. v - 1 < p
        BY <1>2, <1>7, <1>8, <2>3, <4>1
      <4> QED BY <2>3, <4>1, <4>2
    <3> QED BY <3>1, <3>2
  <2> QED BY <1>9, <2>2, <2>3 DEF NumberFits
<1>11. \A q \in DueTasks(g) : g.todo[q].rec.ref = x.ref => q = p
  <2>1. TAKE q \in DueTasks(g)
  <2>2. q \in 1..(n - 1) /\ q + 1 \in DueTasks(f) /\ g.todo[q] = f.todo[q + 1]
    BY <1>3
  <2>3. g.todo[q].rec.ref = x.ref => q + 1 = u
    BY <1>9, <2>2 DEF NumberFits
  <2>4. q \in Nat /\ p \in Nat
    BY <1>2, <1>8, <2>2
  <2>5. q + 1 = u => q = p
    BY <1>7, <2>4
  <2> QED BY <2>3, <2>5
<1>12. \A y \in Shown' : y.kind = "task" /\ y.ref = x.ref => {y.by, g.by} \in met
  <2>1. TAKE y \in Shown'
  <2>2. CASE y \in Shown
    BY <1>9, <2>2 DEF NumberFits
  <2>3. CASE y = r
    <3>1. ASSUME y.kind = "task", y.ref = x.ref PROVE FALSE
      <4>1. 1 \in DueTasks(f) /\ f.todo[1].rec.ref = x.ref
        BY <1>5, <2>3, <3>1
      <4>2. 1 = u
        BY <1>9, <4>1 DEF NumberFits
      <4> QED BY <1>8, <4>2
    <3> QED BY <3>1
  <2> QED BY <2>1, <2>2, <2>3
<1> QED BY <1>9, <1>10, <1>11, <1>12 DEF NumberFits

\* ... and by another advance, which it has met.
LEMMA OthersShown ==
  ASSUME NEW f, Numbering(f), NEW r, r.kind = "task" => {r.by, f.by} \in met,
         Shown' = Shown \cup {r}, UNCHANGED met,
         Taken' = Taken \cup (IF r.kind = "task" THEN {r.ref} ELSE {})
  PROVE  Numbering(f)'
<1>1. SUFFICES ASSUME NEW p \in DueTasks(f) PROVE NumberFits(f, p, f.todo[p].rec)'
  BY DEF Numbering, DueTasks
<1>2. NumberFits(f, p, f.todo[p].rec)
  BY DEF Numbering
<1> QED BY <1>2 DEF NumberFits, DueTasks

LEMMA PushKeepsTasks ==
  ASSUME Numbered, Typed, Held, TasksInv, BusyMet, NEW d \in Drivers, Push(d)
  PROVE  TasksInv' /\ BusyMet'
<1>1. PICK x, r : /\ run[d].todo # << >> /\ x = Head(run[d].todo) /\ r = x.rec
                  /\ rows' = Append(rows, [seq |-> run[d].seq, rec |-> r])
                  /\ Shown' = Shown \cup {r}
  BY PushShows
<1>2. PICK g : g = [run[d] EXCEPT !.ctx = Kept(run[d]), !.todo = Tail(run[d].todo), !.seq = 0]
  OBVIOUS
<1>3. run' = [run EXCEPT ![d] = g] /\ UNCHANGED met
  BY <1>2, Zenon DEF Push
<1>4. DOMAIN run = Drivers /\ DOMAIN run[d] = Fields /\ run[d].pc # "idle"
  <2>1. Idle.todo = << >>
    BY DEF Idle
  <2> QED BY <1>1, <2>1 DEF Numbered
<1>5. g.todo = Tail(run[d].todo) /\ g.by = run[d].by /\ g.pc = run[d].pc
  BY <1>2, <1>4 DEF Fields
<1>6. Listed(run[d].todo) /\ Numbering(run[d])
  <2>1. triggers \in Nat /\ run[d] \in FuturesTo(triggers)
    BY DEF Typed
  <2>2. run[d].todo \in Seq(DuesTo(triggers))
    BY <2>1, SomeBy
  <2> QED BY <2>2 DEF Listed, TasksInv
<1>7. r.kind = "task" =>
        /\ NumberFits(run[d], 1, r)
        /\ \A q \in DueTasks(run[d]) : q \in Nat /\ q >= 1
  <2>1. PICK S : run[d].todo \in Seq(S)
    BY <1>6 DEF Listed
  <2>2. DOMAIN run[d].todo \subseteq Nat \ {0} /\ 1 \in DOMAIN run[d].todo /\ run[d].todo[1] = x
    BY <1>1, <2>1
  <2>3. DueTasks(run[d]) \subseteq Nat \ {0} /\ (r.kind = "task" => 1 \in DueTasks(run[d]))
    BY <1>1, <2>2 DEF DueTasks
  <2> QED BY <1>1, <1>6, <2>2, <2>3 DEF Numbering
<1>8. r.kind = "task" =>
        /\ r.ref \in Nat \ {0} /\ \A k \in 1..(r.ref - 1) : k \in Taken
        /\ \A y \in Shown : Clashing(y, r) => {y.by, r.by} \in met
        /\ r.by = run[d].by
  BY <1>7 DEF NumberFits, Clashing
<1>9. /\ \A n \in Taken' : n \in Nat \ {0} /\ \A k \in 1..n : k \in Taken'
      /\ \A i, j \in DOMAIN rows' :
           i # j /\ Clashing(rows'[i].rec, rows'[j].rec)
             => {rows'[i].rec.by, rows'[j].rec.by} \in met'
      /\ Taken' = Taken \cup (IF r.kind = "task" THEN {r.ref} ELSE {})
  <2>1. PICK q : q = run[d].seq
    OBVIOUS
  <2>2. rows' = Append(rows, [seq |-> q, rec |-> r])
    BY <1>1, <2>1
  <2> QED BY <1>3, <1>8, <2>2, ShownKeepsTasks
<1>10. Numbering(g)'
  <2>1. PICK f : f = run[d]
    OBVIOUS
  <2> QED BY <1>1, <1>3, <1>5, <1>6, <1>9, <2>1, FirstShown
<1>11. \A e \in Drivers \ {d} : Numbering(run[e])'
  <2>1. TAKE e \in Drivers \ {d}
  <2>2. PICK f : f = run[e]
    OBVIOUS
  <2>3. run'[e] = f
    BY <1>3, <1>4, <2>2
  <2>4. Numbering(f)
    BY <2>2 DEF TasksInv
  <2>5. CASE f.pc = "idle"
    <3>1. f = Idle
      BY <2>2, <2>5 DEF Numbered
    <3>2. Plain(f.todo)
      BY <3>1, PlainFacts DEF Idle
    <3> QED BY <2>3, <3>2, PlainHasNoTasks DEF Numbering, DueTasks
  <2>6. CASE f.pc # "idle"
    <3>1. {run[d].by, f.by} \in met
      BY <1>4, <2>2, <2>6 DEF BusyMet, Busy
    <3>2. r.kind = "task" => {r.by, f.by} \in met
      BY <1>8, <3>1
    <3>3. Numbering(f)'
      BY <1>1, <1>3, <1>9, <2>4, <3>2, OthersShown
    <3> QED BY <2>3, <3>3 DEF Numbering, NumberFits, DueTasks
  <2> QED BY <2>5, <2>6
<1>12. \A e \in Drivers : Numbering(run[e])'
  <2>1. run'[d] = g
    BY <1>3, <1>4
  <2>2. Numbering(run[d])'
    BY <1>10, <2>1 DEF Numbering, NumberFits, DueTasks
  <2> QED BY <1>11, <2>2
<1>13. \A e \in Busy \ {d} : {g.by, run[e].by} \in met'
  BY <1>3, <1>4, <1>5, SameTriggerMet
<1>14. BusyMet'
  BY <1>3, <1>13, GoingKeepsMet
<1> QED BY <1>9, <1>12, <1>14 DEF TasksInv

LEMMA ReloadKeepsTasks ==
  ASSUME Numbered, TasksInv, BusyMet, NEW d \in Drivers, Reload(d)
  PROVE  TasksInv' /\ BusyMet'
<1>1. run[d].pc # "idle" /\ UNCHANGED <<rows, met>>
  BY DEF Reload, At
<1>2. \E s : \E f \in Planned(run[d], s) \cup {Observing(run[d], s)} :
        run' = [run EXCEPT ![d] = f]
  BY Zenon DEF Reload, LoadOr
<1>3. PICK s, f : /\ f \in Planned(run[d], s) \cup {Observing(run[d], s)}
                  /\ run' = [run EXCEPT ![d] = f]
  BY <1>2
<1>4. GoesOn(d, f)
  BY <1>1, <1>3, PlannedGoesOn
<1> QED BY <1>4, GoingOnKeepsTasks, GoingKeepsMet DEF GoesOn

LEMMA GoneOnKeepsTasks ==
  ASSUME Numbered, TasksInv, BusyMet, NEW d \in Drivers, \E f : GoesOn(d, f)
  PROVE  TasksInv' /\ BusyMet'
BY GoingOnKeepsTasks, GoingKeepsMet DEF GoesOn

LEMMA FaultsCount ==
  ASSUME faults \in Nat, [Next]_vars
  PROVE  faults' = faults \/ faults' = faults + 1
<1>1. ASSUME NEW d \in Drivers, Advance(d)
      PROVE  faults' = faults \/ faults' = faults + 1
  <2>1. Number(d) \/ Push(d) \/ Deliver(d) \/ Resolve(d) \/ Step(d) => faults' = faults
    BY DEF Number, Push, Deliver, Resolve, Step
  <2>2. AppendFails(d) \/ Drop(d) => faults' = faults + 1
    BY DEF AppendFails, Drop
  <2>3. Read(d) \/ Cache(d) => faults' = faults \/ faults' = faults + 1
    BY DEF Read, Cache
  <2>4. Refresh(d) \/ Reload(d) => faults' = faults \/ faults' = faults + 1
    BY Zenon DEF Refresh, Reload, LoadOr
  <2>5. Continue(d) => faults' = faults \/ faults' = faults + 1
    BY Zenon DEF Continue
  <2> QED BY <1>1, <2>1, <2>2, <2>3, <2>4, <2>5 DEF Advance
<1>2. Report \/ Poll \/ ReadPage \/ UNCHANGED vars => faults' = faults
  BY DEF Report, Poll, ReadPage, vars
<1> QED BY <1>1, <1>2 DEF Next

LEMMA NextKeepsTasks ==
  ASSUME Numbered, Typed, Held, TasksInv, BusyMet, faults \in Nat, faults' = faults, [Next]_vars
  PROVE  TasksInv' /\ BusyMet'
<1>1. ASSUME NEW d \in Drivers, Advance(d) PROVE TasksInv' /\ BusyMet'
  <2>1. CASE Number(d)
    BY <2>1, NumberKeepsTasks
  <2>2. CASE Push(d)
    BY <2>2, PushKeepsTasks
  <2>3. CASE AppendFails(d) \/ Drop(d)
    <3>1. faults' = faults + 1
      BY <2>3 DEF AppendFails, Drop
    <3> QED BY <3>1
  <2>4. CASE Deliver(d)
    BY <2>4, DeliverGoesOn, GoneOnKeepsTasks
  <2>5. CASE Read(d)
    BY <2>5, ReadGoesOn, GoneOnKeepsTasks
  <2>6. CASE Refresh(d)
    BY <2>6, RefreshKeepsTasks
  <2>7. CASE Reload(d)
    BY <2>7, ReloadKeepsTasks
  <2>8. CASE Resolve(d)
    BY <2>8, ResolveGoesOn, GoneOnKeepsTasks
  <2>9. CASE Step(d)
    BY <2>9, StepKeepsTasks
  <2>10. CASE Cache(d)
    <3>1. run' = [run EXCEPT ![d] = Idle] /\ UNCHANGED <<rows, met>>
      BY <2>10 DEF Cache
    <3> QED BY <3>1, GoesIdle, GoneOnKeepsTasks
  <2>11. CASE Continue(d)
    BY <2>11, ContinueGoesOn, GoneOnKeepsTasks
  <2> QED BY <1>1, <2>1, <2>2, <2>3, <2>4, <2>5, <2>6, <2>7, <2>8, <2>9, <2>10, <2>11
         DEF Advance
<1>2. CASE Report
  BY <1>2, ReportKeepsTasks
<1>3. CASE Poll \/ ReadPage \/ UNCHANGED vars
  <2>1. UNCHANGED <<rows, run, met>>
    BY <1>3 DEF Poll, ReadPage, vars
  <2>2. Shown' = Shown /\ Taken' = Taken
    BY <2>1 DEF Shown, Taken
  <2> QED BY <2>1, <2>2 DEF TasksInv, BusyMet, Busy, Numbering, NumberFits, DueTasks
<1> QED BY <1>1, <1>2, <1>3 DEF Next

\* What the theorems about tasks and views rest on.
SessionInv == /\ WatchInv /\ Held /\ Typed /\ faults \in Nat
              /\ (faults = 0 => TasksInv /\ BusyMet)

LEMMA InitSession == Init => SessionInv
<1>1. Init => WatchInv /\ Held
  <2> SUFFICES ASSUME Init PROVE Held
    BY InitWatch
  <2> QED BY DEF Init, Held, Idle
<1>2. Init => Typed
  BY InitIsTyped
<1>3. Init => faults \in Nat /\ TasksInv /\ BusyMet
  <2> SUFFICES ASSUME Init PROVE faults \in Nat /\ TasksInv /\ BusyMet
    OBVIOUS
  <2>1. rows = << >> /\ DOMAIN rows = {} /\ \A d \in Drivers : run[d] = Idle
    BY DEF Init
  <2>2. Idle.pc = "idle" /\ Plain(Idle.todo)
    BY PlainFacts DEF Idle
  <2>3. Shown = {} /\ Taken = {} /\ Busy = {}
    <3>1. Shown = {}
      BY <2>1 DEF Shown
    <3>2. Taken = {}
      BY <3>1 DEF Taken
    <3> QED BY <2>1, <2>2, <3>1, <3>2 DEF Busy
  <2>4. \A d \in Drivers : DueTasks(run[d]) = {}
    BY <2>1, <2>2, PlainHasNoTasks
  <2> QED BY <2>1, <2>3, <2>4 DEF Init, TasksInv, BusyMet, Numbering
<1> QED BY <1>1, <1>2, <1>3 DEF SessionInv

LEMMA NextKeepsSession ==
  ASSUME SessionInv, [Next]_vars
  PROVE  SessionInv'
<1>1. Numbered /\ WatchInv /\ Held /\ Typed /\ faults \in Nat
  BY DEF SessionInv, WatchInv
<1>2. WatchInv' /\ Held' /\ Typed'
  BY <1>1, NextKeepsWatch, NextKeepsHeld, NextIsTyped
<1>3. faults' \in Nat /\ (faults' = 0 => faults = 0)
  BY <1>1, FaultsCount
<1>4. ASSUME faults' = 0 PROVE TasksInv' /\ BusyMet'
  <2>1. faults = 0 /\ faults' = faults /\ TasksInv /\ BusyMet
    BY <1>3, <1>4 DEF SessionInv
  <2> QED BY <1>1, <2>1, NextKeepsTasks
<1> QED BY <1>2, <1>3, <1>4 DEF SessionInv

\* Two tasks get one number only by advances that overlapped, or when an append or a
\* load has failed: the next number is the count of the tasks in the snapshot plus one
\* (cognition lib.rs:120, types.rs:1290), so as long as nothing fails and nobody else
\* plans, all the numbers below it are taken and it is free.  (engine.rs:329)
THEOREM TasksClashOnlyByOverlap == Spec => []TaskNumbersClashOnlyByOverlap
<1>1. SessionInv => TaskNumbersClashOnlyByOverlap
  <2>1. SUFFICES ASSUME SessionInv, NEW i \in DOMAIN rows, NEW j \in DOMAIN rows, i # j,
                        rows[i].rec.kind = "task", rows[j].rec.kind = "task",
                        rows[i].rec.ref = rows[j].rec.ref
                 PROVE  faults > 0 \/ {rows[i].rec.by, rows[j].rec.by} \in met
    BY DEF TaskNumbersClashOnlyByOverlap
  <2> QED BY <2>1 DEF SessionInv, TasksInv, Clashing
<1> QED BY <1>1, InitSession, NextKeepsSession, PTL DEF Spec

-----------------------------------------------------------------------------
(* What a snapshot has of the ledger. *)

\* The records that an advance appends and does not keep.
Hidden == {"graph", "joined", "resolution", "plan"}

\* Every record of a has its place in b, in their order, and the others there are hidden ones.
Embeds(f, a, b) ==
  /\ f \in [DOMAIN a -> DOMAIN b]
  /\ \A i, j \in DOMAIN a : i < j => f[i] < f[j]
  /\ \A i \in DOMAIN a : b[f[i]] = a[i]
  /\ \A j \in DOMAIN b : b[j].kind \in Hidden \/ \E i \in DOMAIN a : f[i] = j

\* Snapshot a has all the records of b but hidden ones.
Thin(a, b) ==
  /\ Listed(a) /\ Listed(b) /\ AgentState(a) = AgentState(b)
  /\ \E f : Embeds(f, a, b)

LEMMA AppendedAt ==
  ASSUME NEW s, Listed(s), NEW r
  PROVE  /\ DOMAIN Append(s, r) = 1..(Len(s) + 1) /\ Len(Append(s, r)) = Len(s) + 1
         /\ Len(s) \in Nat /\ DOMAIN s = 1..Len(s)
         /\ \A i \in DOMAIN s : Append(s, r)[i] = s[i]
         /\ Append(s, r)[Len(s) + 1] = r
         /\ Listed(Append(s, r)) /\ Append(s, r) # << >>
<1>1. PICK S : s \in Seq(S)
  BY DEF Listed
<1>2. s \in Seq(S \cup {r})
  BY <1>1
<1>3. /\ Append(s, r) \in Seq(S \cup {r}) /\ Len(Append(s, r)) = Len(s) + 1
      /\ DOMAIN Append(s, r) = 1..(Len(s) + 1)
      /\ Len(s) \in Nat /\ DOMAIN s = 1..Len(s)
      /\ \A i \in DOMAIN s : Append(s, r)[i] = s[i]
      /\ Append(s, r)[Len(s) + 1] = r /\ Append(s, r) # << >>
  BY <1>2
<1> QED BY <1>3 DEF Listed

\* One more record is one more step of the fold.
LEMMA StateAfter ==
  ASSUME NEW s, Listed(s), NEW r
  PROVE  AgentState(Append(s, r)) = Folded(AgentState(s), r)
<1>1. PICK u : u = Append(s, r)
  OBVIOUS
<1>2. /\ Len(s) \in Nat /\ Len(u) = Len(s) + 1 /\ Listed(u) /\ u[Len(s) + 1] = r
      /\ \A i \in 1..Len(s) : u[i] = s[i]
  BY <1>1, AppendedAt
<1>3. PICK g : States(s, g)
  BY AgentStateFacts
<1>4. PICK h : States(u, h)
  BY <1>2, AgentStateFacts
<1> DEFINE Bad == {i \in 0..Len(s) : g[i] # h[i]}
<1>5. Bad = {}
  <2>1. SUFFICES ASSUME Bad # {} PROVE FALSE
    OBVIOUS
  <2>2. PICK i \in Bad : \A j \in Bad : i <= j
    <3>1. Bad \in SUBSET Nat
      BY <1>2
    <3> HIDE DEF Bad
    <3> QED BY <2>1, <3>1, LeastExists
  <2>3. i # 0
    BY <1>3, <1>4, <2>2 DEF States
  <2>4. i \in 1..Len(s) /\ i \in 1..Len(u) /\ i - 1 \in 0..Len(s) /\ i - 1 \notin Bad
    BY <1>2, <2>2, <2>3
  <2>5. g[i] = Folded(g[i - 1], s[i]) /\ h[i] = Folded(h[i - 1], u[i])
    BY <1>3, <1>4, <2>4 DEF States
  <2>6. g[i - 1] = h[i - 1] /\ u[i] = s[i]
    BY <1>2, <2>4
  <2> QED BY <2>2, <2>5, <2>6
<1>6. Len(s) \in 0..Len(s) /\ Len(u) \in 1..Len(u) /\ Len(u) - 1 = Len(s)
  BY <1>2
<1>7. g[Len(s)] = h[Len(s)]
  BY <1>5, <1>6
<1>8. h[Len(u)] = Folded(h[Len(s)], u[Len(u)])
  BY <1>4, <1>6 DEF States
<1> QED BY <1>1, <1>2, <1>3, <1>4, <1>7, <1>8 DEF States

LEMMA ThinSelf ==
  ASSUME NEW s, Listed(s)
  PROVE  Thin(s, s)
<1>1. PICK f : f = [i \in DOMAIN s |-> i]
  OBVIOUS
<1>2. Embeds(f, s, s)
  BY <1>1 DEF Embeds
<1> QED BY <1>2 DEF Thin

\* A record that both get.
LEMMA ThinBoth ==
  ASSUME NEW a, NEW b, Thin(a, b), NEW r
  PROVE  Thin(Append(a, r), Append(b, r))
<1>1. Listed(a) /\ Listed(b) /\ AgentState(a) = AgentState(b)
  BY DEF Thin
<1>2. PICK f : Embeds(f, a, b)
  BY DEF Thin
<1>3. PICK u, v : u = Append(a, r) /\ v = Append(b, r)
  OBVIOUS
<1>4. /\ DOMAIN u = 1..(Len(a) + 1) /\ Len(a) \in Nat /\ DOMAIN a = 1..Len(a)
      /\ \A i \in DOMAIN a : u[i] = a[i]
      /\ u[Len(a) + 1] = r /\ Listed(u)
  BY <1>1, <1>3, AppendedAt
<1>5. /\ DOMAIN v = 1..(Len(b) + 1) /\ Len(b) \in Nat /\ DOMAIN b = 1..Len(b)
      /\ \A i \in DOMAIN b : v[i] = b[i]
      /\ v[Len(b) + 1] = r /\ Listed(v)
  BY <1>1, <1>3, AppendedAt
<1>6. PICK g : g = [i \in DOMAIN u |-> IF i = Len(a) + 1 THEN Len(b) + 1 ELSE f[i]]
  OBVIOUS
<1>7. /\ \A i \in DOMAIN a : i \in DOMAIN u /\ i < Len(a) + 1 /\ g[i] = f[i] /\ f[i] \in DOMAIN b
      /\ g[Len(a) + 1] = Len(b) + 1
      /\ \A i \in DOMAIN u : i \in DOMAIN a \/ i = Len(a) + 1
      /\ \A j \in DOMAIN b : j \in DOMAIN v /\ j < Len(b) + 1
      /\ \A j \in DOMAIN v : j \in DOMAIN b \/ j = Len(b) + 1
      /\ Len(a) + 1 \in DOMAIN u /\ Len(b) + 1 \in DOMAIN v
  BY <1>2, <1>4, <1>5, <1>6 DEF Embeds
<1>8. g \in [DOMAIN u -> DOMAIN v]
  BY <1>6, <1>7
<1>9. \A i, j \in DOMAIN u : i < j => g[i] < g[j]
  <2>1. SUFFICES ASSUME NEW i \in DOMAIN u, NEW j \in DOMAIN u, i < j PROVE g[i] < g[j]
    OBVIOUS
  <2>2. i \in DOMAIN a
    BY <1>4, <2>1
  <2>3. CASE j \in DOMAIN a
    BY <1>2, <1>7, <2>1, <2>2, <2>3 DEF Embeds
  <2>4. CASE j = Len(a) + 1
    BY <1>7, <2>2, <2>4
  <2> QED BY <1>7, <2>3, <2>4
<1>10. \A i \in DOMAIN u : v[g[i]] = u[i]
  <2>1. \A i \in DOMAIN a : v[g[i]] = u[i]
    BY <1>2, <1>4, <1>5, <1>7 DEF Embeds
  <2>2. v[g[Len(a) + 1]] = u[Len(a) + 1]
    BY <1>4, <1>5, <1>7
  <2> QED BY <1>7, <2>1, <2>2
<1>11. \A j \in DOMAIN v : v[j].kind \in Hidden \/ \E i \in DOMAIN u : g[i] = j
  <2>1. \A j \in DOMAIN b : v[j].kind \in Hidden \/ \E i \in DOMAIN u : g[i] = j
    BY <1>2, <1>5, <1>7 DEF Embeds
  <2> QED BY <1>7, <2>1
<1>12. Embeds(g, u, v)
  BY <1>8, <1>9, <1>10, <1>11 DEF Embeds
<1>13. AgentState(u) = AgentState(v)
  BY <1>1, <1>3, StateAfter
<1> QED BY <1>3, <1>4, <1>5, <1>12, <1>13 DEF Thin

\* A hidden record that only the ledger gets.
LEMMA ThinHidden ==
  ASSUME NEW a, NEW b, Thin(a, b), NEW r, r.kind \in Hidden
  PROVE  Thin(a, Append(b, r))
<1>1. Listed(a) /\ Listed(b) /\ AgentState(a) = AgentState(b)
  BY DEF Thin
<1>2. PICK f : Embeds(f, a, b)
  BY DEF Thin
<1>3. PICK v : v = Append(b, r)
  OBVIOUS
<1>4. /\ DOMAIN v = 1..(Len(b) + 1) /\ Len(b) \in Nat /\ DOMAIN b = 1..Len(b)
      /\ \A i \in DOMAIN b : v[i] = b[i]
      /\ v[Len(b) + 1] = r /\ Listed(v)
  BY <1>1, <1>3, AppendedAt
<1>5. /\ \A j \in DOMAIN b : j \in DOMAIN v
      /\ \A j \in DOMAIN v : j \in DOMAIN b \/ j = Len(b) + 1
  BY <1>4
<1>6. Embeds(f, a, v)
  BY <1>2, <1>4, <1>5 DEF Embeds
<1>7. Folded(AgentState(b), r) = AgentState(b)
  BY DEF Folded, Hidden
<1>8. AgentState(v) = AgentState(a)
  BY <1>1, <1>3, <1>7, StateAfter
<1> QED BY <1>1, <1>3, <1>4, <1>6, <1>8 DEF Thin

\* The last of some records is the same one where a has it.
LEMMA LastMatches ==
  ASSUME NEW a, NEW b, Listed(a), Listed(b), NEW f, Embeds(f, a, b),
         NEW A \in SUBSET DOMAIN a, NEW B \in SUBSET DOMAIN b,
         \A j \in B : \E i \in A : f[i] = j
  PROVE  /\ A = {} => B = {}
         /\ A # {} => Max(A) \in A
         /\ B # {} => Max(B) \in B
         /\ A # {} /\ f[Max(A)] \in B => f[Max(A)] = Max(B) /\ a[Max(A)] = b[Max(B)]
<1>1. Len(a) \in Nat /\ DOMAIN a = 1..Len(a) /\ Len(b) \in Nat /\ DOMAIN b = 1..Len(b)
  BY ListedFacts
<1>2. A # {} => Max(A) \in A
  BY <1>1, MaxIn
<1>3. B # {} => Max(B) \in B
  BY <1>1, MaxIn
<1>4. ASSUME A # {}, f[Max(A)] \in B
      PROVE  f[Max(A)] = Max(B) /\ a[Max(A)] = b[Max(B)]
  <2>1. PICK k : k = Max(A) /\ k \in A
    BY <1>2, <1>4
  <2>2. \A i \in A : i <= k
    BY <1>1, <1>4, <2>1, MaxIn
  <2>3. \A j \in B : j <= f[k]
    <3>1. SUFFICES ASSUME NEW j \in B PROVE j <= f[k]
      OBVIOUS
    <3>2. PICK i \in A : f[i] = j
      BY <3>1
    <3>3. i = k \/ i < k
      BY <1>1, <2>1, <2>2, <3>2
    <3>4. f[k] \in Nat /\ j \in Nat
      BY <1>1, <1>4, <2>1, <3>1
    <3>5. CASE i = k
      BY <3>2, <3>4, <3>5
    <3>6. CASE i < k
      BY <2>1, <3>2, <3>4, <3>6 DEF Embeds
    <3> QED BY <3>3, <3>5, <3>6
  <2>4. f[k] = Max(B)
    <3>1. f[k] \in B /\ B \subseteq Nat
      BY <1>1, <1>4, <2>1
    <3>2. \A x \in B : (\A y \in B : x >= y) => x = f[k]
      BY <2>3, <3>1
    <3>3. \A y \in B : f[k] >= y
      BY <2>3, <3>1
    <3> QED BY <3>1, <3>2, <3>3 DEF Max
  <2> QED BY <2>1, <2>4 DEF Embeds
<1> QED BY <1>2, <1>3, <1>4

\* What is read from the last of some records that are not hidden.
LEMMA SameLast ==
  ASSUME NEW a, NEW b, Listed(a), Listed(b), NEW f, Embeds(f, a, b),
         NEW A \in SUBSET DOMAIN a, NEW B \in SUBSET DOMAIN b,
         \A i \in DOMAIN a : i \in A <=> f[i] \in B,
         \A j \in B : b[j].kind \notin Hidden
  PROVE  (IF A = {} THEN None ELSE a[Max(A)]) = (IF B = {} THEN None ELSE b[Max(B)])
<1>1. \A j \in B : \E i \in A : f[i] = j
  BY DEF Embeds
<1>2. A # {} => Max(A) \in A /\ f[Max(A)] \in B
  BY <1>1, LastMatches
<1>3. A # {} => a[Max(A)] = b[Max(B)]
  BY <1>1, <1>2, LastMatches
<1> QED BY <1>1, <1>2, <1>3

LEMMA SameOutcome ==
  ASSUME NEW a, NEW b, Thin(a, b)
  PROVE  LatestOutcome(a) = LatestOutcome(b)
<1>1. PICK f : Embeds(f, a, b)
  BY DEF Thin
<1> DEFINE Found(s) == {i \in DOMAIN s : s[i].kind = "outcome"}
<1>2. \A s : LatestOutcome(s) = IF Found(s) = {} THEN None ELSE s[Max(Found(s))]
  BY DEF LatestOutcome, LastOf
<1>3. /\ \A i \in DOMAIN a : i \in Found(a) <=> f[i] \in Found(b)
      /\ \A j \in Found(b) : b[j].kind \notin Hidden
  BY <1>1 DEF Embeds, Hidden
<1>4. PICK A, B : A = Found(a) /\ B = Found(b)
  OBVIOUS
<1>5. A \in SUBSET DOMAIN a /\ B \in SUBSET DOMAIN b
  BY <1>4
<1>6. (IF A = {} THEN None ELSE a[Max(A)]) = (IF B = {} THEN None ELSE b[Max(B)])
  <2>1. /\ \A i \in DOMAIN a : i \in A <=> f[i] \in B
        /\ \A j \in B : b[j].kind \notin Hidden
    BY <1>3, <1>4
  <2> QED BY <1>1, <1>5, <2>1, SameLast DEF Thin
<1> HIDE DEF Found
<1> QED BY <1>2, <1>4, <1>6

LEMMA SameTelling ==
  ASSUME NEW a, NEW b, Thin(a, b)
  PROVE  Telling(a) = Telling(b)
<1>1. PICK f : Embeds(f, a, b)
  BY DEF Thin
<1> DEFINE Tells(x) == \/ x.kind \in {"deliberation", "delegation", "wakeset"}
                       \/ x.kind = "report" /\ x.arg = "Blocked"
                       \/ x.kind = "outcome" /\ x.arg \in {"Delegated", "PolicyAborted",
                                                           "ProviderFailure"}
           Found(s) == {i \in DOMAIN s : Tells(s[i])}
           Final(s) == IF Found(s) = {} THEN None ELSE s[Max(Found(s))]
<1>2. \A i \in DOMAIN a : i \in Found(a) <=> f[i] \in Found(b)
  BY <1>1 DEF Embeds
<1>3. \A j \in Found(b) : b[j].kind \notin Hidden
  BY DEF Hidden
<1>4. Found(a) \in SUBSET DOMAIN a /\ Found(b) \in SUBSET DOMAIN b
  OBVIOUS
<1>5. Final(a) = Final(b)
  <2> HIDE DEF Found
  <2> QED BY <1>1, <1>2, <1>3, <1>4, SameLast DEF Thin
<1>6. AgentState(a).wake = AgentState(b).wake
  BY DEF Thin
<1>7. \A s : Telling(s) =
        LET r == Final(s)
        IN  CASE r.kind = "deliberation" -> "Reasoning"
              [] r.kind = "delegation" -> "Delegated"
              [] r.kind = "wakeset" -> "Scheduled"
              [] r.kind = "report" -> "WaitingExternal"
              [] r.kind = "outcome" -> IF r.arg = "Delegated" THEN "Delegated" ELSE "Errored"
              [] OTHER -> IF AgentState(s).wake # 0 THEN "Scheduled" ELSE "Idle"
  BY Zenon DEF Telling, LastOf
<1> HIDE DEF Final
<1> QED BY <1>5, <1>6, <1>7

LEMMA SameWakes ==
  ASSUME NEW a, NEW b, Thin(a, b)
  PROVE  WakeHistory(a) = WakeHistory(b)
<1>1. PICK f : Embeds(f, a, b)
  BY DEF Thin
<1> DEFINE Found(s) == {i \in DOMAIN s : \/ s[i].kind \in {"wakeset", "wakedone"}
                                         \/ s[i].kind = "trigger" /\ s[i].arg = "wake"}
           Rest(s, i) == {j \in Found(s) : i <= j}
           Rank(s, i) == Cardinality(Rest(s, i))
<1>2. \A i \in DOMAIN a : i \in Found(a) <=> f[i] \in Found(b)
  BY <1>1 DEF Embeds
<1>3. \A j \in Found(b) : \E i \in Found(a) : f[i] = j
  <2>1. \A j \in Found(b) : b[j].kind \notin Hidden
    BY DEF Hidden
  <2> QED BY <1>1, <1>2, <2>1 DEF Embeds
<1>4. /\ Len(a) \in Nat /\ DOMAIN a = 1..Len(a) /\ Len(b) \in Nat /\ DOMAIN b = 1..Len(b)
      /\ Found(a) \subseteq DOMAIN a /\ Found(b) \subseteq DOMAIN b
  BY ListedFacts DEF Thin
<1>5. /\ \A i \in Found(a) : i \in Nat /\ f[i] \in Nat /\ f[i] \in Found(b) /\ b[f[i]] = a[i]
      /\ \A i, j \in Found(a) : i < j => f[i] < f[j]
  BY <1>1, <1>2, <1>4 DEF Embeds
<1>6. ASSUME NEW i \in Found(a)
      PROVE  Rank(b, f[i]) = Rank(a, i)
  <2> HIDE DEF Found
  <2>1. PICK S, T : S = Rest(a, i) /\ T = Rest(b, f[i])
    OBVIOUS
  <2>2. PICK g : g = [j \in S |-> f[j]]
    OBVIOUS
  <2>3. \A j \in Found(a) : i <= j <=> f[i] <= f[j]
    <3>1. TAKE j \in Found(a)
    <3>2. i < j \/ i = j \/ j < i
      BY <1>5
    <3> QED BY <1>5, <3>2
  <2>4. g \in [S -> T]
    BY <1>5, <2>1, <2>2, <2>3
  <2>5. \A j, k \in S : g[j] = g[k] => j = k
    <3>1. TAKE j, k \in S
    <3>2. j < k \/ j = k \/ k < j
      BY <1>5, <2>1
    <3>3. g[j] = f[j] /\ g[k] = f[k] /\ j \in Found(a) /\ k \in Found(a)
      BY <2>1, <2>2
    <3>4. f[j] \in Nat /\ f[k] \in Nat /\ (j < k => f[j] < f[k]) /\ (k < j => f[k] < f[j])
      BY <1>5, <3>3
    <3> QED BY <3>2, <3>3, <3>4
  <2>6. \A t \in T : \E j \in S : g[j] = t
    <3>1. TAKE t \in T
    <3>2. t \in Found(b) /\ f[i] <= t
      BY <2>1
    <3>3. PICK j \in Found(a) : f[j] = t
      BY <1>3, <3>2
    <3>4. j \in S
      BY <2>1, <2>3, <3>2, <3>3
    <3> QED BY <2>2, <3>3, <3>4
  <2>7. g \in Bijection(S, T)
    BY <2>4, <2>5, <2>6 DEF Bijection, Injection, Surjection, IsInjective
  <2>8. IsFiniteSet(S)
    <3>1. S \in SUBSET (1..Len(a))
      BY <1>4, <2>1
    <3>2. IsFiniteSet(1..Len(a))
      BY <1>4, FS_Interval
    <3> QED BY <3>1, <3>2, FS_Subset
  <2>9. Cardinality(T) = Cardinality(S)
    BY <2>7, <2>8, FS_Bijection DEF ExistsBijection
  <2> QED BY <2>1, <2>9
<1>7. \A s : WakeHistory(s) = {<<Rank(s, i), s[i]>> : i \in {k \in Found(s) : Rank(s, k) <= 12}}
  BY Zenon DEF WakeHistory
<1> HIDE DEF Rank, Found
<1>8. WakeHistory(a) \subseteq WakeHistory(b)
  <2>1. \A i \in Found(a) : f[i] \in Found(b) /\ Rank(b, f[i]) = Rank(a, i) /\ b[f[i]] = a[i]
    BY <1>5, <1>6
  <2> QED BY <1>7, <2>1
<1>9. WakeHistory(b) \subseteq WakeHistory(a)
  <2>1. \A j \in Found(b) : \E i \in Found(a) : f[i] = j /\ Rank(b, j) = Rank(a, i) /\ b[j] = a[i]
    BY <1>3, <1>5, <1>6
  <2> QED BY <1>7, <2>1
<1> QED BY <1>8, <1>9

\* A session whose last record is an outcome.
Finished(s) == Listed(s) /\ s # << >> /\ s[Len(s)].kind = "outcome"

LEMMA FinishedHasNoGraph ==
  ASSUME NEW s, Finished(s)
  PROVE  ActiveGraph(s) = None
<1>1. PICK S : s \in Seq(S)
  BY DEF Finished, Listed
<1>2. Len(s) \in Nat /\ DOMAIN s = 1..Len(s) /\ Len(s) \in DOMAIN s
  BY <1>1 DEF Finished
<1> DEFINE at == {i \in DOMAIN s : s[i].kind = "outcome"}
<1>3. Len(s) \in at /\ at \in SUBSET (1..Len(s))
  BY <1>2 DEF Finished
<1>4. at # {} /\ Max(at) = Len(s)
  <2> HIDE DEF at
  <2> QED BY <1>2, <1>3, MaxOf
<1>5. PICK tail : tail = SubSeq(s, Len(s) + 1, Len(s))
  OBVIOUS
<1>6. SinceOutcome(s) = tail
  BY <1>4, <1>5 DEF SinceOutcome
<1>7. DOMAIN tail = {}
  BY <1>1, <1>2, <1>5
<1>8. LastOf(tail, LAMBDA r : r.kind = "graph") = None
  BY <1>7 DEF LastOf
<1> QED BY <1>6, <1>8, Zenon DEF ActiveGraph

\* The approval that is shown as pending is the same one, or one that was given by then.
LEMMA ApprovalFacts ==
  ASSUME NEW a, NEW b, Thin(a, b), NEW o
  PROVE  \/ PendingApproval(a, o) = PendingApproval(b, o)
         \/ /\ \E j \in DOMAIN b : b[j].kind = "pending" /\ b[j] = PendingApproval(a, o)
            /\ Resolved(b, PendingApproval(a, o).ref)
            /\ PendingApproval(b, o) = None \/ ~Resolved(b, PendingApproval(b, o).ref)
<1>1. PICK f : Embeds(f, a, b)
  BY DEF Thin
<1> DEFINE Found(s) == {i \in DOMAIN s : /\ s[i].kind = "pending" /\ ~Resolved(s, s[i].ref)
                                         /\ o.arg = "Suspended" => s[i].ref = o.ref}
<1>2. \A s : PendingApproval(s, o) = IF Found(s) = {} THEN None ELSE s[Max(Found(s))]
  BY DEF PendingApproval, LastOf
<1>3. PICK A, B : A = Found(a) /\ B = Found(b)
  OBVIOUS
<1>4. A \in SUBSET DOMAIN a /\ B \in SUBSET DOMAIN b
  BY <1>3
<1>5. \A token : Resolved(a, token) => Resolved(b, token)
  BY <1>1 DEF Resolved, Embeds
<1>6. \A j \in B : \E i \in A : f[i] = j
  <2>1. TAKE j \in B
  <2>2. j \in DOMAIN b /\ b[j].kind = "pending" /\ ~Resolved(b, b[j].ref)
        /\ (o.arg = "Suspended" => b[j].ref = o.ref)
    BY <1>3
  <2>3. PICK i \in DOMAIN a : f[i] = j
    BY <1>1, <2>2 DEF Embeds, Hidden
  <2>4. a[i] = b[j]
    BY <1>1, <2>3 DEF Embeds
  <2>5. i \in A
    BY <1>3, <1>5, <2>2, <2>4
  <2> QED BY <2>3, <2>5
<1>7. Listed(a) /\ Listed(b)
  BY DEF Thin
<1>8. CASE A = {}
  BY <1>2, <1>3, <1>6, <1>8
<1>9. ASSUME A # {}, f[Max(A)] \in B
      PROVE  PendingApproval(a, o) = PendingApproval(b, o)
  <2>1. a[Max(A)] = b[Max(B)]
    BY <1>1, <1>4, <1>6, <1>7, <1>9, LastMatches
  <2> HIDE DEF Found
  <2> QED BY <1>2, <1>3, <1>9, <2>1
<1>10. ASSUME A # {}, f[Max(A)] \notin B
       PROVE  /\ \E j \in DOMAIN b : b[j].kind = "pending" /\ b[j] = PendingApproval(a, o)
              /\ Resolved(b, PendingApproval(a, o).ref)
              /\ PendingApproval(b, o) = None \/ ~Resolved(b, PendingApproval(b, o).ref)
  <2>1. (A # {} => Max(A) \in A) /\ (B # {} => Max(B) \in B)
    BY <1>1, <1>4, <1>6, <1>7, LastMatches
  <2>2. PICK k \in A : k = Max(A)
    BY <1>10, <2>1
  <2>3. /\ k \in DOMAIN a /\ a[k].kind = "pending" /\ (o.arg = "Suspended" => a[k].ref = o.ref)
        /\ f[k] \notin B
    BY <1>3, <1>10, <2>2
  <2>4. f[k] \in DOMAIN b /\ b[f[k]] = a[k]
    BY <1>1, <2>3 DEF Embeds
  <2>5. Resolved(b, a[k].ref)
    BY <1>3, <2>3, <2>4
  <2>6. PendingApproval(a, o) = a[k]
    <3> HIDE DEF Found
    <3> QED BY <1>2, <1>3, <1>10, <2>2
  <2>7. B # {} => ~Resolved(b, b[Max(B)].ref)
    <3>1. \A j \in B : ~Resolved(b, b[j].ref)
      BY <1>3
    <3> QED BY <2>1, <3>1
  <2>8. PendingApproval(b, o) = None \/ ~Resolved(b, PendingApproval(b, o).ref)
    <3> HIDE DEF Found
    <3> QED BY <1>2, <1>3, <2>7
  <2> QED BY <2>3, <2>4, <2>5, <2>6, <2>8
<1> HIDE DEF Found
<1> QED BY <1>8, <1>9, <1>10

\* The views of a finished session and of what is left of it without the hidden records.
LEMMA ThinViews ==
  ASSUME NEW a, NEW b, Thin(a, b), Finished(a), Finished(b),
         \A j \in DOMAIN b : b[j].kind = "pending" => b[j].ref # 0,
         NEW now, NEW past,
         now = View(a, LatestOutcome(a)), past = View(b, LatestOutcome(b))
  PROVE  \/ now = past
         \/ /\ now.approval # past.approval /\ Resolved(b, now.approval)
            /\ \A f \in {"outcome", "task", "wake", "wakes", "graph"} : now[f] = past[f]
<1>1. PICK o : o = LatestOutcome(a)
  OBVIOUS
<1>2. LatestOutcome(b) = o
  BY <1>1, SameOutcome
<1>3. /\ AgentState(a) = AgentState(b) /\ WakeHistory(a) = WakeHistory(b)
      /\ ActiveGraph(a) = None /\ ActiveGraph(b) = None /\ Telling(a) = Telling(b)
      /\ a # << >> /\ b # << >>
  BY SameWakes, SameTelling, FinishedHasNoGraph DEF Thin, Finished
<1>4. PICK p, q : p = PendingApproval(a, o) /\ q = PendingApproval(b, o)
  OBVIOUS
<1>5. /\ DOMAIN now = {"status", "activity", "outcome", "approval", "task", "wake", "wakes",
                        "graph"}
      /\ now.outcome = o /\ now.approval = p.ref /\ now.graph = None.ref
      /\ now.task = CurrentTask(AgentState(a)) /\ now.wake = AgentState(a).wake
      /\ now.wakes = WakeHistory(a)
  BY <1>1, <1>3, <1>4 DEF View
<1>6. /\ past.outcome = o /\ past.approval = q.ref /\ past.graph = None.ref
      /\ past.task = CurrentTask(AgentState(a)) /\ past.wake = AgentState(a).wake
      /\ past.wakes = WakeHistory(a)
  BY <1>2, <1>3, <1>4 DEF View
<1>7. CASE p = q
  <2>1. Status(a, o) = Status(b, o)
    BY <1>3, <1>4, <1>7, Zenon DEF Status
  <2>2. Activity(a, o) = Activity(b, o)
    BY <1>3, <1>4, <1>7, Zenon DEF Activity
  <2>3. now = past
    BY <1>1, <1>2, <1>3, <1>4, <1>7, <2>1, <2>2 DEF View
  <2> QED BY <2>3
<1>8. CASE p # q
  <2>1. /\ \E j \in DOMAIN b : b[j].kind = "pending" /\ b[j] = p
        /\ Resolved(b, p.ref)
        /\ q = None \/ ~Resolved(b, q.ref)
    BY <1>4, <1>8, ApprovalFacts
  <2>2. p.ref # 0
    BY <2>1
  <2>3. p.ref # q.ref
    <3>1. None.ref = 0
      BY DEF None, Rec
    <3>2. q # None => ~Resolved(b, q.ref)
      BY <2>1
    <3>3. CASE p.ref = q.ref
      BY <2>1, <2>2, <3>1, <3>2, <3>3
    <3> QED BY <3>3
  <2>4. \A f \in {"outcome", "task", "wake", "wakes", "graph"} : now[f] = past[f]
    BY <1>5, <1>6
  <2> QED BY <1>5, <1>6, <2>1, <2>3, <2>4
<1> QED BY <1>7, <1>8

\* The ledger, as it came to be shown.
Ledger == Records(rows)

\* What may come to be appended: kept or hidden; and an approval has a token.
Told(todo) == Listed(todo) /\ \A x \in ToSet(todo) : x.kept \/ x.rec.kind \in Hidden
Tokened(todo) == Listed(todo) /\ \A x \in ToSet(todo) : x.rec.kind = "pending" => x.rec.ref # 0
Ending(todo) == todo # << >> /\ todo[Len(todo)].kept /\ todo[Len(todo)].rec.kind = "outcome"

\* An advance that has planned holds the whole ledger but for hidden records, and
\* one that is to leave a projection has appended an outcome, or is going to.
Faithful(f) ==
  /\ Tokened(f.todo)
  /\ f.pc \in {"resolve", "step", "between", "cache"} => Thin(f.ctx, Ledger) /\ Told(f.todo)
  /\ f.pc = "cache" => IF f.todo = << >> THEN Finished(f.ctx) /\ Finished(Ledger)
                       ELSE Ending(f.todo)

\* Rows are shown in the order of their numbers.
InOrder == Ordered /\ \A d \in Drivers : run[d].seq # 0 =>
                        \A i \in DOMAIN rows : rows[i].seq < run[d].seq

\* The projection is of a first part of the ledger, up to an outcome.
Projected ==
  cache # << >> =>
    \E b : /\ Thin(cache, b) /\ Finished(cache) /\ Finished(b)
           /\ Len(b) <= Len(rows) /\ \A i \in DOMAIN b : b[i] = rows[i].rec

ViewInv == /\ InOrder /\ Projected
           /\ \A r \in Shown : r.kind = "pending" => r.ref # 0
           /\ \A d \in Drivers : Faithful(run[d])

LEMMA LedgerFacts ==
  ASSUME Numbered
  PROVE  /\ Listed(Ledger) /\ Len(Ledger) = Len(rows) /\ DOMAIN Ledger = DOMAIN rows
         /\ \A i \in DOMAIN rows : Ledger[i] = rows[i].rec
<1>1. Len(rows) \in Nat /\ DOMAIN rows = 1..Len(rows)
  BY RowsAreIndexed
<1>2. Ledger = [i \in 1..Len(rows) |-> rows[i].rec]
  BY <1>1 DEF Ledger, Records
<1>3. Ledger \in Seq({rows[i].rec : i \in 1..Len(rows)})
  BY <1>1, <1>2
<1>4. Len(Ledger) = Len(rows) /\ DOMAIN Ledger = DOMAIN rows
  BY <1>1, <1>2
<1>5. \A i \in DOMAIN rows : Ledger[i] = rows[i].rec
  BY <1>1, <1>2
<1>6. Listed(Ledger)
  BY <1>3 DEF Listed
<1> QED BY <1>4, <1>5, <1>6

\* What is loaded is the ledger, as it came to be shown.
LEMMA LoadedInOrder ==
  ASSUME Numbered, Ordered
  PROVE  Loaded = Ledger
<1>1. /\ Len(rows) \in Nat /\ DOMAIN rows = 1..Len(rows)
      /\ \A i \in DOMAIN rows : rows[i].seq \in Nat
  BY RowsAreIndexed
<1>2. ASSUME NEW i \in DOMAIN rows PROVE Place(i) = i
  <2>1. {j \in DOMAIN rows : rows[j].seq <= rows[i].seq} = 1..i
    <3>1. \A j \in DOMAIN rows : rows[j].seq <= rows[i].seq <=> j <= i
      <4>1. TAKE j \in DOMAIN rows
      <4>2. j < i \/ j = i \/ i < j
        BY <1>1
      <4>3. (j < i => rows[j].seq < rows[i].seq) /\ (i < j => rows[i].seq < rows[j].seq)
        BY DEF Ordered
      <4> QED BY <1>1, <4>2, <4>3
    <3> QED BY <1>1, <3>1
  <2>2. i \in Nat
    BY <1>1
  <2>3. Cardinality(1..i) = i
    BY <2>2, FS_Interval
  <2> QED BY <2>1, <2>3 DEF Place
<1>3. /\ DOMAIN Queried = 1..Len(rows)
      /\ \A i \in DOMAIN rows : Queried[Where(i)] = rows[i]
  BY QueriedFacts
<1>4. \A i \in 1..Len(rows) : Queried[i] = rows[i]
  BY <1>1, <1>2, <1>3 DEF Where
<1> QED BY <1>1, <1>3, <1>4 DEF Loaded, Ledger, Records

\* The projection is not of anything else: what is served is what was served then.
LEMMA ViewInvMeans ==
  ASSUME Numbered, ViewInv
  PROVE  ViewsReconstructable
<1>1. SUFFICES ASSUME cache # << >>
               PROVE  \E n \in 0..Len(rows) :
                 LET then == SubSeq(Loaded, 1, n)
                     past == View(then, LatestOutcome(then))
                     now == View(Served, LatestOutcome(Served))
                 IN  \/ now = past
                     \/ /\ now.approval # past.approval /\ Resolved(Loaded, now.approval)
                        /\ \A f \in {"outcome", "task", "wake", "wakes", "graph"} :
                             now[f] = past[f]
  BY DEF ViewsReconstructable
<1>2. PICK b : /\ Thin(cache, b) /\ Finished(cache) /\ Finished(b)
               /\ Len(b) <= Len(rows) /\ \A i \in DOMAIN b : b[i] = rows[i].rec
  BY <1>1 DEF ViewInv, Projected
<1>3. /\ Len(b) \in Nat /\ DOMAIN b = 1..Len(b)
      /\ Len(rows) \in Nat /\ DOMAIN rows = 1..Len(rows)
  BY <1>2, ListedFacts, RowsAreIndexed DEF Finished
<1>4. /\ Loaded = Ledger /\ Listed(Ledger) /\ Len(Ledger) = Len(rows)
      /\ \A i \in DOMAIN rows : Ledger[i] = rows[i].rec
  BY LoadedInOrder, LedgerFacts DEF ViewInv, InOrder
<1>5. SubSeq(Loaded, 1, Len(b)) = b
  <2>1. PICK S : Ledger \in Seq(S)
    BY <1>4 DEF Listed
  <2>2. PICK T : b \in Seq(T)
    BY <1>2 DEF Finished, Listed
  <2>3. PICK c : c = SubSeq(Ledger, 1, Len(b))
    OBVIOUS
  <2>4. /\ c \in Seq(S) /\ Len(c) = Len(b)
        /\ \A i \in 1..Len(b) : c[i] = Ledger[i]
    BY <1>2, <1>3, <1>4, <2>1, <2>3
  <2>5. \A i \in 1..Len(b) : c[i] = b[i]
    BY <1>2, <1>3, <1>4, <2>4
  <2>6. c = b
    BY <1>3, <2>2, <2>4, <2>5
  <2> QED BY <1>4, <2>3, <2>6
<1>6. \A j \in DOMAIN b : b[j].kind = "pending" => b[j].ref # 0
  <2>1. \A j \in DOMAIN b : b[j] \in Shown
    BY <1>2, <1>3 DEF Shown
  <2> QED BY <2>1 DEF ViewInv
<1>7. Served = cache
  BY <1>1 DEF Served
<1>8. PICK now, past : now = View(cache, LatestOutcome(cache)) /\ past = View(b, LatestOutcome(b))
  OBVIOUS
<1>9. \/ now = past
      \/ /\ now.approval # past.approval /\ Resolved(b, now.approval)
         /\ \A f \in {"outcome", "task", "wake", "wakes", "graph"} : now[f] = past[f]
  BY <1>2, <1>6, <1>8, ThinViews
<1>10. \A token : Resolved(b, token) => Resolved(Loaded, token)
  <2>1. \A j \in DOMAIN b : j \in DOMAIN Ledger /\ Ledger[j] = b[j]
    BY <1>2, <1>3, <1>4, LedgerFacts
  <2> QED BY <1>4, <2>1 DEF Resolved
<1>11. Len(b) \in 0..Len(rows)
  BY <1>2, <1>3
<1> QED BY <1>5, <1>7, <1>8, <1>9, <1>10, <1>11

\* Lists of records to append that fit an advance which holds the ledger.
Fits(todo) == Told(todo) /\ Tokened(todo)
FitsDue(x) == (x.kept \/ x.rec.kind \in Hidden) /\ (x.rec.kind = "pending" => x.rec.ref # 0)

LEMMA FitsFacts ==
  /\ \A todo : Fits(todo) <=> Listed(todo) /\ \A x \in ToSet(todo) : FitsDue(x)
  /\ Fits(<< >>)
  /\ \A x : FitsDue(x) => Fits(<<x>>)
  /\ \A u, v : Fits(u) /\ Fits(v) => Fits(u \o v)
<1>1. \A todo : Fits(todo) <=> Listed(todo) /\ \A x \in ToSet(todo) : FitsDue(x)
  BY DEF Fits, FitsDue, Told, Tokened
<1>2. Fits(<< >>)
  BY <1>1, NoneFacts
<1>3. \A x : FitsDue(x) => Fits(<<x>>)
  <2>1. TAKE x
  <2>2. PICK todo : todo = <<x>> /\ Listed(todo) /\ ToSet(todo) = {x}
    BY OneFacts
  <2>3. FitsDue(x) => Fits(todo)
    BY <1>1, <2>2
  <2> QED BY <2>2, <2>3
<1>4. \A u, v : Fits(u) /\ Fits(v) => Fits(u \o v)
  <2>1. SUFFICES ASSUME NEW u, NEW v, Fits(u), Fits(v) PROVE Fits(u \o v)
    OBVIOUS
  <2>2. /\ Listed(u) /\ Listed(v)
        /\ \A x \in ToSet(u) : FitsDue(x)
        /\ \A x \in ToSet(v) : FitsDue(x)
    BY <1>1, <2>1
  <2>3. PICK w : w = u \o v
    OBVIOUS
  <2>4. Listed(w) /\ ToSet(w) = ToSet(u) \cup ToSet(v)
    BY <2>2, <2>3, ConcatFacts
  <2>5. Fits(w)
    BY <1>1, <2>2, <2>4
  <2> QED BY <2>3, <2>5
<1> QED BY <1>1, <1>2, <1>3, <1>4

\* The last of two lists ends in what the second ends in.
LEMMA EndsLast ==
  ASSUME NEW u, NEW v, Listed(u), Listed(v), Ending(v)
  PROVE  Ending(u \o v)
<1>1. PICK S : u \in Seq(S)
  BY DEF Listed
<1>2. PICK T : v \in Seq(T)
  BY DEF Listed
<1>3. PICK w : w = u \o v
  OBVIOUS
<1>4. u \in Seq(S \cup T) /\ v \in Seq(S \cup T)
  BY <1>1, <1>2
<1>5. v # << >> /\ Len(v) \in Nat /\ Len(u) \in Nat /\ Len(v) >= 1
  BY <1>4 DEF Ending
<1>6. Len(w) = Len(u) + Len(v) /\ w[Len(u) + Len(v)] = v[Len(v)] /\ w # << >>
  BY <1>3, <1>4, <1>5
<1> QED BY <1>3, <1>6 DEF Ending

LEMMA FinishFits ==
  ASSUME NEW t, NEW stop, NEW token
  PROVE  Fits(Finish(t, stop, token)) /\ Ending(Finish(t, stop, token))
<1>1. PICK x : x = Do(Rec("outcome", t, token, stop), TRUE, TRUE)
  OBVIOUS
<1>2. x.kept /\ x.rec.kind = "outcome"
  BY <1>1 DEF Do, Rec
<1>3. FitsDue(x)
  BY <1>2 DEF FitsDue
<1>4. PICK todo : todo = <<x>> /\ Fits(todo)
  BY <1>3, FitsFacts
<1>5. todo # << >> /\ todo[Len(todo)] = x
  BY <1>4
<1>6. Ending(todo)
  BY <1>2, <1>5 DEF Ending
<1>7. Finish(t, stop, token) = todo
  BY <1>1, <1>4 DEF Finish
<1> QED BY <1>4, <1>6, <1>7

\* A record that is kept, other than a pending approval, and a hidden one.
LEMMA DuesFit ==
  ASSUME NEW k, NEW t, NEW ref, NEW arg
  PROVE  /\ k # "pending" \/ ref # 0 => FitsDue(Hard(Rec(k, t, ref, arg)))
         /\ k \in Hidden => FitsDue(Aside(Rec(k, t, ref, arg)))
                            /\ FitsDue(Do(Rec(k, t, ref, arg), TRUE, FALSE))
BY DEF FitsDue, Hard, Aside, Do, Rec, Hidden

LEMMA RunsFits == \A t, call : Fits(Runs(t, call))
<1> TAKE t, call
<1>1. PICK x, y, z : /\ x = Aside(Rec("graph", t, call, ""))
                     /\ y = Aside(Rec("joined", t, call, ""))
                     /\ z = Hard(Rec("result", t, call, "ok"))
  OBVIOUS
<1>2. FitsDue(x) /\ FitsDue(y) /\ FitsDue(z)
  BY <1>1, DuesFit DEF Hidden
<1>3. PICK todo : todo = <<x, y, z>> /\ Listed(todo) /\ ToSet(todo) = {x, y, z}
  BY ThreeFacts
<1>4. Fits(todo)
  BY <1>2, <1>3, FitsFacts
<1>5. Runs(t, call) = todo
  BY <1>1, <1>3 DEF Runs
<1> QED BY <1>4, <1>5

LEMMA TriggerEventsFit == \A r : Fits(TriggerEvents(r))
<1> TAKE r
<1>1. CASE r.kind \in {"human", "external"}
  BY <1>1, DuesFit, FitsFacts DEF TriggerEvents
<1>2. CASE r.kind = "wake"
  BY <1>2, DuesFit, FitsFacts DEF TriggerEvents
<1>3. CASE r.kind \notin {"human", "external", "wake"}
  BY <1>3, FitsFacts DEF TriggerEvents
<1> QED BY <1>1, <1>2, <1>3

LEMMA CarriedFits ==
  ASSUME NEW act \in Acts, NEW t \in Nat, NEW n \in Nat, n # 0
  PROVE  Fits(Carried(act, t, n)) /\ (Ends(act) => Ending(Carried(act, t, n)))
<1>1. \A u : Fits(u) => Listed(u)
  BY FitsFacts
<1>2. CASE act = "Respond"
  BY <1>2, FinishFits DEF Carried
<1>3. CASE act = "Yield"
  BY <1>3, FinishFits DEF Carried
<1>4. CASE act = "Continue"
  BY <1>4, FitsFacts DEF Carried, Ends
<1>5. CASE act = "Plan"
  BY <1>5, DuesFit, FitsFacts DEF Carried, Ends
<1>6. CASE act = "Search"
  <2>1. PICK todo : todo = [i \in 1..2 |-> Hard(Rec("observed", t, i, act))]
    OBVIOUS
  <2>2. \A i \in 1..2 : FitsDue(todo[i])
    BY <2>1, DuesFit
  <2>3. DOMAIN todo = 1..2 /\ todo \in Seq({todo[i] : i \in 1..2})
    BY <2>1
  <2>4. Fits(todo)
    BY <2>2, <2>3, FitsFacts DEF Listed, ToSet
  <2>5. Carried(act, t, n) = todo
    BY <1>6, <2>1 DEF Carried
  <2> QED BY <1>6, <2>4, <2>5 DEF Ends
<1>7. CASE act = "Call"
  BY <1>7, RunsFits DEF Carried, Ends
<1>8. CASE act = "Ask"
  <2>1. 10 * t + n # 0
    OBVIOUS
  <2>2. PICK u, v : /\ u = <<Hard(Rec("pending", t, 10 * t + n, ""))>>
                    /\ v = Finish(t, "Suspended", 10 * t + n)
    OBVIOUS
  <2>3. Fits(u) /\ Fits(v) /\ Ending(v)
    BY <2>1, <2>2, DuesFit, FitsFacts, FinishFits
  <2>4. Fits(u \o v) /\ Ending(u \o v)
    BY <1>1, <2>3, FitsFacts, EndsLast
  <2>5. Carried(act, t, n) = u \o v
    BY <1>8, <2>2, Zenon DEF Carried
  <2> QED BY <2>4, <2>5
<1>9. CASE act = "Delegate"
  <2>1. PICK x, y, v : /\ x = Hard(Rec("delegation", t, t, ""))
                       /\ y = Hard(Rec("observed", t, t, ""))
                       /\ v = Finish(t, "Delegated", t)
    OBVIOUS
  <2>2. PICK u : u = <<x, y>> /\ Listed(u) /\ ToSet(u) = {x, y}
    BY TwoFacts
  <2>3. FitsDue(x) /\ FitsDue(y)
    BY <2>1, DuesFit
  <2>4. Fits(u) /\ Fits(v) /\ Ending(v)
    BY <2>1, <2>2, <2>3, FitsFacts, FinishFits
  <2>5. Fits(u \o v) /\ Ending(u \o v)
    BY <1>1, <2>4, FitsFacts, EndsLast
  <2>6. Carried(act, t, n) = u \o v
    BY <1>9, <2>1, <2>2, Zenon DEF Carried
  <2> QED BY <2>5, <2>6
<1> QED BY <1>2, <1>3, <1>4, <1>5, <1>6, <1>7, <1>8, <1>9 DEF Acts

LEMMA OthersRest ==
  ASSUME Numbered, BusyMet, met = {}, NEW d \in Drivers, run[d].pc # "idle"
  PROVE  \A e \in Drivers \ {d} : run[e] = Idle
<1>1. SUFFICES ASSUME NEW e \in Drivers \ {d}, run[e].pc # "idle" PROVE FALSE
  BY DEF Numbered
<1>2. d \in Busy /\ e \in Busy
  BY <1>1 DEF Busy
<1> QED BY <1>2 DEF BusyMet

LEMMA IdleIsFaithful == Faithful(Idle)
<1>1. Idle.pc = "idle" /\ Idle.todo = << >>
  BY DEF Idle
<1>2. Tokened(<< >>)
  BY NoneFacts DEF Tokened
<1> QED BY <1>1, <1>2 DEF Faithful

\* A step by which advance d goes on as f and nothing comes to be shown.
LEMMA ViewGoing ==
  ASSUME Numbered, ViewInv, NEW d \in Drivers, NEW f, run' = [run EXCEPT ![d] = f],
         UNCHANGED <<rows, cache>>, f.seq \in {0, run[d].seq}, Faithful(f)
  PROVE  ViewInv'
<1>1. run'[d] = f /\ \A e \in Drivers \ {d} : run'[e] = run[e]
  BY DEF Numbered
<1>2. Ledger' = Ledger /\ Shown' = Shown /\ Ordered' = Ordered
  BY DEF Ledger, Records, Shown, Ordered
<1>3. InOrder'
  BY <1>1, <1>2 DEF ViewInv, InOrder
<1>4. Projected'
  BY DEF ViewInv, Projected
<1>5. \A e \in Drivers : Faithful(run[e])'
  <2>1. TAKE e \in Drivers
  <2>2. Faithful(run'[e])
    BY <1>1 DEF ViewInv
  <2> QED BY <1>2, <2>2 DEF Faithful
<1> QED BY <1>2, <1>3, <1>4, <1>5 DEF ViewInv

LEMMA IdleKeepsView ==
  ASSUME Numbered, ViewInv, NEW d \in Drivers, run' = [run EXCEPT ![d] = Idle],
         UNCHANGED <<rows, cache>>
  PROVE  ViewInv'
<1>1. Idle.seq = 0
  BY DEF Idle
<1> QED BY <1>1, IdleIsFaithful, ViewGoing

LEMMA NumberKeepsView ==
  ASSUME Numbered, ViewInv, NEW d \in Drivers, Number(d)
  PROVE  ViewInv'
<1>1. PICK f : f = [run[d] EXCEPT !.seq = numbers + 1]
  OBVIOUS
<1>2. run' = [run EXCEPT ![d] = f] /\ UNCHANGED <<rows, cache>>
  BY <1>1 DEF Number
<1>3. /\ f.todo = run[d].todo /\ f.ctx = run[d].ctx /\ f.pc = run[d].pc
      /\ f.seq = numbers + 1
  BY <1>1 DEF Numbered, Fields
<1>4. run'[d] = f /\ \A e \in Drivers \ {d} : run'[e] = run[e]
  BY <1>2 DEF Numbered
<1>5. Ledger' = Ledger /\ Shown' = Shown /\ Ordered' = Ordered
  BY <1>2 DEF Ledger, Records, Shown, Ordered
<1>6. InOrder'
  <2>1. \A i \in DOMAIN rows : rows[i].seq < numbers + 1
    BY DEF Numbered
  <2> QED BY <1>2, <1>3, <1>4, <1>5, <2>1 DEF ViewInv, InOrder
<1>7. Projected'
  BY <1>2 DEF ViewInv, Projected
<1>8. \A e \in Drivers : Faithful(run[e])'
  <2>1. TAKE e \in Drivers
  <2>2. /\ run'[e].todo = run[e].todo /\ run'[e].ctx = run[e].ctx /\ run'[e].pc = run[e].pc
        /\ Faithful(run[e])
    BY <1>3, <1>4 DEF ViewInv
  <2> QED BY <1>5, <2>2 DEF Faithful
<1> QED BY <1>5, <1>6, <1>7, <1>8 DEF ViewInv

\* The first of what advance f has to append is shown.
LEMMA AppendedIsFaithful ==
  ASSUME NEW f, NEW g, NEW x, f.todo # << >>, x = Head(f.todo), Faithful(f),
         g.todo = Tail(f.todo), g.ctx = Kept(f), g.pc = f.pc,
         Listed(Ledger), Ledger' = Append(Ledger, x.rec)
  PROVE  Faithful(g)'
<1>1. PICK S : f.todo \in Seq(S)
  BY DEF Faithful, Tokened, Listed
<1>2. /\ Listed(g.todo) /\ ToSet(g.todo) \subseteq ToSet(f.todo) /\ x \in ToSet(f.todo)
  BY ListedFacts DEF Faithful, Tokened
<1>3. Tokened(g.todo)
  BY <1>2 DEF Faithful, Tokened
<1>4. PICK r : r = x.rec
  OBVIOUS
<1>5. ASSUME f.pc \in {"resolve", "step", "between", "cache"}
      PROVE  Thin(g.ctx, Ledger') /\ Told(g.todo)
  <2>1. Thin(f.ctx, Ledger) /\ (x.kept \/ r.kind \in Hidden)
    BY <1>2, <1>4, <1>5 DEF Faithful, Told
  <2>2. CASE x.kept
    <3>1. g.ctx = Append(f.ctx, r)
      BY <1>4, <2>2 DEF Kept
    <3> QED BY <1>2, <1>4, <1>5, <2>1, <3>1, ThinBoth DEF Faithful, Told
  <2>3. CASE ~x.kept
    <3>1. g.ctx = f.ctx /\ r.kind \in Hidden
      BY <2>1, <2>3 DEF Kept
    <3> QED BY <1>2, <1>4, <1>5, <2>1, <3>1, ThinHidden DEF Faithful, Told
  <2> QED BY <2>2, <2>3
<1>6. ASSUME f.pc = "cache"
      PROVE  IF g.todo = << >> THEN Finished(g.ctx) /\ Finished(Ledger') ELSE Ending(g.todo)
  <2>1. f.todo[Len(f.todo)].kept /\ f.todo[Len(f.todo)].rec.kind = "outcome"
    BY <1>6 DEF Faithful, Ending
  <2>2. /\ Len(f.todo) \in Nat /\ Len(f.todo) >= 1 /\ Head(f.todo) = f.todo[1]
        /\ Tail(f.todo) = << >> <=> Len(f.todo) = 1
        /\ Len(f.todo) > 1 => Tail(f.todo)[Len(Tail(f.todo))] = f.todo[Len(f.todo)]
    <3>1. PICK s : s = f.todo /\ s \in Seq(S) /\ s # << >>
      BY <1>1
    <3>2. Len(s) \in Nat /\ Len(s) >= 1 /\ Head(s) = s[1]
      BY <3>1
    <3>3. /\ Tail(s) \in Seq(S) /\ Len(Tail(s)) = Len(s) - 1
          /\ \A i \in 1..(Len(s) - 1) : Tail(s)[i] = s[i + 1]
      BY <3>1
    <3>4. Tail(s) = << >> <=> Len(s) = 1
      BY <3>2, <3>3
    <3>5. Len(s) > 1 => Tail(s)[Len(s) - 1] = s[Len(s)]
      <4>1. SUFFICES ASSUME Len(s) > 1 PROVE Tail(s)[Len(s) - 1] = s[Len(s)]
        OBVIOUS
      <4>2. Len(s) - 1 \in 1..(Len(s) - 1) /\ (Len(s) - 1) + 1 = Len(s)
        BY <3>2, <4>1
      <4> QED BY <3>3, <4>2
    <3> QED BY <3>1, <3>2, <3>3, <3>4, <3>5
  <2>3. CASE g.todo = << >>
    <3>1. x.kept /\ r.kind = "outcome"
      BY <1>4, <2>1, <2>2, <2>3
    <3>2. g.ctx = Append(f.ctx, r) /\ Listed(f.ctx)
      BY <1>4, <1>6, <3>1 DEF Kept, Faithful, Thin
    <3>3. \A s : Listed(s) => Finished(Append(s, r))
      <4>1. SUFFICES ASSUME NEW s, Listed(s) PROVE Finished(Append(s, r))
        OBVIOUS
      <4>2. PICK u : u = Append(s, r)
        OBVIOUS
      <4>3. u # << >> /\ Listed(u) /\ u[Len(u)] = r
        BY <4>1, <4>2, AppendedAt
      <4> QED BY <3>1, <4>2, <4>3 DEF Finished
    <3> QED BY <1>4, <2>3, <3>2, <3>3
  <2>4. CASE g.todo # << >>
    BY <2>1, <2>2, <2>4 DEF Ending
  <2> QED BY <2>3, <2>4
<1> QED BY <1>3, <1>5, <1>6 DEF Faithful

LEMMA PushKeepsView ==
  ASSUME Numbered, Held, BusyMet, met = {}, ViewInv, NEW d \in Drivers, Push(d)
  PROVE  ViewInv'
<1>1. PICK x, r : /\ run[d].todo # << >> /\ x = Head(run[d].todo) /\ r = x.rec
                  /\ rows' = Append(rows, [seq |-> run[d].seq, rec |-> r])
                  /\ Shown' = Shown \cup {r}
  BY PushShows
<1>2. PICK g : g = [run[d] EXCEPT !.ctx = Kept(run[d]), !.todo = Tail(run[d].todo), !.seq = 0]
  OBVIOUS
<1>3. run' = [run EXCEPT ![d] = g] /\ UNCHANGED cache /\ run[d].seq # 0
  BY <1>2, Zenon DEF Push
<1>4. DOMAIN run = Drivers /\ DOMAIN run[d] = Fields /\ run[d].pc # "idle"
  <2>1. Idle.todo = << >>
    BY DEF Idle
  <2> QED BY <1>1, <2>1 DEF Numbered
<1>5. g.todo = Tail(run[d].todo) /\ g.ctx = Kept(run[d]) /\ g.pc = run[d].pc /\ g.seq = 0
  BY <1>2, <1>4 DEF Fields
<1>6. run'[d] = g /\ \A e \in Drivers \ {d} : run'[e] = Idle
  BY <1>3, <1>4, OthersRest
<1>7. PICK q : q = run[d].seq
  OBVIOUS
<1>8. /\ DOMAIN rows' = 1..(Len(rows) + 1) /\ rows'[Len(rows) + 1].rec = r
      /\ rows'[Len(rows) + 1].seq = q /\ \A i \in DOMAIN rows : rows'[i] = rows[i]
      /\ Len(rows) \in Nat /\ DOMAIN rows = 1..Len(rows) /\ Len(rows') = Len(rows) + 1
  <2>1. PICK new : new = [seq |-> q, rec |-> r]
    OBVIOUS
  <2>2. rows' = Append(rows, new) /\ new.seq = q /\ new.rec = r
    BY <1>1, <1>7, <2>1
  <2>3. Listed(rows)
    BY DEF Numbered, Listed
  <2> QED BY <2>2, <2>3, AppendedAt
<1>9. InOrder'
  <2>1. \A i \in DOMAIN rows : rows[i].seq < q
    BY <1>3, <1>7 DEF ViewInv, InOrder
  <2>2. Ordered'
    <3>1. \A i, j \in DOMAIN rows : i < j => rows[i].seq < rows[j].seq
      BY DEF ViewInv, InOrder, Ordered
    <3>2. SUFFICES ASSUME NEW i \in DOMAIN rows', NEW j \in DOMAIN rows', i < j
                   PROVE  rows'[i].seq < rows'[j].seq
      BY DEF Ordered
    <3>3. i \in DOMAIN rows /\ (j \in DOMAIN rows \/ j = Len(rows) + 1)
      BY <1>8, <3>2
    <3> QED BY <1>8, <2>1, <3>1, <3>2, <3>3
  <2>3. Idle.seq = 0
    BY DEF Idle
  <2>4. \A e \in Drivers : run'[e].seq = 0
    BY <1>5, <1>6, <2>3
  <2> QED BY <2>2, <2>4 DEF InOrder
<1>10. Projected'
  <2>1. SUFFICES ASSUME cache # << >>
                 PROVE  \E b : /\ Thin(cache, b) /\ Finished(cache) /\ Finished(b)
                               /\ Len(b) <= Len(rows') /\ \A i \in DOMAIN b : b[i] = rows'[i].rec
    BY <1>3 DEF Projected
  <2>2. PICK b : /\ Thin(cache, b) /\ Finished(cache) /\ Finished(b)
                 /\ Len(b) <= Len(rows) /\ \A i \in DOMAIN b : b[i] = rows[i].rec
    BY <2>1 DEF ViewInv, Projected
  <2>3. Len(b) \in Nat /\ DOMAIN b = 1..Len(b)
    BY <2>2, ListedFacts DEF Finished
  <2>4. Len(b) <= Len(rows') /\ \A i \in DOMAIN b : i \in DOMAIN rows
    BY <1>8, <2>2, <2>3
  <2> QED BY <1>8, <2>2, <2>4
<1>11. Ledger' = Append(Ledger, r) /\ Listed(Ledger)
  <2>1. /\ Listed(Ledger) /\ Len(Ledger) = Len(rows) /\ DOMAIN Ledger = DOMAIN rows
        /\ \A i \in DOMAIN rows : Ledger[i] = rows[i].rec
    BY LedgerFacts
  <2>2. Ledger' = [i \in 1..(Len(rows) + 1) |-> rows'[i].rec]
    BY <1>8 DEF Ledger, Records
  <2>3. PICK S : Ledger \in Seq(S)
    BY <2>1 DEF Listed
  <2>4. PICK u : u = Append(Ledger, r)
    OBVIOUS
  <2>5. /\ u \in Seq(S \cup {r}) /\ DOMAIN u = 1..(Len(rows) + 1)
        /\ \A i \in 1..Len(rows) : u[i] = rows[i].rec
        /\ u[Len(rows) + 1] = r
    BY <1>8, <2>1, <2>3, <2>4
  <2>6. \A i \in 1..(Len(rows) + 1) : u[i] = rows'[i].rec
    <3>1. \A i \in 1..(Len(rows) + 1) : i \in 1..Len(rows) \/ i = Len(rows) + 1
      BY <1>8
    <3> QED BY <1>8, <2>5, <3>1
  <2>7. u = [i \in 1..(Len(rows) + 1) |-> rows'[i].rec]
    BY <2>5, <2>6
  <2> QED BY <2>1, <2>2, <2>4, <2>7
<1>12. Faithful(g)'
  <2>1. Faithful(run[d])
    BY DEF ViewInv
  <2> QED BY <1>1, <1>5, <1>11, <2>1, AppendedIsFaithful
<1>13. \A e \in Drivers : Faithful(run[e])'
  <2>1. Faithful(Idle)'
    <3>1. Idle.pc = "idle" /\ Idle.todo = << >> /\ Tokened(<< >>)
      BY NoneFacts DEF Idle, Tokened
    <3> QED BY <3>1 DEF Faithful
  <2>2. TAKE e \in Drivers
  <2>3. CASE e = d
    BY <1>6, <1>12, <2>3 DEF Faithful
  <2>4. CASE e # d
    BY <1>6, <2>1, <2>4 DEF Faithful
  <2> QED BY <2>3, <2>4
<1>14. \A y \in Shown' : y.kind = "pending" => y.ref # 0
  <2>1. x \in ToSet(run[d].todo)
    BY <1>1, ListedFacts DEF ViewInv, Faithful, Tokened
  <2>2. r.kind = "pending" => r.ref # 0
    BY <1>1, <2>1 DEF ViewInv, Faithful, Tokened
  <2> QED BY <1>1, <2>2 DEF ViewInv
<1> QED BY <1>9, <1>10, <1>13, <1>14 DEF ViewInv

-----------------------------------------------------------------------------
(* The steps keep the projection a snapshot of the ledger. *)

\* An advance that has just loaded the session holds all of it.
LEMMA LoadedIsFaithful ==
  ASSUME Numbered, ViewInv, NEW f, f.ctx = Loaded, Fits(f.todo), f.pc # "cache"
  PROVE  Faithful(f)
<1>1. Loaded = Ledger /\ Listed(Ledger)
  BY LoadedInOrder, LedgerFacts DEF ViewInv, InOrder
<1>2. Thin(Ledger, Ledger)
  BY <1>1, ThinSelf
<1> QED BY <1>1, <1>2 DEF Faithful, Fits

LEMMA AsideIsTokened ==
  ASSUME NEW r, r.kind # "pending"
  PROVE  Tokened(<<Aside(r)>>) /\ Tokened(<<Do(r, TRUE, FALSE)>>)
<1>1. Aside(r).rec = r /\ Do(r, TRUE, FALSE).rec = r
  BY DEF Aside, Do
<1>2. \A x : x.rec = r => Tokened(<<x>>)
  <2>1. TAKE x
  <2>2. PICK todo : todo = <<x>> /\ Listed(todo) /\ ToSet(todo) = {x}
    BY OneFacts
  <2>3. x.rec = r => Tokened(todo)
    BY <2>2 DEF Tokened
  <2> QED BY <2>2, <2>3
<1> QED BY <1>1, <1>2

LEMMA PlannedKeepsView ==
  ASSUME Numbered, ViewInv, NEW d \in Drivers, NEW f, UNCHANGED <<rows, cache>>,
         f \in Planned(run[d], Loaded) \cup {Observing(run[d], Loaded)},
         run' = [run EXCEPT ![d] = f]
  PROVE  ViewInv'
<1>1. DOMAIN run[d] = Fields
  BY DEF Numbered
<1>2. CASE f = Observing(run[d], Loaded)
  <2>1. /\ f.ctx = Loaded /\ f.todo = TriggerEvents(run[d]) /\ f.seq = run[d].seq
        /\ f.pc # "cache"
    BY <1>1, <1>2 DEF Observing, Fields
  <2>2. Faithful(f)
    BY <2>1, TriggerEventsFit, LoadedIsFaithful
  <2> QED BY <2>1, <2>2, ViewGoing
<1>3. CASE f # Observing(run[d], Loaded)
  <2>1. PICK r, todo : r = Rec("summary", run[d].by, 0, "") /\ todo = <<Do(r, TRUE, FALSE)>>
    OBVIOUS
  <2>2. f = [run[d] EXCEPT !.ctx = Loaded, !.pc = "summary", !.todo = todo]
    BY <1>3, <2>1 DEF Planned
  <2>3. f.pc = "summary" /\ f.todo = todo /\ f.seq = run[d].seq
    BY <1>1, <2>2 DEF Fields
  <2>4. Tokened(todo)
    BY <2>1, AsideIsTokened DEF Rec
  <2>5. Faithful(f)
    BY <2>3, <2>4 DEF Faithful
  <2> QED BY <2>3, <2>5, ViewGoing
<1> QED BY <1>2, <1>3

LEMMA DeliverKeepsView ==
  ASSUME Numbered, ViewInv, NEW d \in Drivers, Deliver(d)
  PROVE  ViewInv'
<1>1. PICK f, kind, ref, todo :
        /\ f = [Idle EXCEPT !.pc = "read", !.by = triggers + 1, !.kind = kind, !.ref = ref,
                            !.todo = todo]
        /\ run' = [run EXCEPT ![d] = f]
        /\ todo = <<Aside(Rec("trigger", triggers + 1, ref, kind))>>
  BY Zenon DEF Deliver
<1>2. f.pc = "read" /\ f.todo = todo /\ f.seq = 0
  BY <1>1 DEF Idle
<1>3. Tokened(todo)
  <2>1. PICK r : r = Rec("trigger", triggers + 1, ref, kind)
    OBVIOUS
  <2> QED BY <1>1, <2>1, AsideIsTokened DEF Rec
<1>4. Faithful(f) /\ UNCHANGED <<rows, cache>>
  BY <1>2, <1>3 DEF Faithful, Deliver
<1> QED BY <1>1, <1>2, <1>4, ViewGoing

LEMMA ReadKeepsView ==
  ASSUME Numbered, ViewInv, NEW d \in Drivers, Read(d)
  PROVE  ViewInv'
<1>1. DOMAIN run[d] = Fields /\ UNCHANGED <<rows, cache>>
  BY DEF Numbered, Read
<1>2. \/ run' = [run EXCEPT ![d] = Idle]
      \/ \E f, s, todo :
           /\ f = [run[d] EXCEPT !.ctx = s, !.pc = "refresh", !.todo = todo]
           /\ run' = [run EXCEPT ![d] = f]
           /\ todo = <<Do(Rec("intent", run[d].by, 0, run[d].kind), TRUE, FALSE)>>
  BY Zenon DEF Read
<1>3. ASSUME NEW f, NEW s, NEW todo, run' = [run EXCEPT ![d] = f],
             f = [run[d] EXCEPT !.ctx = s, !.pc = "refresh", !.todo = todo],
             todo = <<Do(Rec("intent", run[d].by, 0, run[d].kind), TRUE, FALSE)>>
      PROVE  ViewInv'
  <2>1. f.pc = "refresh" /\ f.todo = todo /\ f.seq = run[d].seq
    BY <1>1, <1>3 DEF Fields
  <2>2. PICK r : r = Rec("intent", run[d].by, 0, run[d].kind)
    OBVIOUS
  <2>3. Tokened(todo)
    BY <1>3, <2>2, AsideIsTokened DEF Rec
  <2>4. Faithful(f)
    BY <2>1, <2>3 DEF Faithful
  <2> QED BY <1>1, <1>3, <2>1, <2>4, ViewGoing
<1> QED BY <1>1, <1>2, <1>3, IdleKeepsView

LEMMA RefreshKeepsView ==
  ASSUME Numbered, ViewInv, NEW d \in Drivers, Refresh(d), faults' = faults, faults \in Nat
  PROVE  ViewInv'
<1>1. DOMAIN run[d] = Fields /\ UNCHANGED <<rows, cache>>
  BY DEF Numbered, Refresh
<1>2. faults' # faults + 1
  OBVIOUS
<1>3. \/ \E f \in Planned(run[d], Loaded) : run' = [run EXCEPT ![d] = f]
      \/ \E f, out, todo :
           /\ out \in Proposals(Loaded, run[d])
           /\ f = [run[d] EXCEPT !.ctx = Loaded, !.pc = "replan", !.todo = todo]
           /\ run' = [run EXCEPT ![d] = f]
           /\ todo = [i \in DOMAIN out |-> Do(out[i], TRUE, FALSE)]
  BY <1>2, Zenon DEF Refresh, LoadOr
<1>4. ASSUME NEW f \in Planned(run[d], Loaded), run' = [run EXCEPT ![d] = f]
      PROVE  ViewInv'
  BY <1>1, <1>4, PlannedKeepsView
<1>5. ASSUME NEW f, NEW out \in Proposals(Loaded, run[d]), NEW todo,
             run' = [run EXCEPT ![d] = f],
             f = [run[d] EXCEPT !.ctx = Loaded, !.pc = "replan", !.todo = todo],
             todo = [i \in DOMAIN out |-> Do(out[i], TRUE, FALSE)]
      PROVE  ViewInv'
  <2>1. f.pc = "replan" /\ f.todo = todo /\ f.seq = run[d].seq
    BY <1>1, <1>5 DEF Fields
  <2>2. Proposed(out)
    BY PlannersPropose DEF Numbered
  <2>3. DOMAIN todo = DOMAIN out /\ todo = [i \in DOMAIN todo |-> todo[i]]
        /\ \A i \in DOMAIN out : todo[i].rec = out[i]
    BY <1>5 DEF Do
  <2>4. Listed(todo)
    BY <2>2, <2>3, MappedFacts DEF Proposed
  <2>5. \A x \in ToSet(todo) : x.rec \in ToSet(out)
    BY <2>3 DEF ToSet
  <2>6. Tokened(todo)
    BY <2>2, <2>4, <2>5 DEF Proposed, Tokened
  <2>7. Faithful(f)
    BY <2>1, <2>6 DEF Faithful
  <2> QED BY <1>1, <1>5, <2>1, <2>7, ViewGoing
<1> QED BY <1>3, <1>4, <1>5

LEMMA ReloadKeepsView ==
  ASSUME Numbered, ViewInv, NEW d \in Drivers, Reload(d), faults' = faults, faults \in Nat
  PROVE  ViewInv'
<1>1. UNCHANGED <<rows, cache>>
  BY DEF Reload
<1>2. faults' # faults + 1
  OBVIOUS
<1>3. PICK f \in Planned(run[d], Loaded) \cup {Observing(run[d], Loaded)} :
        run' = [run EXCEPT ![d] = f]
  BY <1>2 DEF Reload, LoadOr
<1> QED BY <1>1, <1>3, PlannedKeepsView

LEMMA ResolveKeepsView ==
  ASSUME Numbered, ViewInv, NEW d \in Drivers, Resolve(d)
  PROVE  ViewInv'
<1>1. DOMAIN run[d] = Fields /\ run[d].pc = "resolve" /\ UNCHANGED <<rows, cache>>
  BY DEF Numbered, Resolve, At
<1>2. \A by, ref, arg, verdict :
        /\ Fits(<<Aside(Rec("resolution", by, ref, verdict))>>)
        /\ Fits(<<Hard(Rec("result", by, ref, arg))>>)
        /\ Fits(Runs(by, ref)) /\ Fits(<< >>)
  BY DuesFit, FitsFacts, RunsFits DEF Hidden
<1>3. \A u, v : Fits(u) /\ Fits(v) => Fits(u \o v)
  BY FitsFacts
<1>4. \/ \E f, todo, n :
           /\ Fits(todo) /\ run' = [run EXCEPT ![d] = f]
           /\ f = [run[d] EXCEPT !.pc = "step", !.n = n, !.todo = todo]
      \/ \E f, todo :
           /\ todo = Finish(run[d].by, "PolicyAborted", 0) /\ run' = [run EXCEPT ![d] = f]
           /\ f = [run[d] EXCEPT !.pc = "cache", !.todo = todo]
  <2>1. PICK f, todo, n, resolution, settle, verdict :
          /\ run' = [run EXCEPT ![d] = f]
          /\ \/ /\ f = [run[d] EXCEPT !.pc = "step", !.n = n, !.todo = todo]
                /\ todo = resolution \o settle
                /\ \/ settle = Runs(run[d].by, run[d].ref)
                   \/ settle = <<Hard(Rec("result", run[d].by, run[d].ref, "refused"))>>
                /\ \/ resolution = <<Aside(Rec("resolution", run[d].by, run[d].ref, verdict))>>
                   \/ resolution = << >>
             \/ /\ f = [run[d] EXCEPT !.pc = "cache", !.todo = todo]
                /\ todo = Finish(run[d].by, "PolicyAborted", 0)
    BY ResolveShape
  <2>2. CASE f = [run[d] EXCEPT !.pc = "cache", !.todo = todo]
             /\ todo = Finish(run[d].by, "PolicyAborted", 0)
    BY <2>1, <2>2, Zenon
  <2>3. CASE /\ f = [run[d] EXCEPT !.pc = "step", !.n = n, !.todo = todo]
             /\ todo = resolution \o settle
             /\ \/ settle = Runs(run[d].by, run[d].ref)
                \/ settle = <<Hard(Rec("result", run[d].by, run[d].ref, "refused"))>>
             /\ \/ resolution = <<Aside(Rec("resolution", run[d].by, run[d].ref, verdict))>>
                \/ resolution = << >>
    <3>1. Fits(resolution) /\ Fits(settle)
      BY <2>3, <1>2, Zenon
    <3>2. Fits(todo)
      BY <2>3, <3>1, <1>3, Zenon
    <3> QED BY <2>1, <2>3, <3>2, Zenon
  <2> QED BY <2>1, <2>2, <2>3, Zenon
<1>5. \A t, stop, token : Fits(Finish(t, stop, token)) /\ Ending(Finish(t, stop, token))
  BY FinishFits
<1>6. PICK f, todo, n :
        /\ Fits(todo) /\ run' = [run EXCEPT ![d] = f]
        /\ \/ f = [run[d] EXCEPT !.pc = "step", !.n = n, !.todo = todo]
           \/ f = [run[d] EXCEPT !.pc = "cache", !.todo = todo] /\ Ending(todo)
  BY <1>4, <1>5
<1>7. /\ f.todo = todo /\ f.ctx = run[d].ctx /\ f.seq = run[d].seq
      /\ f.pc = "step" \/ (f.pc = "cache" /\ Ending(todo))
  BY <1>1, <1>6 DEF Fields
<1>8. Thin(run[d].ctx, Ledger)
  BY <1>1 DEF ViewInv, Faithful
<1>9. Faithful(f)
  BY <1>6, <1>7, <1>8 DEF Faithful, Fits, Ending
<1> QED BY <1>1, <1>6, <1>7, <1>9, ViewGoing

LEMMA StepKeepsView ==
  ASSUME Numbered, Typed, ViewInv, NEW d \in Drivers, Step(d)
  PROVE  ViewInv'
<1>1. /\ DOMAIN run[d] = Fields /\ run[d].pc = "step" /\ UNCHANGED <<rows, cache>>
      /\ deploy.acts \subseteq Acts
  BY DeploymentsAssumption DEF Numbered, Step, At
<1>2. PICK by, n : by = run[d].by /\ n = run[d].n + 1
  OBVIOUS
<1>3. by \in Nat /\ n \in Nat /\ n # 0
  <2>1. triggers \in Nat /\ run[d] \in FuturesTo(triggers)
    BY DEF Typed
  <2>2. run[d].by \in Nat /\ run[d].n \in Nat
    BY <2>1, SomeBy
  <2> QED BY <1>2, <2>2
<1>4. Thin(run[d].ctx, Ledger)
  BY <1>1 DEF ViewInv, Faithful
<1>5. ASSUME NEW f, NEW pc, NEW todo, run' = [run EXCEPT ![d] = f],
             f = [run[d] EXCEPT !.pc = pc, !.todo = todo],
             pc = "between" \/ (pc = "cache" /\ Ending(todo)), Fits(todo)
      PROVE  ViewInv'
  <2>1. f.pc = pc /\ f.todo = todo /\ f.ctx = run[d].ctx /\ f.seq = run[d].seq
    BY <1>1, <1>5 DEF Fields
  <2>2. Faithful(f)
    BY <1>4, <1>5, <2>1 DEF Faithful, Fits, Ending
  <2> QED BY <1>1, <1>5, <2>1, <2>2, ViewGoing
<1>6. ASSUME NEW x, FitsDue(x), NEW act \in Acts,
             run' = [run EXCEPT ![d] = [run[d] EXCEPT
                       !.pc = IF Ends(act) THEN "cache" ELSE "between",
                       !.todo = <<x>> \o Carried(act, by, n)]]
      PROVE  ViewInv'
  <2>1. PICK head, rest, todo : /\ head = <<x>> /\ rest = Carried(act, by, n)
                                /\ todo = head \o rest
    OBVIOUS
  <2>2. Fits(head) /\ Fits(rest) /\ (Ends(act) => Ending(rest))
    BY <1>3, <1>6, <2>1, FitsFacts, CarriedFits
  <2>3. Fits(todo) /\ (Ends(act) => Ending(todo))
    BY <2>1, <2>2, FitsFacts, EndsLast
  <2>4. PICK pc : pc = IF Ends(act) THEN "cache" ELSE "between"
    OBVIOUS
  <2>5. PICK f : f = [run[d] EXCEPT !.pc = pc, !.todo = todo]
    OBVIOUS
  <2>6. run' = [run EXCEPT ![d] = f]
    BY <1>6, <2>1, <2>4, <2>5, Zenon
  <2> QED BY <1>5, <2>3, <2>4, <2>5, <2>6
<1>7. PICK plan : plan = ActivePlan(run[d].ctx)
  OBVIOUS
<1>8. plan # None => plan.ref \in Nat
  <2>1. triggers \in Nat /\ run[d] \in FuturesTo(triggers)
    BY DEF Typed
  <2>2. run[d].ctx \in Seq(RecordsTo(triggers))
    BY <2>1, SomeBy
  <2>3. Listed(run[d].ctx) /\ \A x \in ToSet(run[d].ctx) : x \in RecordsTo(triggers)
    BY <2>2, SeqIsListed
  <2>4. plan # None => plan \in ToSet(run[d].ctx)
    BY <1>7, <2>3, ActivePlanFacts
  <2>5. \A x \in RecordsTo(triggers) : x.ref \in Nat
    BY DEF RecordsTo
  <2> QED BY <2>3, <2>4, <2>5
<1>9. CASE plan # None /\ plan.ref < Len(PlanActions) /\ FollowPlan(d, plan)
  <2>1. PICK act : act = PlanActions[plan.ref + 1]
    OBVIOUS
  <2>2. act \in Acts
    BY <1>8, <1>9, <2>1, BoundsAssumption
  <2>3. PICK x : x = Do(Rec("plan", plan.by, plan.ref + 1,
                            IF plan.ref + 1 = Len(PlanActions) THEN "completed" ELSE "open"),
                        TRUE, FALSE)
    OBVIOUS
  <2>4. FitsDue(x)
    BY <2>3, DuesFit DEF Hidden
  <2>5. run' = [run EXCEPT ![d] = [run[d] EXCEPT
                  !.pc = IF Ends(act) THEN "cache" ELSE "between",
                  !.todo = <<x>> \o Carried(act, by, n)]]
    BY <1>2, <1>9, <2>1, <2>3, Zenon DEF FollowPlan
  <2> QED BY <1>6, <2>2, <2>4, <2>5
<1>10. CASE AskProvider(d)
  <2>1. PICK act \in deploy.acts :
          run' = [run EXCEPT ![d] = [run[d] EXCEPT
                    !.pc = IF Ends(act) THEN "cache" ELSE "between",
                    !.todo = <<Hard(Rec("decision", run[d].by, run[d].n + 1, act))>>
                             \o Carried(act, run[d].by, run[d].n + 1)]]
    BY <1>10, Zenon DEF AskProvider
  <2>2. PICK x : x = Hard(Rec("decision", by, n, act))
    OBVIOUS
  <2>3. FitsDue(x)
    BY <2>2, DuesFit
  <2>4. run' = [run EXCEPT ![d] = [run[d] EXCEPT
                  !.pc = IF Ends(act) THEN "cache" ELSE "between",
                  !.todo = <<x>> \o Carried(act, by, n)]]
    BY <1>2, <2>1, <2>2, Zenon
  <2> QED BY <1>1, <1>6, <2>3, <2>4
<1>11. CASE run' = [run EXCEPT ![d] = [run[d] EXCEPT
                      !.pc = "cache", !.todo = Finish(run[d].by, "MaxSteps", 0)]]
  <2>1. PICK pc, todo : pc = "cache" /\ todo = Finish(run[d].by, "MaxSteps", 0)
    OBVIOUS
  <2>2. PICK f : f = [run[d] EXCEPT !.pc = pc, !.todo = todo]
    OBVIOUS
  <2>3. run' = [run EXCEPT ![d] = f]
    BY <1>11, <2>1, <2>2, Zenon
  <2> QED BY <1>5, <2>1, <2>2, <2>3, FinishFits
<1> QED BY <1>7, <1>9, <1>10, <1>11, Zenon DEF Step

LEMMA CacheKeepsView ==
  ASSUME Numbered, ViewInv, NEW d \in Drivers, Cache(d), faults' = faults, faults \in Nat
  PROVE  ViewInv'
<1>1. faults' # faults + 1
  OBVIOUS
<1>2. /\ run[d].pc = "cache" /\ run[d].todo = << >>
      /\ cache' = run[d].ctx /\ run' = [run EXCEPT ![d] = Idle] /\ UNCHANGED rows
  BY <1>1 DEF Cache, At
<1>3. /\ Thin(cache', Ledger) /\ Finished(cache') /\ Finished(Ledger)
  BY <1>2 DEF ViewInv, Faithful
<1>4. Projected'
  <2>1. \A i \in DOMAIN Ledger : Ledger[i] = rows'[i].rec
    BY <1>2, LedgerFacts
  <2>2. Len(Ledger) <= Len(rows')
    BY <1>2, LedgerFacts, RowsAreIndexed
  <2> QED BY <1>3, <2>1, <2>2 DEF Projected
<1>5. run'[d] = Idle /\ \A e \in Drivers \ {d} : run'[e] = run[e]
  BY <1>2 DEF Numbered
<1>6. Ledger' = Ledger /\ Shown' = Shown /\ Ordered' = Ordered
  BY <1>2 DEF Ledger, Records, Shown, Ordered
<1>7. InOrder'
  <2>1. Idle.seq = 0
    BY DEF Idle
  <2> QED BY <1>2, <1>5, <1>6, <2>1 DEF ViewInv, InOrder
<1>8. \A e \in Drivers : Faithful(run[e])'
  <2>1. TAKE e \in Drivers
  <2>2. Faithful(run'[e])
    BY <1>5, IdleIsFaithful DEF ViewInv
  <2> QED BY <1>6, <2>2 DEF Faithful
<1> QED BY <1>4, <1>6, <1>7, <1>8 DEF ViewInv

LEMMA ContinueKeepsView ==
  ASSUME Numbered, ViewInv, NEW d \in Drivers, Continue(d)
  PROVE  ViewInv'
<1>1. DOMAIN run[d] = Fields /\ UNCHANGED <<rows, cache>>
  BY DEF Numbered, Continue
<1>2. \A t, ref : Fits(<<Aside(Rec("joined", t, ref, "")), Hard(Rec("result", t, ref, "ok"))>>)
  <2>1. TAKE t, ref
  <2>2. PICK x, y : x = Aside(Rec("joined", t, ref, "")) /\ y = Hard(Rec("result", t, ref, "ok"))
    OBVIOUS
  <2>3. FitsDue(x) /\ FitsDue(y)
    BY <2>2, DuesFit DEF Hidden
  <2>4. PICK todo : todo = <<x, y>> /\ Listed(todo) /\ ToSet(todo) = {x, y}
    BY TwoFacts
  <2>5. Fits(todo)
    BY <2>3, <2>4, FitsFacts
  <2> QED BY <2>2, <2>4, <2>5
<1>3. Fits(<< >>)
  BY FitsFacts
<1>4. \/ run' = [run EXCEPT ![d] = Idle] /\ UNCHANGED met
      \/ \E f, t, n, todo :
           /\ f = [run[d] EXCEPT !.pc = "step", !.by = t, !.ctx = Loaded, !.todo = todo, !.n = n]
           /\ run' = [run EXCEPT ![d] = f] /\ Fits(todo) /\ met' = Overlaps(d, t)
  <2>1. \A t, ref, todo :
          \/ todo = << >>
          \/ todo = <<Aside(Rec("joined", t, ref, "")), Hard(Rec("result", t, ref, "ok"))>>
          => Fits(todo)
    BY <1>2, <1>3, Zenon
  <2> QED BY <2>1, ContinueShape, Zenon
<1>5. ASSUME NEW f, NEW t, NEW n, NEW todo, Fits(todo), run' = [run EXCEPT ![d] = f],
             f = [run[d] EXCEPT !.pc = "step", !.by = t, !.ctx = Loaded, !.todo = todo, !.n = n]
      PROVE  ViewInv'
  <2>1. f.ctx = Loaded /\ f.todo = todo /\ f.pc = "step" /\ f.seq = run[d].seq
    BY <1>1, <1>5 DEF Fields
  <2>2. Faithful(f)
    BY <1>5, <2>1, LoadedIsFaithful
  <2> QED BY <1>1, <1>5, <2>1, <2>2, ViewGoing
<1> QED BY <1>1, <1>4, <1>5, IdleKeepsView

LEMMA NextKeepsView ==
  ASSUME Numbered, Typed, Held, BusyMet, faults \in Nat, ViewInv, ~deploy.reports,
         [Next]_vars, Calm'
  PROVE  ViewInv'
<1>1. faults' = faults /\ faults' # faults + 1 /\ met = {}
  BY CalmEnds DEF Calm
<1>2. ASSUME NEW d \in Drivers, Advance(d)
      PROVE  ViewInv'
  <2>1. CASE Number(d)
    BY <2>1, NumberKeepsView
  <2>2. CASE Push(d)
    BY <1>1, <2>2, PushKeepsView
  <2>3. CASE AppendFails(d) \/ Drop(d)
    BY <1>1, <2>3 DEF AppendFails, Drop
  <2>4. CASE Deliver(d)
    BY <2>4, DeliverKeepsView
  <2>5. CASE Read(d)
    BY <2>5, ReadKeepsView
  <2>6. CASE Refresh(d)
    BY <1>1, <2>6, RefreshKeepsView
  <2>7. CASE Reload(d)
    BY <1>1, <2>7, ReloadKeepsView
  <2>8. CASE Resolve(d)
    BY <2>8, ResolveKeepsView
  <2>9. CASE Step(d)
    BY <2>9, StepKeepsView
  <2>10. CASE Cache(d)
    BY <1>1, <2>10, CacheKeepsView
  <2>11. CASE Continue(d)
    BY <2>11, ContinueKeepsView
  <2> QED
    BY <1>2, <2>1, <2>2, <2>3, <2>4, <2>5, <2>6, <2>7, <2>8, <2>9, <2>10, <2>11 DEF Advance
<1>3. ~Report
  BY DEF Report
<1>4. CASE Poll \/ ReadPage \/ UNCHANGED vars
  <2>1. UNCHANGED <<rows, run, cache>>
    BY <1>4 DEF Poll, ReadPage, vars
  <2>2. Ledger' = Ledger /\ Shown' = Shown /\ Ordered' = Ordered
    BY <2>1 DEF Ledger, Records, Shown, Ordered
  <2>3. InOrder' /\ Projected'
    BY <2>1, <2>2 DEF ViewInv, InOrder, Projected
  <2>4. \A e \in Drivers : Faithful(run[e])'
    BY <2>1, <2>2 DEF ViewInv, Faithful
  <2> QED BY <2>2, <2>3, <2>4 DEF ViewInv
<1> QED BY <1>2, <1>3, <1>4 DEF Next

\* Where advances alone append, one after the other, and nothing fails, the view that is
\* served is that of a first part of the ledger, but for an approval that was given by
\* then and is still shown as pending: the projection is what the last advance held when
\* it ended, which is the ledger without the graphs, the joined nodes, the verdicts and
\* the plans' records, and of these a view of a finished session reads only the verdicts.
\* (engine.rs:1832, runtime lib.rs:1743)
THEOREM ViewsAreReconstructable == Spec => []ViewsReconstructable
<1> DEFINE Inv == SessionInv /\ (Calm /\ ~deploy.reports => ViewInv)
<1>1. Init => Inv
  <2> SUFFICES ASSUME Init PROVE ViewInv
    BY InitSession
  <2>1. rows = << >> /\ DOMAIN rows = {} /\ cache = << >> /\ \A d \in Drivers : run[d] = Idle
    BY DEF Init
  <2>2. Idle.seq = 0 /\ Shown = {}
    BY <2>1 DEF Idle, Shown
  <2>3. InOrder /\ Projected
    BY <2>1, <2>2 DEF InOrder, Ordered, Projected
  <2> QED BY <2>1, <2>2, <2>3, IdleIsFaithful DEF ViewInv
<1>2. Inv /\ [Next]_vars => Inv'
  <2> SUFFICES ASSUME Inv, [Next]_vars PROVE Inv'
    OBVIOUS
  <2>1. SessionInv'
    BY NextKeepsSession
  <2>2. Numbered /\ Typed /\ Held /\ faults \in Nat /\ (faults = 0 => BusyMet)
    BY DEF SessionInv, WatchInv
  <2>3. ASSUME Calm', ~deploy'.reports PROVE ViewInv'
    <3>1. Calm /\ ~deploy.reports
      <4>1. UNCHANGED deploy
        BY DEF Next, Advance, vars, Report, Poll, ReadPage, Number, Push, AppendFails, Drop,
               Deliver, Read, Refresh, Reload, Resolve, Step, Cache, Continue
      <4> QED BY <2>2, <2>3, <4>1, CalmEnds
    <3>2. ViewInv /\ BusyMet
      BY <2>2, <3>1 DEF Calm
    <3> QED BY <2>2, <2>3, <3>1, <3>2, NextKeepsView
  <2> QED BY <2>1, <2>3
<1>3. Inv => ViewsReconstructable
  <2> SUFFICES ASSUME Inv PROVE ViewsReconstructable
    OBVIOUS
  <2>1. Numbered
    BY DEF SessionInv, WatchInv
  <2>2. CASE Calm /\ ~deploy.reports
    BY <2>1, <2>2, ViewInvMeans
  <2>3. CASE ~(Calm /\ ~deploy.reports)
    BY <2>3 DEF Calm, ViewsReconstructable
  <2> QED BY <2>2, <2>3
<1> QED BY <1>1, <1>2, <1>3, PTL DEF Spec
=============================================================================
