------------------------- MODULE ProjectionPagesProofs -------------------------
(***************************************************************************)
(* Proofs about ProjectionPages: a read misses nothing that stays as it is *)
(* and repeats nothing whose time does not go back, for any sets of        *)
(* instances, tasks and times and any limits.                              *)
(***************************************************************************)
EXTENDS ProjectionPages, TLAPS

(***************************************************************************)
(* The order of the rows, on keys.                                         *)
(***************************************************************************)
\* The components of a key are numbers.
LEMMA KeysAreNumbers ==
  ASSUME NEW k \in Key
  PROVE  k.at \in Nat /\ k.instance \in Nat /\ k.task \in Nat
<1>1. Times \subseteq Nat /\ Instances \subseteq Nat /\ Tasks \subseteq Nat
  BY PagesAssumption
<1>2. k.at \in Times /\ k.instance \in Instances /\ k.task \in Tasks \union {0}
  BY DEF Key
<1>3. CASE k.task \in Tasks
  BY <1>1, <1>2, <1>3
<1>4. CASE k.task = 0
  <2>1. 0 \in Nat
    OBVIOUS
  <2>2. k.task \in Nat
    BY <2>1, <1>4, Zenon
  <2> QED BY <2>2, <1>1, <1>2
<1> QED BY <1>2, <1>3, <1>4

\* Precedes is a strict order: ORDER BY is stable between pages.
LEMMA StrictOrder ==
  ASSUME NEW k \in Key, NEW l \in Key, NEW m \in Key
  PROVE  /\ ~Precedes(k, k)
         /\ Precedes(k, l) => ~Precedes(l, k)
         /\ Precedes(k, l) /\ Precedes(l, m) => Precedes(k, m)
BY KeysAreNumbers DEF Precedes

\* The key of a row that exists is a key.
LEMMA KeyOfType ==
  ASSUME TypeOK, NEW id \in Id, rows[id.instance] # NoRow
  PROVE  /\ KeyOf(id) \in Key
         /\ IdOf(KeyOf(id)) = id
<1>1. rows[id.instance] \in InstanceRow
  BY DEF TypeOK, Id
<1>2. rows[id.instance].at \in Times
  BY <1>1 DEF InstanceRow
<1> QED BY <1>2 DEF KeyOf, IdOf, Key, Id

\* What a listing selects are the keys of the rows it selects.
LEMMA LaterType ==
  ASSUME TypeOK, NEW listing, NEW after, NEW key \in Later(listing, after)
  PROVE  /\ key \in Key /\ IdOf(key) \in Id
         /\ key = KeyOf(IdOf(key))
         /\ Selects(listing, IdOf(key)) /\ AfterToken(after, key)
<1>1. PICK id \in Id : Selects(listing, id) /\ key = KeyOf(id)
  BY DEF Later, Selected
<1>2. rows[id.instance] # NoRow
  BY <1>1 DEF Selects
<1>3. key \in Key /\ IdOf(key) = id
  BY <1>1, <1>2, KeyOfType
<1> QED BY <1>1, <1>3 DEF Later

\* A row that is selected after a token is among the later ones.
LEMMA LaterHas ==
  ASSUME NEW listing, NEW after, NEW id \in Id,
         Selects(listing, id), AfterToken(after, KeyOf(id))
  PROVE  KeyOf(id) \in Later(listing, after)
BY DEF Later, Selected

(***************************************************************************)
(* The initial state of a read, and of a switch between the task listings. *)
(***************************************************************************)
\* A read begins with all it has to list still after its token.
LEMMA NewReadIsSound ==
  ASSUME TypeOK, NEW listing \in Listings, NEW after \in SUBSET Key
  PROVE  LET new == NewRead(listing, after) IN
         /\ new \in Read
         /\ new.status = "reading" /\ new.listed = {} /\ new.again = {}
         /\ new.listing = listing /\ new.after = after
         /\ \A id \in new.quiet :
              id \in Id /\ Selects(listing, id) /\ AfterToken(after, KeyOf(id))
<1> DEFINE quiet == {IdOf(key) : key \in Later(listing, after)}
<1>1. \A id \in quiet : id \in Id /\ Selects(listing, id) /\ AfterToken(after, KeyOf(id))
  BY LaterType
<1>2. quiet \in SUBSET Id
  BY <1>1
<1> HIDE DEF quiet
<1>3. NewRead(listing, after) =
        [listing |-> listing, status |-> "reading", after |-> after, listed |-> {},
         again |-> {}, quiet |-> quiet, turned |-> {}]
  BY DEF NewRead, quiet
<1> QED BY <1>1, <1>2, <1>3 DEF Read

\* Init => PagesInv.
LEMMA InitSound == Init => PagesInv
<1> SUFFICES ASSUME Init PROVE PagesInv
  OBVIOUS
<1>1. PICK listing \in Listings : read = NewRead(listing, {})
  BY DEF Init
<1>2. rows \in [Instances -> InstanceRow \union {NoRow}] /\ scope \in SUBSET Instances /\ saves \in Nat
  BY DEF Init
<1> DEFINE quiet == {IdOf(key) : key \in Later(listing, {})}
<1>3. \A id \in quiet : id \in Id /\ Selects(listing, id) /\ AfterToken({}, KeyOf(id))
  <2> SUFFICES ASSUME NEW key \in Later(listing, {})
               PROVE  LET id == IdOf(key) IN
                      id \in Id /\ Selects(listing, id) /\ AfterToken({}, KeyOf(id))
    OBVIOUS
  <2>1. PICK id \in Id : Selects(listing, id) /\ key = KeyOf(id)
    BY DEF Later, Selected
  <2>2. IdOf(key) = id
    BY <2>1 DEF IdOf, KeyOf, Id
  <2> QED BY <2>1, <2>2 DEF AfterToken
<1> HIDE DEF quiet
<1>4. read = [listing |-> listing, status |-> "reading", after |-> {}, listed |-> {},
              again |-> {}, quiet |-> quiet, turned |-> {}]
  BY <1>1 DEF NewRead, quiet
<1>5. quiet \in SUBSET Id
  BY <1>3
<1>6. TypeOK
  BY <1>2, <1>4, <1>5 DEF TypeOK, Read
<1> QED BY <1>3, <1>4, <1>6 DEF PagesInv, QuietRowsAreListed, ListedOnceUnlessTurned,
                                  QuietInv, ListedInv

(***************************************************************************)
(* The steps.                                                              *)
(***************************************************************************)
\* A read that begins, or is switched, starts from nothing listed.
LEMMA BeginSound ==
  ASSUME PagesInv, NEW listing \in Listings, NEW after \in SUBSET Key,
         read' = NewRead(listing, after), rows' = rows, scope' = scope, saves' \in Nat
  PROVE  PagesInv'
<1> TypeOK
  BY DEF PagesInv
<1> DEFINE new == NewRead(listing, after)
<1>1. /\ new \in Read
      /\ new.status = "reading" /\ new.listed = {} /\ new.again = {}
      /\ new.listing = listing /\ new.after = after
      /\ \A id \in new.quiet :
           id \in Id /\ Selects(listing, id) /\ AfterToken(after, KeyOf(id))
  BY NewReadIsSound
<1>2. read' = new
  OBVIOUS
<1> HIDE DEF new
<1>3. TypeOK'
  BY <1>1, <1>2 DEF TypeOK
<1>4. QuietInv'
  BY <1>1, <1>2 DEF QuietInv, Selects, KeyOf, AfterToken
<1> QED BY <1>1, <1>2, <1>3, <1>4 DEF PagesInv, QuietRowsAreListed, ListedOnceUnlessTurned,
                                       ListedInv

\* A change of scope only takes rows out of what must be listed.
LEMMA AuthorizeSound ==
  ASSUME PagesInv, NEW instances \in SUBSET Instances, Authorize(instances)
  PROVE  PagesInv'
<1>1. /\ rows' = rows /\ saves' = saves /\ scope' = instances
      /\ read' = [read EXCEPT !.quiet = {id \in @ : id.instance \in instances}]
  BY DEF Authorize
<1>2. read \in Read
  BY DEF PagesInv, TypeOK
<1> DEFINE quiet == {id \in read.quiet : id.instance \in instances}
<1>q. quiet \in SUBSET Id
  BY <1>2 DEF Read
<1>r. read' = [read EXCEPT !.quiet = quiet]
  BY <1>1
<1>3. /\ read' \in Read
      /\ read'.listing = read.listing /\ read'.status = read.status
      /\ read'.after = read.after /\ read'.listed = read.listed
      /\ read'.again = read.again /\ read'.turned = read.turned
      /\ read'.quiet = quiet
  <2> HIDE DEF quiet
  <2> QED BY <1>q, <1>r, <1>2 DEF Read
<1>4. TypeOK'
  BY <1>1, <1>3 DEF PagesInv, TypeOK
<1>5. QuietInv'
  BY <1>1, <1>3 DEF PagesInv, QuietInv, Selects, KeyOf, AfterToken
<1>6. ListedInv'
  BY <1>1, <1>3 DEF PagesInv, ListedInv, KeyOf, AfterToken
<1> QED BY <1>3, <1>4, <1>5, <1>6 DEF PagesInv, QuietRowsAreListed, ListedOnceUnlessTurned

\* Rows of one time are as before or earlier in the order when the time grows.
LEMMA MovesForward ==
  ASSUME NEW token \in Key, NEW k \in Key, NEW l \in Key,
         k.instance = l.instance, k.task = l.task, k.at <= l.at,
         ~Precedes(token, k)
  PROVE  ~Precedes(token, l)
BY KeysAreNumbers DEF Precedes

\* A save disturbs the rows of its instance, which are no longer quiet.
LEMMA SaveSound ==
  ASSUME PagesInv, NEW i \in Instances, Save(i)
  PROVE  PagesInv'
<1>1. PICK new \in NextRows(i) :
        /\ rows' = [rows EXCEPT ![i] = new]
        /\ read' = [read EXCEPT
             !.quiet = {id \in @ : id.instance # i},
             !.turned = IF rows[i] # NoRow /\ new.at < rows[i].at THEN @ \union {i} ELSE @]
  BY DEF Save
<1>2. /\ scope' = scope /\ saves' \in Nat
  BY DEF Save, PagesInv, TypeOK
<1>3. new \in InstanceRow /\ new # NoRow /\ new.at \in Times
  BY PagesAssumption DEF NextRows, InstanceRow
<1>4. read \in Read /\ rows \in [Instances -> InstanceRow \union {NoRow}]
  BY DEF PagesInv, TypeOK
<1> DEFINE turned == IF rows[i] # NoRow /\ new.at < rows[i].at
                     THEN read.turned \union {i} ELSE read.turned
<1>5. turned \in SUBSET Instances
  BY <1>4 DEF Read
<1> DEFINE quiet == {id \in read.quiet : id.instance # i}
<1>q. quiet \in SUBSET Id
  BY <1>4 DEF Read
<1>r. read' = [read EXCEPT !.quiet = quiet, !.turned = turned]
  BY <1>1
<1>6. /\ read' \in Read
      /\ read'.listing = read.listing /\ read'.status = read.status
      /\ read'.after = read.after /\ read'.listed = read.listed
      /\ read'.again = read.again /\ read'.turned = turned
      /\ read'.quiet = quiet
  <2> HIDE DEF quiet, turned
  <2> QED BY <1>q, <1>r, <1>4, <1>5 DEF Read
<1>7. /\ rows' \in [Instances -> InstanceRow \union {NoRow}]
      /\ rows'[i] = new
      /\ \A j \in Instances : j # i => rows'[j] = rows[j]
  BY <1>1, <1>3, <1>4
<1>8. TypeOK'
  BY <1>2, <1>6, <1>7 DEF PagesInv, TypeOK
<1>9. /\ read.quiet \in SUBSET Id /\ read.listed \in SUBSET Id
      /\ read.again \in SUBSET Id /\ read.after \in SUBSET Key
      /\ \A id \in Id : id.instance \in Instances
  BY <1>4 DEF Read, Id
<1>10. QuietInv'
  <2> SUFFICES ASSUME NEW id \in read.quiet, id.instance # i
               PROVE  /\ Selects(read.listing, id)'
                      /\ read.status # "ended" =>
                           id \in read.listed \/ AfterToken(read.after, KeyOf(id))'
    BY <1>6 DEF QuietInv, AfterToken
  <2>1. rows'[id.instance] = rows[id.instance]
    BY <1>7, <1>9
  <2> QED BY <2>1, <1>2, <1>6 DEF PagesInv, QuietInv, Selects, KeyOf, AfterToken
<1>11. ListedInv'
  <2> SUFFICES ASSUME NEW id \in read.listed
               PROVE  /\ rows'[id.instance] # NoRow
                      /\ read.status # "ended" /\ id.instance \notin turned =>
                           ~AfterToken(read.after, KeyOf(id)')
    BY <1>6 DEF ListedInv, AfterToken
  <2>1. /\ rows[id.instance] # NoRow
        /\ read.status # "ended" /\ id.instance \notin read.turned =>
             ~AfterToken(read.after, KeyOf(id))
    BY DEF PagesInv, ListedInv
  <2>2. CASE id.instance # i
    <3>1. rows'[id.instance] = rows[id.instance]
      BY <2>2, <1>7, <1>9
    <3> QED BY <2>1, <3>1 DEF KeyOf
  <2>3. CASE id.instance = i
    <3> SUFFICES ASSUME read.status # "ended", i \notin turned
                 PROVE  ~AfterToken(read.after, KeyOf(id)')
      BY <2>3, <1>3, <1>7
    <3>1. rows[i].at \in Times /\ rows[i].at <= new.at /\ i \notin read.turned
      <4>1. rows[i] \in InstanceRow
        BY <1>4, <2>1, <2>3
      <4>2. rows[i].at \in Nat /\ new.at \in Nat /\ rows[i].at \in Times
        BY <4>1, <1>3, PagesAssumption DEF InstanceRow
      <4> QED BY <4>2, <2>1, <2>3
    <3>2. KeyOf(id) = [at |-> rows[i].at, instance |-> i, task |-> id.task]
      BY <2>3 DEF KeyOf
    <3>3. KeyOf(id)' = [at |-> new.at, instance |-> i, task |-> id.task]
      BY <2>3, <1>7 DEF KeyOf
    <3>4. KeyOf(id) \in Key /\ KeyOf(id)' \in Key
      BY <3>1, <3>2, <3>3, <1>3, <1>9 DEF Key, Id
    <3>5. PICK token \in read.after : ~Precedes(token, KeyOf(id))
      BY <2>1, <2>3, <3>1 DEF AfterToken
    <3>6. ~Precedes(token, KeyOf(id)')
      BY <3>1, <3>2, <3>3, <3>4, <3>5, <1>9, MovesForward
    <3> QED BY <3>6 DEF AfterToken
  <2> QED BY <2>2, <2>3
<1>12. ListedOnceUnlessTurned'
  BY <1>6 DEF PagesInv, ListedOnceUnlessTurned
<1>13. QuietRowsAreListed'
  BY <1>6 DEF PagesInv, QuietRowsAreListed
<1> QED BY <1>8, <1>10, <1>11, <1>12, <1>13 DEF PagesInv

-----------------------------------------------------------------------------
(***************************************************************************)
(* A page.                                                                 *)
(***************************************************************************)
\* What a page adds to the read, if it lists items; token is the new position.
Takes(items, token) ==
  /\ read'.listed = read.listed \union {IdOf(k) : k \in items}
  /\ read'.again = read.again \union ({IdOf(k) : k \in items} \intersect read.listed)
  /\ read'.after = token

\* The three ends of a page: all that is later, a refusal, or items up to a last
\* one with rows beyond it.
LEMMA FetchCases ==
  ASSUME PagesInv, NEW limit \in Limits, Fetch(limit)
  PROVE  LET later == Later(read.listing, read.after) IN
         /\ read.status = "reading" /\ read' \in Read
         /\ rows' = rows /\ scope' = scope /\ saves' = saves
         /\ read'.listing = read.listing
         /\ read'.quiet = read.quiet /\ read'.turned = read.turned
         /\ \/ Takes(later, read.after) /\ read'.status = "ended"
            \/ Takes({}, read.after) /\ read'.status = "refused"
            \/ \E items \in SUBSET later, last \in later :
                 /\ IsLast(last, items)
                 /\ Takes(items, {last}) /\ read'.status = "reading"
                 /\ \A k \in later \ items : Precedes(last, k)
                 /\ later \ items # {}
<1> DEFINE later == Later(read.listing, read.after)
<1>1. /\ read.status = "reading" /\ rows' = rows /\ scope' = scope /\ saves' = saves
      /\ read \in Read /\ TypeOK
  BY DEF Fetch, PagesInv, TypeOK
<1>2. PICK fetched \in SUBSET later :
        IsFirst(fetched, later, limit + 1) /\ TakePage(fetched, limit)
  BY DEF Fetch
<1>3. PICK items \in SUBSET fetched :
        /\ IsFirst(items, fetched, limit)
        /\ IF Cardinality(fetched) <= limit
           THEN read' = [read EXCEPT
                  !.listed = @ \union {IdOf(k) : k \in items},
                  !.again = @ \union ({IdOf(k) : k \in items} \intersect read.listed),
                  !.status = "ended"]
           ELSE \E last \in items :
                  /\ IsLast(last, items)
                  /\ IF ~Encodes(last.instance)
                     THEN read' = [read EXCEPT !.status = "refused"]
                     ELSE read' = [read EXCEPT
                            !.listed = @ \union {IdOf(k) : k \in items},
                            !.again = @ \union ({IdOf(k) : k \in items} \intersect read.listed),
                            !.after = {last}]
  BY <1>2 DEF TakePage
<1>4. limit \in Nat
  BY PagesAssumption
<1>5. later \subseteq Key /\ \A k \in later : IdOf(k) \in Id
  BY <1>1, LaterType
<1> DEFINE ids == {IdOf(k) : k \in items}
<1>6. ids \in SUBSET Id
  BY <1>5
<1> HIDE DEF later
<1>7. CASE Cardinality(fetched) <= limit
  <2>1. fetched = later
    BY <1>2, <1>4, <1>7 DEF IsFirst
  <2>2. items = fetched
    BY <1>3, <1>7 DEF IsFirst
  <2> HIDE DEF ids
  <2>3. read' = [read EXCEPT !.listed = @ \union ids,
                             !.again = @ \union (ids \intersect read.listed),
                             !.status = "ended"]
    BY <1>3, <1>7 DEF ids
  <2>4. /\ read' \in Read /\ read'.listing = read.listing /\ read'.after = read.after
        /\ read'.quiet = read.quiet /\ read'.turned = read.turned
        /\ read'.status = "ended"
        /\ read'.listed = read.listed \union ids
        /\ read'.again = read.again \union (ids \intersect read.listed)
    BY <2>3, <1>1, <1>6 DEF Read
  <2>5. Takes(later, read.after)
    BY <2>1, <2>2, <2>4 DEF Takes, ids
  <2> QED BY <2>4, <2>5, <1>1 DEF later
<1>8. CASE ~(Cardinality(fetched) <= limit)
  <2>1. PICK last \in items :
          /\ IsLast(last, items)
          /\ IF ~Encodes(last.instance)
             THEN read' = [read EXCEPT !.status = "refused"]
             ELSE read' = [read EXCEPT
                    !.listed = @ \union {IdOf(k) : k \in items},
                    !.again = @ \union ({IdOf(k) : k \in items} \intersect read.listed),
                    !.after = {last}]
    BY <1>3, <1>8
  <2>2. CASE ~Encodes(last.instance)
    <3>1. /\ read' \in Read /\ read'.listing = read.listing /\ read'.after = read.after
          /\ read'.quiet = read.quiet /\ read'.turned = read.turned
          /\ read'.status = "refused"
          /\ read'.listed = read.listed /\ read'.again = read.again
      BY <2>1, <2>2, <1>1 DEF Read
    <3>2. Takes({}, read.after)
      BY <3>1 DEF Takes
    <3> QED BY <3>1, <3>2, <1>1 DEF later
  <2>3. CASE Encodes(last.instance)
    <3> HIDE DEF ids
    <3>1. read' = [read EXCEPT !.listed = @ \union ids,
                               !.again = @ \union (ids \intersect read.listed),
                               !.after = {last}]
      BY <2>1, <2>3 DEF ids
    <3>2. last \in Key
      BY <1>5
    <3>3. /\ read' \in Read /\ read'.listing = read.listing /\ read'.after = {last}
          /\ read'.quiet = read.quiet /\ read'.turned = read.turned
          /\ read'.status = "reading"
          /\ read'.listed = read.listed \union ids
          /\ read'.again = read.again \union (ids \intersect read.listed)
      BY <3>1, <3>2, <1>1, <1>6 DEF Read
    <3>4. Takes(items, {last})
      BY <3>3 DEF Takes, ids
    <3>5. items # fetched
      <4>1. IsFirst(items, fetched, limit)
        BY <1>3
      <4> QED BY <4>1, <1>4, <1>8 DEF IsFirst
    <3>6. \A k \in later \ items : Precedes(last, k)
      BY <1>2, <1>3, <2>1 DEF IsFirst
    <3>7. later \ items # {} /\ items \in SUBSET later /\ last \in later
      BY <1>2, <1>3, <2>1, <3>5
    <3> QED BY <1>1, <2>1, <3>3, <3>4, <3>6, <3>7 DEF later
  <2> QED BY <2>2, <2>3
<1> QED BY <1>7, <1>8

\* Listing some rows for the second time takes one that came after the token again.
LEMMA TakesTurned ==
  ASSUME PagesInv, NEW items \in SUBSET Later(read.listing, read.after),
         NEW token, Takes(items, token), read.status = "reading"
  PROVE  \A id \in read'.again : id.instance \in read.turned
<1> SUFFICES ASSUME NEW k \in items, IdOf(k) \in read.listed
             PROVE  IdOf(k).instance \in read.turned
  BY DEF Takes, PagesInv, ListedOnceUnlessTurned
<1>1. k = KeyOf(IdOf(k)) /\ AfterToken(read.after, k)
  BY LaterType DEF PagesInv
<1> QED BY <1>1 DEF PagesInv, ListedInv

\* A page lists what comes next, and leaves only what comes after its token.
LEMMA FetchSound ==
  ASSUME PagesInv, NEW limit \in Limits, Fetch(limit)
  PROVE  PagesInv'
<1> DEFINE later == Later(read.listing, read.after)
<1>1. /\ read.status = "reading" /\ read' \in Read
      /\ rows' = rows /\ scope' = scope /\ saves' = saves
      /\ read'.listing = read.listing
      /\ read'.quiet = read.quiet /\ read'.turned = read.turned
      /\ \/ Takes(later, read.after) /\ read'.status = "ended"
         \/ Takes({}, read.after) /\ read'.status = "refused"
         \/ \E items \in SUBSET later, last \in later :
              /\ IsLast(last, items)
              /\ Takes(items, {last}) /\ read'.status = "reading"
              /\ \A k \in later \ items : Precedes(last, k)
              /\ later \ items # {}
  BY FetchCases
<1>2. TypeOK'
  BY <1>1 DEF PagesInv, TypeOK
<1>3. \A id \in read.quiet : id \in Id /\ Selects(read.listing, id)
  BY DEF PagesInv, TypeOK, Read, QuietInv
<1>a. /\ read.status = "reading" /\ rows' = rows /\ scope' = scope
      /\ read'.listing = read.listing
      /\ read'.quiet = read.quiet /\ read'.turned = read.turned
  BY <1>1
<1>b. \A id : KeyOf(id)' = KeyOf(id) /\ (Selects(read.listing, id) => Selects(read.listing, id)')
  BY <1>a DEF KeyOf, Selects
<1>4. \A id \in read.quiet : Selects(read.listing, id)'
  BY <1>3, <1>b
<1>5. \A id \in read.quiet : id \in read.listed \/ KeyOf(id) \in later
  BY <1>1, <1>3, LaterHas DEF PagesInv, QuietInv
<1>6. \A k \in later : k \in Key /\ IdOf(k) \in Id /\ k = KeyOf(IdOf(k)) /\ rows[IdOf(k).instance] # NoRow
  <2>1. TypeOK
    BY DEF PagesInv
  <2>2. \A k \in later : k \in Key /\ IdOf(k) \in Id /\ k = KeyOf(IdOf(k)) /\ Selects(read.listing, IdOf(k))
    BY <2>1, LaterType
  <2> QED BY <2>2 DEF Selects
<1>7. \A id \in read.quiet : IdOf(KeyOf(id)) = id
  BY <1>3, KeyOfType DEF PagesInv, Selects
<1>8. \A id \in read.listed :
        /\ rows[id.instance] # NoRow /\ id \in Id
        /\ id.instance \notin read.turned => ~AfterToken(read.after, KeyOf(id))
  BY <1>1 DEF PagesInv, ListedInv, TypeOK, Read
<1> HIDE DEF later
<1>9. CASE Takes(later, read.after) /\ read'.status = "ended"
  <2>1. read.quiet \subseteq read'.listed
    BY <1>5, <1>7, <1>9 DEF Takes
  <2>2. ListedInv'
    BY <1>1, <1>6, <1>8, <1>9 DEF ListedInv, Takes
  <2>3. ListedOnceUnlessTurned'
    BY <1>1, <1>9, TakesTurned DEF ListedOnceUnlessTurned, later
  <2>4. QuietInv'
    BY <1>a, <1>4, <1>9 DEF QuietInv
  <2> QED BY <1>1, <1>2, <2>1, <2>2, <2>3, <2>4 DEF PagesInv, QuietRowsAreListed
<1>10. CASE Takes({}, read.after) /\ read'.status = "refused"
  <2>1. read'.listed = read.listed /\ read'.again = read.again /\ read'.after = read.after
    BY <1>10 DEF Takes
  <2>2. QuietInv'
    BY <2>1, <1>a, <1>b, <1>4 DEF PagesInv, QuietInv, AfterToken
  <2>3. ListedInv'
    BY <2>1, <1>a, <1>b DEF PagesInv, ListedInv, AfterToken
  <2> QED BY <1>1, <1>2, <1>10, <2>1, <2>2, <2>3
          DEF PagesInv, QuietRowsAreListed, ListedOnceUnlessTurned
<1>11. ASSUME NEW items \in SUBSET later, NEW last \in later,
              IsLast(last, items), Takes(items, {last}), read'.status = "reading",
              \A k \in later \ items : Precedes(last, k)
       PROVE  PagesInv'
  <2>1. \A k \in later : AfterToken({last}, k) \/ k \in items
    BY <1>11 DEF AfterToken
  <2>2. QuietInv'
    <3> SUFFICES ASSUME NEW id \in read.quiet
                 PROVE  id \in read'.listed \/ AfterToken(read'.after, KeyOf(id)')
      BY <1>a, <1>4 DEF QuietInv, AfterToken
    <3>1. KeyOf(id)' = KeyOf(id)
      BY <1>b
    <3> QED BY <2>1, <3>1, <1>5, <1>7, <1>11 DEF Takes
  <2>3. last \in Key /\ AfterToken(read.after, last)
    BY LaterType DEF later, PagesInv
  <2>4. ListedInv'
    <3> SUFFICES ASSUME NEW id \in read'.listed
                 PROVE  /\ rows[id.instance] # NoRow
                        /\ id.instance \notin read.turned => ~AfterToken({last}, KeyOf(id))
      BY <1>1, <1>11 DEF ListedInv, Takes, KeyOf, AfterToken
    <3>1. CASE id \in read.listed
      <4>1. rows[id.instance] # NoRow /\ KeyOf(id) \in Key
        BY <3>1, <1>8, KeyOfType DEF PagesInv
      <4> SUFFICES ASSUME id.instance \notin read.turned, Precedes(last, KeyOf(id))
                   PROVE  FALSE
        BY <4>1 DEF AfterToken
      <4>2. PICK token \in read.after : ~Precedes(token, KeyOf(id))
        BY <3>1, <1>8 DEF AfterToken
      <4>3. token \in Key /\ Precedes(token, last)
        BY <2>3 DEF PagesInv, TypeOK, Read, AfterToken
      <4> QED BY <4>1, <4>2, <4>3, <2>3, StrictOrder
    <3>2. CASE id \notin read.listed
      <4>1. PICK k \in items : id = IdOf(k)
        BY <3>2, <1>11 DEF Takes
      <4>2. k \in Key /\ k = KeyOf(id) /\ rows[id.instance] # NoRow
        BY <4>1, <1>6
      <4>3. k = last \/ Precedes(k, last)
        BY <1>11 DEF IsLast
      <4>4. ~Precedes(last, k)
        BY <4>2, <4>3, <2>3, StrictOrder
      <4> QED BY <4>2, <4>4 DEF AfterToken
    <3> QED BY <3>1, <3>2
  <2>5. ListedOnceUnlessTurned'
    BY <1>1, <1>11, TakesTurned DEF ListedOnceUnlessTurned, later
  <2> QED BY <1>2, <1>11, <2>2, <2>4, <2>5 DEF PagesInv, QuietRowsAreListed
<1> QED BY <1>1, <1>9, <1>10, <1>11

\* A step of the specification keeps PagesInv.
LEMMA StepSound == PagesInv /\ [Next]_vars => PagesInv'
<1> SUFFICES ASSUME PagesInv, [Next]_vars PROVE PagesInv'
  OBVIOUS
<1>1. ASSUME NEW listing \in Listings, Begin(listing) PROVE PagesInv'
  <2>1. {} \in SUBSET Key
    OBVIOUS
  <2> QED BY <1>1, <2>1, BeginSound DEF Begin
<1>2. ASSUME NEW listing \in Listings, Switch(listing) PROVE PagesInv'
  <2>1. read.after \in SUBSET Key /\ saves \in Nat
    BY DEF PagesInv, TypeOK, Read
  <2> QED BY <1>2, <2>1, BeginSound DEF Switch
<1>3. ASSUME NEW instances \in SUBSET Instances, Authorize(instances) PROVE PagesInv'
  BY <1>3, AuthorizeSound
<1>4. ASSUME NEW limit \in Limits, Fetch(limit) PROVE PagesInv'
  BY <1>4, FetchSound
<1>5. ASSUME NEW i \in Instances, Save(i) PROVE PagesInv'
  BY <1>5, SaveSound
<1>6. CASE UNCHANGED vars
  BY <1>6 DEF vars, PagesInv, TypeOK, QuietRowsAreListed, ListedOnceUnlessTurned,
              QuietInv, ListedInv, Selects, KeyOf, AfterToken
<1> QED BY <1>1, <1>2, <1>3, <1>4, <1>5, <1>6 DEF Next

-----------------------------------------------------------------------------

(***************************************************************************)
(* PagesInv is an invariant of every read (the page queries beside saves). *)
(***************************************************************************)
THEOREM PagesInvariance == Spec => []PagesInv
BY InitSound, StepSound, PTL DEF Spec

(***************************************************************************)
(* Nothing that stays as it is is missed by a read (queryTaskProjection,   *)
(* queryInstanceProjection).                                               *)
(***************************************************************************)
THEOREM NothingQuietIsMissed == Spec => []QuietRowsAreListed
<1>1. PagesInv => QuietRowsAreListed
  BY DEF PagesInv
<1> QED BY <1>1, PagesInvariance, PTL

(***************************************************************************)
(* Nothing whose time does not go back is listed twice in a read.          *)
(***************************************************************************)
THEOREM NothingIsRepeated == Spec => []ListedOnceUnlessTurned
<1>1. PagesInv => ListedOnceUnlessTurned
  BY DEF PagesInv
<1> QED BY <1>1, PagesInvariance, PTL

(***************************************************************************)
(* A read ends where its query saw no later row, and nowhere else          *)
(* (ContinuationPage.Next).                                                *)
(***************************************************************************)
THEOREM TheEndIsExact == Spec => EndsExactly
<1>1. ASSUME PagesInv, NEW limit \in Limits, Fetch(limit)
      PROVE  /\ read'.status = "ended" =>
                  \A key \in Later(read.listing, read.after) : IdOf(key) \in read'.listed
             /\ read'.status = "reading" => Later(read.listing, read'.after) # {}
  <2> DEFINE later == Later(read.listing, read.after)
  <2>1. \/ Takes(later, read.after) /\ read'.status = "ended"
        \/ Takes({}, read.after) /\ read'.status = "refused"
        \/ \E items \in SUBSET later, last \in later :
             /\ IsLast(last, items)
             /\ Takes(items, {last}) /\ read'.status = "reading"
             /\ \A k \in later \ items : Precedes(last, k)
             /\ later \ items # {}
    BY <1>1, FetchCases
  <2>2. read'.status = "ended" => \A key \in later : IdOf(key) \in read'.listed
    <3> HIDE DEF later
    <3> QED BY <2>1 DEF Takes
  <2>3. ASSUME read'.status = "reading" PROVE Later(read.listing, read'.after) # {}
    <3>1. PICK items \in SUBSET later, last \in later :
            /\ Takes(items, {last}) /\ later \ items # {}
            /\ \A k \in later \ items : Precedes(last, k)
      BY <2>1, <2>3
    <3>2. PICK k \in later \ items : Precedes(last, k)
      BY <3>1
    <3>3. read'.after = {last} /\ k \in Selected(read.listing)
      BY <3>1 DEF Takes, Later
    <3> QED BY <3>2, <3>3 DEF Later, AfterToken
  <2> QED BY <2>2, <2>3
<1>2. PagesInv /\ [Next]_vars =>
        [\A limit \in Limits : Fetch(limit) =>
           /\ read'.status = "ended" =>
                \A key \in Later(read.listing, read.after) : IdOf(key) \in read'.listed
           /\ read'.status = "reading" => Later(read.listing, read'.after) # {}]_vars
  BY <1>1
<1> QED BY <1>2, PagesInvariance, PTL DEF Spec, EndsExactly
=============================================================================
