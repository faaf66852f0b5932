---------------------------- MODULE ProjectionPages ----------------------------
(***************************************************************************)
(* A host reads a listing of postgres.Projection page by page while the    *)
(* store replaces the query rows beneath it (projection_task.go,           *)
(* projection_instance.go, projection_query.go, projection_continuation.go).*)
(* Nothing is kept on the server between two pages: a page is one statement*)
(* over one snapshot, and the token of the next is the ordering key of the *)
(* last row returned.                                                      *)
(*                                                                         *)
(* Rows of other actors never match and are left out; so are the columns   *)
(* that neither select nor order.  A nil scope is the set of all instances.*)
(* The deprecated methods hand out the same key as a Cursor, whose length  *)
(* nobody bounds: they are this module with Unpageable = {}.               *)
(***************************************************************************)
EXTENDS Naturals, FiniteSets

CONSTANTS
  Instances,   \* instance identities, in their order
  Tasks,       \* task identities, in their order
  Times,       \* order_at, from the Unix epoch
  Limits,      \* page limits a host asks for
  Unpageable,  \* instances whose keys encode to more than 1024 characters
  NoRow,
  MaxSaves     \* bound of the model: saves beside one read

ASSUME PagesAssumption ==
  /\ Instances \subseteq Nat
  /\ Tasks \subseteq Nat \ {0}
  /\ Times \subseteq Nat
  /\ Limits \subseteq Nat \ {0}
  /\ MaxSaves \in Nat
  /\ NoRow \notin [at : Times, running : BOOLEAN,
                   tasks : [Tasks -> {"none", "active", "participated"}]]

VARIABLES
  rows,        \* committed query rows, an instance's with its task rows
  scope,       \* the instances the host is authorized for now
  read,        \* the read in progress, or the last one
  saves        \* how many saves it has met

vars == <<rows, scope, read, saves>>

\* "participated" is completed or closed; "none" is no task of this actor.
InstanceRow == [at : Times, running : BOOLEAN,
                tasks : [Tasks -> {"none", "active", "participated"}]]

Listings == {"worklist", "participated", "initiated"}
TaskListings == {"worklist", "participated"}

\* An instance's own row has no task.
Key == [at : Times, instance : Instances, task : Tasks \union {0}]
Id == [instance : Instances, task : Tasks \union {0}]
IdOf(key) == [instance |-> key.instance, task |-> key.task]

\* after: the token held, none before the first page.  The rest is what a reader
\* of this specification must remember: rows listed, rows listed again, rows
\* nobody has saved since the read began, and instances whose time went back.
Read == [listing : Listings,
         status : {"reading", "refused", "ended"},
         after : SUBSET Key,
         listed : SUBSET Id, again : SUBSET Id,
         quiet : SUBSET Id, turned : SUBSET Instances]

TypeOK ==
  /\ rows \in [Instances -> InstanceRow \union {NoRow}]
  /\ scope \in SUBSET Instances
  /\ read \in Read
  /\ saves \in Nat

-----------------------------------------------------------------------------
(* What a listing selects, and in which order. *)

\* ORDER BY order_at DESC, instance_id ASC, task_id ASC.
Precedes(k, l) ==
  \/ k.at > l.at
  \/ k.at = l.at /\ k.instance < l.instance
  \/ k.at = l.at /\ k.instance = l.instance /\ k.task < l.task

Selects(listing, id) ==
  LET i == id.instance IN
  /\ i \in scope
  /\ rows[i] # NoRow
  /\ \/ /\ listing = "worklist" /\ id.task # 0
        /\ rows[i].tasks[id.task] = "active" /\ rows[i].running = TRUE
     \/ /\ listing = "participated" /\ id.task # 0
        /\ rows[i].tasks[id.task] = "participated"
     \/ listing = "initiated" /\ id.task = 0

KeyOf(id) == [at |-> rows[id.instance].at, instance |-> id.instance, task |-> id.task]
Selected(listing) == {KeyOf(id) : id \in {x \in Id : Selects(listing, x)}}

\* AfterToken, mutated: the token's row is in the next page,
FromToken(after, key) == \A token \in after : ~Precedes(key, token)
\* or every row of its time is.
SinceTime(after, key) == \A token \in after : key.at <= token.at

AfterToken(after, key) == \A token \in after : Precedes(token, key)

Later(listing, after) == {key \in Selected(listing) : AfterToken(after, key)}

\* LIMIT n of the ordered rows.
IsFirst(some, all, n) ==
  /\ some \subseteq all
  /\ \A k \in some, l \in all \ some : Precedes(k, l)
  /\ IF Cardinality(all) <= n THEN some = all ELSE Cardinality(some) = n

IsLast(key, items) == key \in items /\ \A k \in items : k = key \/ Precedes(k, key)

-----------------------------------------------------------------------------

NewRead(listing, after) ==
  [listing |-> listing, status |-> "reading", after |-> after,
   listed |-> {}, again |-> {},
   quiet |-> {IdOf(key) : key \in Later(listing, after)}, turned |-> {}]

\* Rows of aggregates that the store saved, or that the migration derived.
Init ==
  /\ rows \in [Instances -> InstanceRow \union {NoRow}]
  /\ scope = Instances
  /\ saves = 0
  /\ \E listing \in Listings : read = NewRead(listing, {})

Begin(listing) ==
  /\ read.status # "reading"
  /\ read' = NewRead(listing, {})
  /\ saves' = 0
  /\ UNCHANGED <<rows, scope>>

\* The task listings share their tokens; either refuses one of initiated instances.
Switch(listing) ==
  /\ read.status = "reading" /\ read.listing \in TaskListings
  /\ read.after # {}
  /\ listing \in TaskListings \ {read.listing}
  /\ read' = NewRead(listing, read.after)
  /\ UNCHANGED <<rows, scope, saves>>

\* The host's authorization changes; a token carries none.
Authorize(instances) ==
  /\ instances # scope
  /\ scope' = instances
  /\ read' = [read EXCEPT !.quiet = {id \in @ : id.instance \in instances}]
  /\ UNCHANGED <<rows, saves>>

\* encodeContinuationEnvelope.
Encodes(i) == i \notin Unpageable

\* TakePage, mutated: the look-ahead row decides nothing, a full page goes on.
TakeFullPage(fetched, limit) ==
  \E items \in SUBSET fetched :
    /\ IsFirst(items, fetched, limit)
    /\ read' = [read EXCEPT
         !.listed = @ \union {IdOf(k) : k \in items},
         !.again = @ \union ({IdOf(k) : k \in items} \intersect read.listed),
         !.after = {k \in items : IsLast(k, items)},
         !.status = IF Cardinality(fetched) = limit THEN "reading" ELSE "ended"]

\* TakePage, mutated: the token names the look-ahead row.
TakePageToLookAhead(fetched, limit) ==
  \E items \in SUBSET fetched :
    /\ IsFirst(items, fetched, limit)
    /\ read' = [read EXCEPT
         !.listed = @ \union {IdOf(k) : k \in items},
         !.again = @ \union ({IdOf(k) : k \in items} \intersect read.listed),
         !.after = {k \in fetched : IsLast(k, fetched)},
         !.status = IF Cardinality(fetched) > limit THEN "reading" ELSE "ended"]

\* Of the rows fetched, limit + 1 at most: the items, and the token of the last
\* if there is a row beyond.  A token that does not fit fails the whole page.
TakePage(fetched, limit) ==
  \E items \in SUBSET fetched :
    /\ IsFirst(items, fetched, limit)
    /\ IF Cardinality(fetched) <= limit
       THEN read' = [read EXCEPT
              !.listed = @ \union {IdOf(k) : k \in items},
              !.again = @ \union ({IdOf(k) : k \in items} \intersect read.listed),
              !.status = "ended"]
       ELSE \E last \in items :
              /\ IsLast(last, items)
              /\ IF ~Encodes(last.instance)
                 THEN read' = [read EXCEPT !.status = "refused"]
                 ELSE read' = [read EXCEPT
                        !.listed = @ \union {IdOf(k) : k \in items},
                        !.again = @ \union ({IdOf(k) : k \in items} \intersect read.listed),
                        !.after = {last}]

\* WorklistPage, ParticipatedPage, InitiatedPage.  A query that fails changes
\* nothing: the host keeps its token and may try again.
Fetch(limit) ==
  /\ read.status = "reading"
  /\ \E fetched \in SUBSET Later(read.listing, read.after) :
       /\ IsFirst(fetched, Later(read.listing, read.after), limit + 1)
       /\ TakePage(fetched, limit)
  /\ UNCHANGED <<rows, scope, saves>>

\* What a save may make of a task row: what is decided stays.
NextTaskRow(status) ==
  IF status = "participated" THEN {"participated"} ELSE {"none", "active", "participated"}

NextRows(i) ==
  IF rows[i] = NoRow THEN InstanceRow
  ELSE {new \in InstanceRow :
          /\ new.running => rows[i].running
          /\ \A t \in Tasks : new.tasks[t] \in NextTaskRow(rows[i].tasks[t])}

\* Store.Create and Save replace the rows of one instance in one transaction, and
\* refuse rows that no token could name.  Hosts' clocks differ: order_at is the
\* time of the last audit record, not of the latest.
Save(i) ==
  /\ saves < MaxSaves
  /\ Encodes(i)
  /\ \E new \in NextRows(i) :
       /\ rows' = [rows EXCEPT ![i] = new]
       /\ read' = [read EXCEPT
            !.quiet = {id \in @ : id.instance # i},
            !.turned = IF rows[i] # NoRow /\ new.at < rows[i].at THEN @ \union {i} ELSE @]
  /\ saves' = saves + 1
  /\ UNCHANGED scope

Next ==
  \/ \E listing \in Listings : Begin(listing) \/ Switch(listing)
  \/ \E instances \in SUBSET Instances : Authorize(instances)
  \/ \E limit \in Limits : Fetch(limit)
  \/ \E i \in Instances : Save(i)

\* A host that reads goes on, and its queries do not fail for ever.
Spec == Init /\ [][Next]_vars /\ WF_vars(\E limit \in Limits : Fetch(limit))

-----------------------------------------------------------------------------

(***************************************************************************)
(* A read to its end lists every row that matched when it began and that   *)
(* nobody has saved since, whatever happens to the other rows, and however *)
(* the limits of its pages vary (queryTaskProjection,                      *)
(* queryInstanceProjection).                                               *)
(***************************************************************************)
QuietRowsAreListed == read.status = "ended" => read.quiet \subseteq read.listed

(***************************************************************************)
(* A read lists a row a second time only if the order time of its instance *)
(* went back meanwhile, which takes hosts whose clocks differ              *)
(* (projectionAuditTimes, the keysets).                                    *)
(***************************************************************************)
ListedOnceUnlessTurned == \A id \in read.again : id.instance \in read.turned

\* Why, while the read goes on: what is quiet and not listed comes after the
\* token, and what is listed and has not turned back does not.
QuietInv ==
  \A id \in read.quiet :
    /\ Selects(read.listing, id)
    /\ read.status # "ended" =>
         id \in read.listed \/ AfterToken(read.after, KeyOf(id))

ListedInv ==
  \A id \in read.listed :
    /\ rows[id.instance] # NoRow
    /\ read.status # "ended" /\ id.instance \notin read.turned =>
         ~AfterToken(read.after, KeyOf(id))

(***************************************************************************)
(* The inductive invariant of both.                                        *)
(***************************************************************************)
PagesInv ==
  /\ TypeOK
  /\ QuietRowsAreListed /\ ListedOnceUnlessTurned
  /\ QuietInv /\ ListedInv

(***************************************************************************)
(* "Next is empty exactly when no later row was observed in the same       *)
(* database query" (ContinuationPage): a page ends the read only if it and *)
(* the pages before it list all there is, and a token has rows behind it.  *)
(***************************************************************************)
EndsExactly ==
  [][\A limit \in Limits : Fetch(limit) =>
       /\ read'.status = "ended" =>
            \A key \in Later(read.listing, read.after) : IdOf(key) \in read'.listed
       /\ read'.status = "reading" => Later(read.listing, read'.after) # {}]_vars
=============================================================================
