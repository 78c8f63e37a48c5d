------------------------ MODULE EducationContentProofs ------------------------
(***************************************************************************)
(* Proofs about the content tables of services/education.                  *)
(*                                                                         *)
(* Of EducationContent for any number of requests, contents, fields and    *)
(* versions: the inductive invariant ContentInv, and the refinement of the *)
(* atomic edits of VersionedContent.                                       *)
(*                                                                         *)
(* Of Seeding for any number of runs, starts, rows and admin requests:     *)
(* SeedShape, what the tables and runs look like; KeptInv, what a run has  *)
(* seen or written is still there; AloneInv, what a run found missing      *)
(* still is, as long as nobody else was active; CountsInv, what such a run *)
(* has counted where it is.                                                *)
(***************************************************************************)
EXTENDS EducationContent, Seeding, DataLemmas

-------------------------------------------------------------------------------
(* Facts used by several steps.                                                *)

\* The op field tells the kinds of requests apart.
LEMMA RequestKinds ==
    ASSUME TypeOK, NEW r \in Requests
    PROVE  /\ request[r].op = "create" => request[r] \in CreateRequest
           /\ request[r].op = "update" => request[r] \in UpdateRequest
  BY DEF TypeOK, CreateRequest, UpdateRequest, NoRequest

\* Merging a patch into a row of content gives a row, one version on.
LEMMA MergedType ==
    ASSUME NEW r, found[r].row \in Row, request[r] \in UpdateRequest
    PROVE  /\ Merged(r) \in Row
           /\ Merged(r).version = found[r].row.version + 1
           /\ Merged(r).slug = found[r].row.slug
  <1> DEFINE row  == found[r].row
             body == [f \in Fields |-> IF request[r].patch[f] = NULL THEN row.body[f]
                                       ELSE request[r].patch[f]]
  <1>1. row \in [slug : Slugs, version : Nat, body : Body] /\ request[r].patch \in Patch
    BY DEF Row, UpdateRequest
  <1>2. \A f \in Fields : row.body[f] \in Values /\ request[r].patch[f] \in Values \cup {NULL}
    BY <1>1 DEF Body, Patch
  <1>3. body \in Body
    BY <1>2 DEF Body
  <1>4. row.slug \in Slugs /\ row.version \in Nat /\ row.version + 1 \in Nat
    BY <1>1
  <1>5. Merged(r) = [row EXCEPT !.version = @ + 1, !.body = body]
    BY DEF Merged
  <1> HIDE DEF body
  <1> QED
    BY <1>1, <1>3, <1>4, <1>5 DEF Row

\* A handler that has read a row holds an id and a row of their types.
LEMMA FoundType ==
    ASSUME ContentInv, NEW r \in Requests,
           pc[r] \in {"txInsert", "txUpdate", "error"} \/ Updated(r)
    PROVE  /\ found[r] \in [id : ContentIds, row : Row]
           /\ found[r].id \in usedIds
           /\ request[r] \in UpdateRequest
           /\ Key(r) \in ContentIds \X Nat
           /\ Key(r)[1] = found[r].id /\ Key(r)[2] = found[r].row.version
           /\ Merged(r) \in Row
           /\ Merged(r).version = found[r].row.version + 1
           /\ Merged(r).slug = found[r].row.slug
           /\ found[r].row.version \in Nat /\ found[r].row.version >= 1
  <1>1. found[r].id \in usedIds /\ request[r].op = "update" /\ found[r].row.version >= 1
    BY DEF ContentInv, HandlersOK, Updated
  <1>2. found[r] \in [id : ContentIds, row : Row] \cup {[id |-> NULL]} /\ usedIds \subseteq ContentIds
    BY DEF ContentInv, TypeOK
  <1>3. found[r] \in [id : ContentIds, row : Row]
    BY <1>1, <1>2, NullAssumption
  <1>4. request[r] \in UpdateRequest
    BY <1>1, RequestKinds DEF ContentInv
  <1>5. found[r].id \in ContentIds /\ found[r].row \in Row /\ found[r].row.version \in Nat
    BY <1>3 DEF Row
  <1> QED
    BY <1>1, <1>3, <1>4, <1>5, MergedType DEF Key

\* The rows of content have a slug and a version.
LEMMA ContentRows ==
    ASSUME TypeOK, NEW id \in DOMAIN content
    PROVE  id \in ContentIds /\ content[id] \in Row /\ content[id].version \in Nat
               /\ content[id].slug \in Slugs
  BY DEF TypeOK, IsTable, Row

\* What a handler holds depends on found and request alone.
LEMMA HeldFrame ==
    ASSUME NEW r \in Requests, found'[r] = found[r], request'[r] = request[r]
    PROVE  Key(r)' = Key(r) /\ Merged(r)' = Merged(r)
  BY DEF Key, Merged

-------------------------------------------------------------------------------
(* The invariant holds initially.                                              *)

\* At first there is no content and no request.
LEMMA InitInvariant == Init => ContentInv
  <1> SUFFICES ASSUME Init PROVE ContentInv
    OBVIOUS
  <1>1. DOMAIN content = {} /\ DOMAIN revisions = {}
    BY EmptyTableType DEF Init
  <1>2. \A r \in Requests : pc[r] = "idle" /\ request[r] = NoRequest
    BY DEF Init
  <1>3. TypeOK
    BY EmptyTableType DEF Init, TypeOK
  <1>4. TablesOK /\ HistoryComplete /\ RevisionsOK
    BY <1>1 DEF TablesOK, HistoryComplete, RevisionsOK
  <1>5. HandlersOK /\ LocksOK /\ EditsLast /\ LosersLostARace
    BY <1>2 DEF HandlersOK, LocksOK, EditsLast, LosersLostARace, Updated, NoRequest
  <1> QED
    BY <1>3, <1>4, <1>5 DEF ContentInv

-------------------------------------------------------------------------------
(* Every step preserves it.                                                    *)

\* A step of one handler that changes no table and does not enter or leave an accepted
\* update or an open transaction: an arrival, a 404, an abort.
LEMMA QuietStep ==
    ASSUME ContentInv, TypeOK', NEW r \in Requests,
           UNCHANGED <<content, usedIds, revisions, found>>,
           \A q \in Requests \ {r} : pc'[q] = pc[q] /\ request'[q] = request[q],
           pc[r] # "ok", pc'[r] \notin {"ok", "txInsert", "txUpdate", "error"},
           pc'[r] = "insert" => request'[r].op = "create",
           pc'[r] = "find" => request'[r].op = "update"
    PROVE  ContentInv'
  <1>1. ~ Updated(r) /\ ~ Updated(r)'
    BY DEF Updated
  <1>2. \A q \in Requests \ {r} : /\ Updated(q)' <=> Updated(q)
                                  /\ Key(q)' = Key(q) /\ Merged(q)' = Merged(q)
    BY HeldFrame DEF Updated
  <1>3. TablesOK' /\ HistoryComplete'
    BY DEF ContentInv, TablesOK, HistoryComplete
  <1>4. HandlersOK'
    BY <1>1, <1>2 DEF ContentInv, HandlersOK
  <1>5. LocksOK'
    BY <1>2 DEF ContentInv, LocksOK
  <1>6. RevisionsOK'
    BY <1>1, <1>2 DEF ContentInv, RevisionsOK
  <1>7. EditsLast'
    BY <1>1, <1>2 DEF ContentInv, EditsLast
  <1>8. LosersLostARace'
    BY <1>1, <1>2 DEF ContentInv, LosersLostARace
  <1> QED
    BY <1>3, <1>4, <1>5, <1>6, <1>7, <1>8 DEF ContentInv

\* A create or update that arrives has read nothing yet.
LEMMA ArrivesInvariant ==
    ASSUME ContentInv, NEW r \in Requests, CreateArrives(r) \/ UpdateArrives(r)
    PROVE  ContentInv'
  <1>1. \E req \in CreateRequest \cup UpdateRequest :
           \/ Arrive(r, req, "insert") /\ req \in CreateRequest
           \/ Arrive(r, req, "find") /\ req \in UpdateRequest
    <2>1. CASE CreateArrives(r)
      <3>1. PICK slug \in Slugs, body \in Body :
               Arrive(r, [op |-> "create", slug |-> slug, body |-> body], "insert")
        BY <2>1 DEF CreateArrives
      <3>2. [op |-> "create", slug |-> slug, body |-> body] \in CreateRequest
        BY DEF CreateRequest
      <3> QED
        BY <3>1, <3>2
    <2>2. CASE UpdateArrives(r)
      <3>1. PICK slug \in Slugs, patch \in Patch :
               Arrive(r, [op |-> "update", slug |-> slug, patch |-> patch], "find")
        BY <2>2 DEF UpdateArrives
      <3>2. [op |-> "update", slug |-> slug, patch |-> patch] \in UpdateRequest
        BY DEF UpdateRequest
      <3> QED
        BY <3>1, <3>2
    <2> QED
      BY <2>1, <2>2
  <1> PICK req \in CreateRequest \cup UpdateRequest :
           \/ Arrive(r, req, "insert") /\ req \in CreateRequest
           \/ Arrive(r, req, "find") /\ req \in UpdateRequest
    BY <1>1
  <1>2. TypeOK'
    BY DEF ContentInv, TypeOK, Arrive, Goto, Phases
  <1>3. /\ UNCHANGED <<content, usedIds, revisions, found>>
        /\ \A q \in Requests \ {r} : pc'[q] = pc[q] /\ request'[q] = request[q]
        /\ pc[r] = "idle" /\ pc'[r] \in {"insert", "find"}
        /\ pc'[r] = "insert" => request'[r].op = "create"
        /\ pc'[r] = "find" => request'[r].op = "update"
    BY DEF ContentInv, TypeOK, Arrive, Goto, CreateRequest, UpdateRequest
  <1> QED
    BY <1>2, <1>3, QuietStep

\* A handler that stops leaves the rows it wrote, which need no handler.
LEMMA AbortInvariant ==
    ASSUME ContentInv, NEW r \in Requests, Abort(r)
    PROVE  ContentInv'
  <1>1. TypeOK'
    BY DEF ContentInv, TypeOK, Abort, Goto, Replies
  <1>2. /\ UNCHANGED <<content, usedIds, revisions, found, request>>
        /\ \A q \in Requests \ {r} : pc'[q] = pc[q]
        /\ pc[r] # "ok" /\ pc'[r] = "lost"
    BY DEF ContentInv, TypeOK, Abort, Goto, Phases
  <1> QED
    BY <1>1, <1>2, QuietStep

\* A create stores version 1, under a slug that no row has.
LEMMA InsertContentInvariant ==
    ASSUME ContentInv, NEW r \in Requests, InsertContent(r)
    PROVE  ContentInv'
  <1>1. CASE Named(request[r].slug) # {}
    <2>1. TypeOK'
      BY <1>1 DEF ContentInv, TypeOK, InsertContent, Goto, Replies
    <2>2. /\ UNCHANGED <<content, usedIds, revisions, found, request>>
          /\ \A q \in Requests \ {r} : pc'[q] = pc[q]
          /\ pc[r] = "insert" /\ pc'[r] = "conflict"
      BY <1>1 DEF ContentInv, TypeOK, InsertContent, Goto
    <2> QED
      BY <2>1, <2>2, QuietStep
  <1>2. CASE Named(request[r].slug) = {}
    <2> DEFINE row == [slug |-> request[r].slug, version |-> 1, body |-> request[r].body]
    <2>1. PICK id \in ContentIds \ usedIds :
             content' = Put(content, id, row) /\ usedIds' = usedIds \cup {id}
      BY <1>2 DEF InsertContent
    <2>2. /\ UNCHANGED <<revisions, request, found>>
          /\ pc' = [pc EXCEPT ![r] = "ok"] /\ pc[r] = "insert"
      BY <1>2 DEF InsertContent, Goto
    <2>3. request[r] \in CreateRequest /\ request[r].op = "create"
      BY <2>2, RequestKinds DEF ContentInv, HandlersOK
    <2>4. row \in Row
      BY <2>3 DEF CreateRequest, Row
    <2>5. row.version = 1 /\ row.slug = request[r].slug
      OBVIOUS
    <2> HIDE DEF row
    <2>6. /\ id \notin DOMAIN content
          /\ DOMAIN content' = DOMAIN content \cup {id}
          /\ content'[id] = row
          /\ \A x \in DOMAIN content : content'[x] = content[x]
      <3>1. id \notin DOMAIN content
        BY DEF ContentInv, TablesOK
      <3> QED
        BY <2>1, <3>1 DEF Put
    <2>7. /\ \A q \in Requests : Updated(q)' <=> Updated(q)
          /\ \A q \in Requests : Key(q)' = Key(q) /\ Merged(q)' = Merged(q)
          /\ \A q \in Requests : pc'[q] # pc[q] => pc'[q] = "ok" /\ pc[q] = "insert"
                                                     /\ request[q].op = "create"
      BY <2>2, <2>3, HeldFrame DEF ContentInv, TypeOK, Updated
    <2>8. TypeOK'
      BY <2>1, <2>2, <2>4, PutType DEF ContentInv, TypeOK, Replies
    <2>9. TablesOK'
      <3>1. \A x \in DOMAIN content : content[x].slug # row.slug
        BY <1>2, <2>5 DEF Named
      <3> QED
        BY <2>1, <2>5, <2>6, <3>1 DEF ContentInv, TablesOK
    <2>10. \A q \in Requests : found[q].id \in usedIds => found[q].id # id
      BY <2>1
    <2>11. HandlersOK'
      BY <2>1, <2>2, <2>6, <2>7, <2>10 DEF ContentInv, HandlersOK
    <2>12. LocksOK'
      BY <2>2, <2>7 DEF ContentInv, LocksOK
    <2>13. RevisionsOK'
      BY <2>1, <2>2, <2>7 DEF ContentInv, RevisionsOK
    <2>14. HistoryComplete'
      BY <2>1, <2>2, <2>5, <2>6 DEF ContentInv, HistoryComplete, RevisionsOK
    <2>15. EditsLast'
      <3>1. ASSUME NEW q \in Requests, Updated(q)
            PROVE  found[q].id # id
        BY <2>10, <3>1 DEF ContentInv, HandlersOK
      <3> QED
        BY <2>2, <2>6, <2>7, <3>1 DEF ContentInv, EditsLast
    <2>16. LosersLostARace'
      <3>1. ASSUME NEW q \in Requests, pc[q] = "error"
            PROVE  found[q].id # id
        BY <2>10, <3>1 DEF ContentInv, HandlersOK
      <3> QED
        BY <2>2, <2>6, <2>7, <3>1 DEF ContentInv, LosersLostARace
    <2> QED
      BY <2>8, <2>9, <2>11, <2>12, <2>13, <2>14, <2>15, <2>16 DEF ContentInv
  <1> QED
    BY <1>1, <1>2

\* An update has read a row as it is now.
LEMMA FindContentInvariant ==
    ASSUME ContentInv, NEW r \in Requests, FindContent(r)
    PROVE  ContentInv'
  <1>1. CASE Named(request[r].slug) = {}
    <2>1. TypeOK'
      BY <1>1 DEF ContentInv, TypeOK, FindContent, Goto, Replies
    <2>2. /\ UNCHANGED <<content, usedIds, revisions, found, request>>
          /\ \A q \in Requests \ {r} : pc'[q] = pc[q]
          /\ pc[r] = "find" /\ pc'[r] = "notFound"
      BY <1>1 DEF ContentInv, TypeOK, FindContent, Goto
    <2> QED
      BY <2>1, <2>2, QuietStep
  <1>2. CASE Named(request[r].slug) # {}
    <2>1. PICK id \in Named(request[r].slug) :
             /\ found' = [found EXCEPT ![r] = [id |-> id, row |-> content[id]]]
             /\ pc' = [pc EXCEPT ![r] = "txInsert"]
      BY <1>2 DEF FindContent, Goto
    <2>2. pc[r] = "find" /\ UNCHANGED <<content, usedIds, revisions, request>>
      BY DEF FindContent
    <2>3. id \in DOMAIN content /\ id \in ContentIds /\ content[id] \in Row
      BY ContentRows DEF ContentInv, Named
    <2>4. request[r].op = "update"
      BY <2>2 DEF ContentInv, HandlersOK
    <2>5. found'[r] = [id |-> id, row |-> content[id]] /\ pc'[r] = "txInsert"
      BY <2>1 DEF ContentInv, TypeOK
    <2>6. \A q \in Requests \ {r} : found'[q] = found[q] /\ pc'[q] = pc[q]
      BY <2>1 DEF ContentInv, TypeOK
    <2>7. TypeOK'
      BY <2>1, <2>2, <2>3 DEF ContentInv, TypeOK, Phases
    <2>8. /\ \A q \in Requests \ {r} : /\ Updated(q)' <=> Updated(q)
                                       /\ Key(q)' = Key(q) /\ Merged(q)' = Merged(q)
          /\ ~ Updated(r) /\ ~ Updated(r)'
      BY <2>2, <2>5, <2>6, HeldFrame DEF Updated
    <2>9. TablesOK' /\ HistoryComplete'
      BY <2>2 DEF ContentInv, TablesOK, HistoryComplete
    <2>10. HandlersOK'
      <3>1. content[id].version >= 1 /\ id \in usedIds /\ content[id].version \in Nat
        BY <2>3, ContentRows DEF ContentInv, TablesOK
      <3> QED
        BY <2>2, <2>4, <2>5, <2>6, <2>8, <3>1 DEF ContentInv, HandlersOK
    <2>11. LocksOK'
      BY <2>2, <2>5, <2>6, <2>8 DEF ContentInv, LocksOK
    <2>12. RevisionsOK'
      BY <2>2, <2>8 DEF ContentInv, RevisionsOK
    <2>13. EditsLast'
      BY <2>2, <2>6, <2>8 DEF ContentInv, EditsLast
    <2>14. LosersLostARace'
      BY <2>2, <2>5, <2>6, <2>8 DEF ContentInv, LosersLostARace
    <2> QED
      BY <2>7, <2>9, <2>10, <2>11, <2>12, <2>13, <2>14 DEF ContentInv
  <1> QED
    BY <1>1, <1>2

\* The unique key of revisions admits one transaction per version.
LEMMA InsertRevisionInvariant ==
    ASSUME ContentInv, NEW r \in Requests, InsertRevision(r)
    PROVE  ContentInv'
  <1>1. /\ pc[r] = "txInsert" /\ ~ Locked(Key(r))
        /\ pc' = [pc EXCEPT ![r] = IF Key(r) \in DOMAIN revisions THEN "error" ELSE "txUpdate"]
        /\ UNCHANGED <<content, usedIds, revisions, request, found>>
    BY DEF InsertRevision, Goto
  <1>2. /\ pc'[r] = IF Key(r) \in DOMAIN revisions THEN "error" ELSE "txUpdate"
        /\ \A q \in Requests \ {r} : pc'[q] = pc[q]
    BY <1>1 DEF ContentInv, TypeOK
  <1>3. /\ \A q \in Requests : Key(q)' = Key(q) /\ Merged(q)' = Merged(q)
        /\ \A q \in Requests : Updated(q)' <=> Updated(q)
    BY <1>1, <1>2, HeldFrame DEF Updated
  <1>4. TypeOK'
    BY <1>1 DEF ContentInv, TypeOK, Phases, Replies
  <1>5. TablesOK' /\ HistoryComplete'
    BY <1>1 DEF ContentInv, TablesOK, HistoryComplete
  <1>6. HandlersOK'
    BY <1>1, <1>2, <1>3 DEF ContentInv, HandlersOK
  <1>7. LocksOK'
    BY <1>1, <1>2, <1>3 DEF ContentInv, LocksOK, Locked
  <1>8. RevisionsOK'
    BY <1>1, <1>3 DEF ContentInv, RevisionsOK
  <1>9. EditsLast'
    BY <1>1, <1>3 DEF ContentInv, EditsLast
  <1>10. LosersLostARace'
    <2>1. ASSUME Key(r) \in DOMAIN revisions
          PROVE  /\ \E q \in Requests : Updated(q) /\ Key(q) = Key(r)
                 /\ found[r].id \in DOMAIN content =>
                        content[found[r].id].version > found[r].row.version
      <3>1. \E q \in Requests : Updated(q) /\ Key(q) = Key(r)
        BY <2>1 DEF ContentInv, RevisionsOK
      <3>2. ASSUME found[r].id \in DOMAIN content
            PROVE  content[found[r].id].version > found[r].row.version
        <4>1. Key(r)[1] = found[r].id /\ Key(r)[2] = found[r].row.version
          BY DEF Key
        <4>2. Key(r)[2] \in 1..(content[found[r].id].version - 1)
          BY <2>1, <3>2, <4>1 DEF ContentInv, HistoryComplete
        <4>3. content[found[r].id].version \in Nat
          BY <3>2, ContentRows DEF ContentInv
        <4> QED
          BY <4>1, <4>2, <4>3
      <3> QED
        BY <3>1, <3>2
    <2> QED
      BY <1>1, <1>2, <1>3, <2>1 DEF ContentInv, LosersLostARace
  <1> QED
    BY <1>4, <1>5, <1>6, <1>7, <1>8, <1>9, <1>10 DEF ContentInv

\* At the commit the row is the one the update read, if it exists: the revision of its
\* version is not stored yet, so no other edit of that version was accepted.
LEMMA CommitIsFresh ==
    ASSUME ContentInv, NEW r \in Requests, pc[r] = "txUpdate", found[r].id \in DOMAIN content
    PROVE  content[found[r].id] = found[r].row
  <1> DEFINE id == found[r].id
  <1>1. content[id].version \in Nat /\ content[id].version >= found[r].row.version
    BY ContentRows DEF ContentInv, HandlersOK
  <1>2. found[r].row.version \in Nat /\ found[r].row.version >= 1
    BY FoundType
  <1>3. Key(r) \notin DOMAIN revisions /\ Key(r) = <<id, found[r].row.version>>
    BY DEF ContentInv, LocksOK, Key
  <1>4. \A v \in 1..(content[id].version - 1) : <<id, v>> \in DOMAIN revisions
    BY DEF ContentInv, HistoryComplete
  <1>5. ~ (found[r].row.version \in 1..(content[id].version - 1))
    BY <1>3, <1>4
  <1>6. content[id].version = found[r].row.version
    BY <1>1, <1>2, <1>5
  <1> QED
    BY <1>6 DEF ContentInv, HandlersOK

\* The unconditional UPDATE replaces the very version that was read.
LEMMA UpdateContentInvariant ==
    ASSUME ContentInv, NEW r \in Requests, UpdateContent(r)
    PROVE  ContentInv'
  <1> DEFINE id  == found[r].id
             row == found[r].row
             v   == found[r].row.version
  <1>1. /\ pc[r] = "txUpdate" /\ pc' = [pc EXCEPT ![r] = "ok"]
        /\ revisions' = Put(revisions, Key(r), row)
        /\ content' = IF id \in DOMAIN content THEN Put(content, id, Merged(r)) ELSE content
        /\ UNCHANGED <<usedIds, request, found>>
    BY DEF UpdateContent, Goto
  <1>2. /\ found[r] \in [id : ContentIds, row : Row] /\ id \in usedIds /\ id \in ContentIds
        /\ row \in Row /\ Key(r) \in ContentIds \X Nat
        /\ Key(r)[1] = id /\ Key(r)[2] = v
        /\ Merged(r) \in Row /\ Merged(r).version = v + 1 /\ Merged(r).slug = row.slug
        /\ v \in Nat /\ v >= 1 /\ request[r].op = "update"
    <2>1. found[r] \in [id : ContentIds, row : Row] /\ request[r] \in UpdateRequest
      BY <1>1, FoundType
    <2>2. id \in ContentIds /\ row \in Row /\ request[r].op = "update"
      BY <2>1 DEF UpdateRequest
    <2> QED
      BY <1>1, <2>1, <2>2, FoundType
  <1>3. /\ Key(r) \notin DOMAIN revisions
        /\ DOMAIN revisions' = DOMAIN revisions \cup {Key(r)}
        /\ revisions'[Key(r)] = row
        /\ \A k \in DOMAIN revisions : revisions'[k] = revisions[k]
    <2>1. Key(r) \notin DOMAIN revisions
      BY <1>1 DEF ContentInv, LocksOK
    <2> QED
      BY <1>1, <2>1 DEF Put
  <1>4. /\ DOMAIN content' = DOMAIN content
        /\ id \in DOMAIN content => content'[id] = Merged(r) /\ content[id] = row
        /\ \A x \in DOMAIN content : x # id => content'[x] = content[x]
    <2>1. CASE id \notin DOMAIN content
      BY <1>1, <2>1
    <2>2. CASE id \in DOMAIN content
      <3>1. content[id] = row
        BY <1>1, <2>2, CommitIsFresh
      <3> QED
        BY <1>1, <2>2, <3>1 DEF Put
    <2> QED
      BY <2>1, <2>2
  <1>5. pc'[r] = "ok" /\ \A q \in Requests \ {r} : pc'[q] = pc[q]
    BY <1>1 DEF ContentInv, TypeOK
  <1>6. /\ \A q \in Requests : Key(q)' = Key(q) /\ Merged(q)' = Merged(q)
        /\ \A q \in Requests \ {r} : Updated(q)' <=> Updated(q)
        /\ Updated(r)' /\ ~ Updated(r)
    BY <1>1, <1>2, <1>5, HeldFrame DEF Updated
  <1>7. TypeOK'
    BY <1>1, <1>2, PutType DEF ContentInv, TypeOK, Replies
  <1>8. TablesOK'
    BY <1>1, <1>2, <1>4 DEF ContentInv, TablesOK
  <1>9. HandlersOK'
    <2>1. ASSUME NEW q \in Requests,
                 pc'[q] \in {"txInsert", "txUpdate", "error"} \/ Updated(q)'
          PROVE  /\ found[q].id \in usedIds
                 /\ found[q].row.version >= 1
                 /\ found[q].id \in DOMAIN content' =>
                      /\ content'[found[q].id].version >= found[q].row.version
                      /\ content'[found[q].id].version = found[q].row.version =>
                             content'[found[q].id] = found[q].row
      <3>1. pc[q] \in {"txInsert", "txUpdate", "error"} \/ Updated(q)
        BY <1>1, <1>5, <1>6, <2>1
      <3>2. /\ found[q].row.version \in Nat
            /\ found[q].id \in usedIds /\ found[q].row.version >= 1
            /\ found[q].id \in DOMAIN content =>
                  /\ content[found[q].id].version >= found[q].row.version
                  /\ content[found[q].id].version = found[q].row.version =>
                         content[found[q].id] = found[q].row
        BY <3>1, FoundType DEF ContentInv, HandlersOK
      <3> QED
        BY <1>2, <1>4, <3>2
    <2>2. \A q \in Requests : /\ pc'[q] = "insert" => request[q].op = "create"
                              /\ pc'[q] \in {"find", "txInsert", "txUpdate", "error"} =>
                                     request[q].op = "update"
      BY <1>2, <1>5 DEF ContentInv, HandlersOK
    <2> QED
      BY <1>1, <2>1, <2>2 DEF HandlersOK
  <1>10. LocksOK'
    BY <1>1, <1>3, <1>5, <1>6 DEF ContentInv, LocksOK
  <1>11. RevisionsOK'
    BY <1>1, <1>2, <1>3, <1>6 DEF ContentInv, RevisionsOK
  <1>12. HistoryComplete'
    <2>1. ASSUME NEW x \in DOMAIN content', x # id
          PROVE  /\ \A w \in 1..(content'[x].version - 1) : <<x, w>> \in DOMAIN revisions'
                 /\ \A k \in DOMAIN revisions' : k[1] = x => k[2] \in 1..(content'[x].version - 1)
      BY <1>2, <1>3, <1>4, <2>1 DEF ContentInv, HistoryComplete
    <2>2. ASSUME id \in DOMAIN content'
          PROVE  /\ \A w \in 1..(content'[id].version - 1) : <<id, w>> \in DOMAIN revisions'
                 /\ \A k \in DOMAIN revisions' : k[1] = id => k[2] \in 1..(content'[id].version - 1)
      <3>1. content'[id].version - 1 = v /\ content[id].version = v
        BY <1>2, <1>4, <2>2
      <3>2. Key(r) = <<id, v>>
        BY DEF Key
      <3>3. /\ \A w \in 1..(v - 1) : <<id, w>> \in DOMAIN revisions
            /\ \A k \in DOMAIN revisions : k[1] = id => k[2] \in 1..(v - 1)
        BY <1>4, <2>2, <3>1 DEF ContentInv, HistoryComplete
      <3>4. \A w \in 1..v : w \in 1..(v - 1) \/ w = v
        BY <1>2
      <3>5. v \in 1..v /\ \A w \in 1..(v - 1) : w \in 1..v
        BY <1>2
      <3> QED
        BY <1>2, <1>3, <3>1, <3>2, <3>3, <3>4, <3>5
    <2> QED
      BY <2>1, <2>2 DEF HistoryComplete
  <1>13. EditsLast'
    <2>1. ASSUME NEW q \in Requests, Updated(q)', found[q].id \in DOMAIN content'
          PROVE  \/ content'[found[q].id] = Merged(q)
                 \/ LET k == <<found[q].id, Merged(q).version>>
                    IN  k \in DOMAIN revisions' /\ revisions'[k] = Merged(q)
      <3>1. CASE q = r
        BY <1>4, <2>1, <3>1
      <3>2. CASE q # r /\ content[found[q].id] = Merged(q)
        <4>1. CASE found[q].id = id
          <5>1. Merged(q) = row
            BY <1>4, <2>1, <3>2, <4>1
          <5>2. Key(r) = <<found[q].id, Merged(q).version>>
            BY <4>1, <5>1 DEF Key
          <5> QED
            BY <1>3, <5>1, <5>2
        <4>2. CASE found[q].id # id
          BY <1>4, <2>1, <3>2, <4>2
        <4> QED
          BY <4>1, <4>2
      <3>3. CASE q # r /\ content[found[q].id] # Merged(q)
        BY <1>3, <1>4, <1>6, <2>1, <3>3 DEF ContentInv, EditsLast
      <3> QED
        BY <3>1, <3>2, <3>3
    <2> QED
      BY <1>1, <1>6, <2>1 DEF EditsLast
  <1>14. LosersLostARace'
    <2>1. ASSUME NEW q \in Requests, pc'[q] = "error"
          PROVE  /\ \E p \in Requests : Updated(p)' /\ Key(p) = Key(q)
                 /\ found[q].id \in DOMAIN content' =>
                        content'[found[q].id].version > found[q].row.version
      <3>1. q # r /\ pc[q] = "error"
        BY <1>5, <2>1
      <3>2. found[q].row.version \in Nat
        BY <3>1, FoundType
      <3>3. /\ \E p \in Requests : Updated(p) /\ Key(p) = Key(q)
            /\ found[q].id \in DOMAIN content =>
                   content[found[q].id].version > found[q].row.version
        BY <3>1 DEF ContentInv, LosersLostARace
      <3> QED
        BY <1>2, <1>4, <1>6, <3>2, <3>3
    <2> QED
      BY <1>1, <1>6, <2>1 DEF LosersLostARace
  <1> QED
    BY <1>7, <1>8, <1>9, <1>10, <1>11, <1>12, <1>13, <1>14 DEF ContentInv

\* A removal takes the revisions with the content.
LEMMA RemoveContentInvariant ==
    ASSUME ContentInv, NEW slug \in Slugs, RemoveContent(slug)
    PROVE  ContentInv'
  <1>1. content' = Drop(content, Named(slug)) /\ UNCHANGED <<usedIds, revisions, request, found, pc>>
    BY DEF RemoveContent
  <1>2. /\ DOMAIN content' \subseteq DOMAIN content
        /\ \A x \in DOMAIN content' : content'[x] = content[x]
    BY <1>1 DEF Drop
  <1>3. /\ \A q \in Requests : Key(q)' = Key(q) /\ Merged(q)' = Merged(q)
        /\ \A q \in Requests : Updated(q)' <=> Updated(q)
    BY <1>1, HeldFrame DEF Updated
  <1>4. TypeOK'
    BY <1>1, DropType DEF ContentInv, TypeOK
  <1>5. TablesOK' /\ HistoryComplete'
    BY <1>1, <1>2 DEF ContentInv, TablesOK, HistoryComplete
  <1>6. HandlersOK'
    BY <1>1, <1>2, <1>3 DEF ContentInv, HandlersOK
  <1>7. LocksOK' /\ RevisionsOK'
    BY <1>1, <1>3 DEF ContentInv, LocksOK, RevisionsOK
  <1>8. EditsLast'
    BY <1>1, <1>2, <1>3 DEF ContentInv, EditsLast
  <1>9. LosersLostARace'
    BY <1>1, <1>2, <1>3 DEF ContentInv, LosersLostARace
  <1> QED
    BY <1>4, <1>5, <1>6, <1>7, <1>8, <1>9 DEF ContentInv

\* The invariant is inductive.
LEMMA NextInvariant == ContentInv /\ [Next]_vars => ContentInv'
  <1> SUFFICES ASSUME ContentInv, [Next]_vars PROVE ContentInv'
    OBVIOUS
  <1>1. ASSUME NEW r \in Requests, Step(r) PROVE ContentInv'
    BY <1>1, ArrivesInvariant, InsertContentInvariant, FindContentInvariant,
       InsertRevisionInvariant, UpdateContentInvariant, AbortInvariant DEF Step
  <1>2. ASSUME NEW slug \in Slugs, RemoveContent(slug) PROVE ContentInv'
    BY <1>2, RemoveContentInvariant
  <1>3. CASE UNCHANGED vars
    <2>1. UNCHANGED <<content, usedIds, revisions, request, found, pc>>
      BY <1>3 DEF vars
    <2>2. /\ \A q \in Requests : Key(q)' = Key(q) /\ Merged(q)' = Merged(q)
          /\ \A q \in Requests : Updated(q)' <=> Updated(q)
      BY <2>1, HeldFrame DEF Updated
    <2>3. TypeOK' /\ TablesOK' /\ HistoryComplete'
      BY <2>1 DEF ContentInv, TypeOK, TablesOK, HistoryComplete
    <2>4. HandlersOK' /\ LocksOK' /\ RevisionsOK' /\ EditsLast' /\ LosersLostARace'
      BY <2>1, <2>2 DEF ContentInv, HandlersOK, LocksOK, RevisionsOK, EditsLast, LosersLostARace
    <2> QED
      BY <2>3, <2>4 DEF ContentInv
  <1> QED
    BY <1>1, <1>2, <1>3 DEF Next

-------------------------------------------------------------------------------
(* The tables implement atomic edits.                                          *)

\* A step that changes no table is a stutter of the abstract specification.
LEMMA HistoryFrame ==
    ASSUME UNCHANGED <<content, revisions>>
    PROVE  UNCHANGED <<content, History>>
  BY DEF History

\* An accepted INSERT is an atomic creation.
LEMMA InsertSimulation ==
    ASSUME ContentInv, NEW r \in Requests, InsertContent(r), Named(request[r].slug) = {}
    PROVE  Versioned!Next
  <1> DEFINE slug == request[r].slug
             body == request[r].body
  <1>1. PICK id \in ContentIds \ usedIds :
           content' = Put(content, id, [slug |-> slug, version |-> 1, body |-> body])
    BY DEF InsertContent
  <1>2. pc[r] = "insert" /\ UNCHANGED revisions
    BY DEF InsertContent
  <1>3. request[r] \in CreateRequest
    BY <1>2, RequestKinds DEF ContentInv, HandlersOK
  <1>4. slug \in Slugs /\ body \in Versioned!Body
    BY <1>3 DEF CreateRequest, Body, Versioned!Body
  <1> HIDE DEF slug, body
  <1>5. id \notin DOMAIN content /\ \A x \in DOMAIN content : content[x].slug # slug
    BY DEF ContentInv, TablesOK, Named, slug
  <1>6. DOMAIN content' = DOMAIN content \cup {id}
    BY <1>1 DEF Put
  <1>7. History' = History
    <2>1. \A k \in DOMAIN revisions : k[1] # id
      BY DEF ContentInv, RevisionsOK
    <2>2. {x \in DOMAIN revisions : x[1] \in DOMAIN content'}
            = {x \in DOMAIN revisions : x[1] \in DOMAIN content}
      BY <1>6, <2>1
    <2> QED
      BY <1>2, <2>2 DEF History
  <1>8. Versioned!Create(id, slug, body)
    BY <1>1, <1>5, <1>7 DEF Versioned!Create, Put, Versioned!Put
  <1> QED
    BY <1>4, <1>8 DEF Versioned!Next

\* The commit of an update is an atomic edit of the current row, or leaves only a revision
\* of content that is gone.
LEMMA UpdateSimulation ==
    ASSUME ContentInv, NEW r \in Requests, UpdateContent(r)
    PROVE  Versioned!Next \/ UNCHANGED <<content, History>>
  <1> DEFINE id  == found[r].id
             row == found[r].row
  <1>1. /\ pc[r] = "txUpdate" /\ revisions' = Put(revisions, Key(r), row)
        /\ content' = IF id \in DOMAIN content THEN Put(content, id, Merged(r)) ELSE content
    BY DEF UpdateContent
  <1>2. id \in ContentIds /\ request[r].patch \in Versioned!Patch
    BY <1>1, FoundType DEF UpdateRequest, Patch, Versioned!Patch
  <1>3. Key(r) = <<id, row.version>> /\ Key(r)[1] = id
    BY DEF Key
  <1>4. DOMAIN revisions' = DOMAIN revisions \cup {Key(r)}
    BY <1>1 DEF Put
  <1>5. CASE id \notin DOMAIN content
    <2>1. {x \in DOMAIN revisions' : x[1] \in DOMAIN content'}
            = {x \in DOMAIN revisions : x[1] \in DOMAIN content}
      BY <1>1, <1>3, <1>4, <1>5
    <2>2. \A x \in DOMAIN revisions : x[1] \in DOMAIN content => revisions'[x] = revisions[x]
      BY <1>1, <1>3, <1>5 DEF Put
    <2> QED
      BY <1>1, <1>5, <2>1, <2>2 DEF History
  <1>6. CASE id \in DOMAIN content
    <2>1. content[id] = row
      BY <1>1, <1>6, CommitIsFresh
    <2>2. Merged(r) = Versioned!Edited(content[id], request[r].patch)
      BY <2>1 DEF Merged, Versioned!Edited
    <2>3. DOMAIN content' = DOMAIN content
      BY <1>1, <1>6 DEF Put
    <2>4. {x \in DOMAIN revisions' : x[1] \in DOMAIN content'} = DOMAIN History \cup {Key(r)}
      BY <1>3, <1>4, <1>6, <2>3 DEF History
    <2>5. History' = Versioned!Put(History, Key(r), row)
      BY <1>1, <1>4, <2>4 DEF History, Put, Versioned!Put
    <2>6. content' = Versioned!Put(content, id, Merged(r))
      BY <1>1, <1>6 DEF Put, Versioned!Put
    <2>7. Versioned!Edit(id, request[r].patch)
      BY <1>3, <1>6, <2>1, <2>2, <2>5, <2>6 DEF Versioned!Edit
    <2> QED
      BY <1>2, <2>7 DEF Versioned!Next
  <1> QED
    BY <1>5, <1>6

\* A DELETE is an atomic removal of the one row of its slug.
LEMMA RemoveSimulation ==
    ASSUME ContentInv, NEW slug \in Slugs, RemoveContent(slug)
    PROVE  Versioned!Next
  <1>1. Named(slug) # {} /\ content' = Drop(content, Named(slug)) /\ UNCHANGED revisions
    BY DEF RemoveContent
  <1>2. PICK id : id \in Named(slug)
    BY <1>1
  <1>3. id \in ContentIds /\ id \in DOMAIN content
    BY <1>2, ContentRows DEF ContentInv, Named
  <1>4. Named(slug) = {id}
    BY <1>2 DEF ContentInv, TablesOK, Named
  <1>5. content' = Versioned!Drop(content, {id}) /\ DOMAIN content' = DOMAIN content \ {id}
    BY <1>1, <1>4 DEF Drop, Versioned!Drop
  <1>6. History' = Versioned!Drop(History, {k \in DOMAIN History : k[1] = id})
    <2>1. {x \in DOMAIN revisions : x[1] \in DOMAIN content'}
            = DOMAIN History \ {k \in DOMAIN History : k[1] = id}
      BY <1>5 DEF History
    <2> QED
      BY <1>1, <2>1 DEF History, Versioned!Drop
  <1> QED
    BY <1>3, <1>5, <1>6 DEF Versioned!Next, Versioned!Remove

\* Every step of the tables is an atomic edit of the abstract module, or none.
LEMMA NextSimulation ==
    ContentInv /\ [Next]_vars => [Versioned!Next]_<<content, History>>
  <1> SUFFICES ASSUME ContentInv, [Next]_vars
               PROVE  Versioned!Next \/ UNCHANGED <<content, History>>
    OBVIOUS
  <1>1. ASSUME NEW r \in Requests, Step(r)
        PROVE  Versioned!Next \/ UNCHANGED <<content, History>>
    <2>1. CASE InsertContent(r) /\ Named(request[r].slug) = {}
      BY <2>1, InsertSimulation
    <2>2. CASE InsertContent(r) /\ Named(request[r].slug) # {}
      BY <2>2, HistoryFrame DEF InsertContent
    <2>3. CASE UpdateContent(r)
      BY <2>3, UpdateSimulation
    <2>4. CASE CreateArrives(r) \/ UpdateArrives(r)
      BY <2>4, HistoryFrame DEF CreateArrives, UpdateArrives, Arrive
    <2>5. CASE FindContent(r) \/ InsertRevision(r) \/ Abort(r)
      BY <2>5, HistoryFrame DEF FindContent, InsertRevision, Abort
    <2> QED
      BY <1>1, <2>1, <2>2, <2>3, <2>4, <2>5 DEF Step
  <1>2. ASSUME NEW slug \in Slugs, RemoveContent(slug) PROVE Versioned!Next
    BY <1>2, RemoveSimulation
  <1>3. CASE UNCHANGED vars
    BY <1>3, HistoryFrame DEF vars
  <1> QED
    BY <1>1, <1>2, <1>3 DEF Next

-------------------------------------------------------------------------------
(* The theorems.                                                               *)

\* The inductive invariant holds of every behaviour.
THEOREM ContentInvariance == Spec => []ContentInv
  BY InitInvariant, NextInvariant, PTL DEF Spec

\* The history of existing content is exactly the versions left behind.
THEOREM HistoriesAreComplete == Spec => []HistoryComplete
  <1>1. ContentInv => HistoryComplete
    BY DEF ContentInv
  <1> QED
    BY <1>1, ContentInvariance, PTL

\* No accepted edit is lost to another one.
THEOREM AcceptedEditsLast == Spec => []EditsLast
  <1>1. ContentInv => EditsLast
    BY DEF ContentInv
  <1> QED
    BY <1>1, ContentInvariance, PTL

\* The 500 of the revisions' index is the reply to a lost race, never to an undisturbed edit.
THEOREM ErrorsAreLostRaces == Spec => []LosersLostARace
  <1>1. ContentInv => LosersLostARace
    BY DEF ContentInv
  <1> QED
    BY <1>1, ContentInvariance, PTL

\* The four-step update, under any interleaving, is an atomic edit of the current row.
THEOREM Refinement == Spec => ImplementsVersioned
  <1>1. Init => Versioned!Init
    BY DEF Init, Versioned!Init, EmptyTable, Versioned!EmptyTable, History
  <1> QED
    BY <1>1, NextSimulation, ContentInvariance, PTL DEF Spec, ImplementsVersioned, Versioned!Spec

-------------------------------------------------------------------------------
(* The items of the seed.                                                      *)

\* What is seeded, entry by entry.
LEMMA WorkIs ==
    /\ DOMAIN Work = 1..8 /\ Len(Work) = 8
    /\ Work[1] = [kind |-> "categories", list |-> CATEGORIES]
    /\ Work[2] = [kind |-> "tags", list |-> TAGS]
    /\ Work[3] = [kind |-> "row", type |-> "glossary_term", slug |-> "moving-average", list |-> <<"charting">>]
    /\ Work[4] = [kind |-> "row", type |-> "course", slug |-> "intro", list |-> <<"charting">>]
    /\ Work[5] = [kind |-> "row", type |-> "lesson", slug |-> "candlesticks", list |-> <<>>]
    /\ Work[6] = [kind |-> "row", type |-> "quiz", slug |-> "intro-quiz", list |-> <<>>]
    /\ Work[7] = [kind |-> "questions", list |-> <<"#0", "#1">>]
    /\ Work[8] = [kind |-> "row", type |-> "strategy", slug |-> "breakout", list |-> <<>>]
  BY DEF Work, Item, GLOSSARY_TERM, COURSE, STRATEGY

\* The entries that are rows.
LEMMA RowItemsAre == RowItems = {Work[3], Work[4], Work[5], Work[6], Work[8]}
<1>1. Range(Work) = {Work[i] : i \in 1..8}
  BY WorkIs DEF Range
<1>2. \A i \in 1..8 : Work[i].kind = "row" <=> i \in {3, 4, 5, 6, 8}
  BY WorkIs
<1>. QED  BY <1>1, <1>2 DEF RowItems

\* The slugs of those rows.
LEMMA NamesAre == Names = {"moving-average", "intro", "candlesticks", "intro-quiz", "breakout"}
  BY RowItemsAre, WorkIs DEF Names

\* A row has the type that belongs to its slug.
LEMMA TypeOfItem == ASSUME NEW item \in RowItems
    PROVE item.slug \in Names /\ TypeOf[item.slug] = item.type
<1>1. \A x \in RowItems : x.slug = item.slug => x = item
  BY RowItemsAre, WorkIs
<1>2. item.slug \in Names
  BY DEF Names
<1>3. (CHOOSE x \in RowItems : x.slug = item.slug) = item
  BY <1>1
<1>. QED  BY <1>2, <1>3 DEF TypeOf

\* The types, slug by slug.
LEMMA Types ==
    /\ TypeOf["moving-average"] = "glossary_term" /\ TypeOf["intro"] = "course"
    /\ TypeOf["candlesticks"] = "lesson" /\ TypeOf["intro-quiz"] = "quiz"
    /\ TypeOf["breakout"] = "strategy"
<1>1. \A k \in {3, 4, 5, 6, 8} : TypeOf[Work[k].slug] = Work[k].type
  BY RowItemsAre, TypeOfItem
<1>. QED  BY <1>1, WorkIs

\* The lists that go with the entries.
LEMMA ListsAre ==
    /\ Range(CATEGORIES) = {"technical-analysis"} /\ Range(TAGS) = {"charting"}
    /\ Questions = {"#0", "#1"} /\ Range(<<"charting">>) = {"charting"} /\ Range(<<>>) = {}
    /\ DOMAIN CATEGORIES = {1} /\ DOMAIN TAGS = {1}
    /\ CATEGORIES[1] = "technical-analysis" /\ TAGS[1] = "charting"
  BY DEF CATEGORIES, TAGS, Questions, COURSE, Range

-------------------------------------------------------------------------------
(* Where a run may be.                                                         *)

\* What run r holds at the place it is at: nothing of a list it has not read, the row of the
\* item whose tags or questions it looks at, and the course of the items after it.
NeedsCourse(r) == r.at \in RunPhases /\ (r.step > 4 \/ (r.step = 4 /\ r.at \in {"listTags", "write"}))
HoldsRow(r) == \/ r.at \in RunPhases /\ r.step = 7
               \/ r.at \in {"listTags", "write"} /\ Work[r.step].kind = "row"
Fits(r) ==
    /\ r.at # "write" => r.todo = {}
    /\ r.at = "write" => r.todo # {}
    /\ r.at = "create" => Work[r.step].kind = "row"
    /\ r.at = "listTags" => Work[r.step].kind = "row" /\ Work[r.step].list # <<>>
    /\ r.course # NoRow => r.course.name = "intro"
    /\ NeedsCourse(r) => r.course # NoRow
    /\ HoldsRow(r) => /\ r.row # NoRow
                      /\ r.row.name = IF r.step = 7 THEN "intro-quiz" ELSE Work[r.step].slug

\* The part of IsRun that is not about the tables.
RunTyped(r) == r \in RunStates /\ r.todo \subseteq DOMAIN Work[r.step].list

\* A fresh or ended run.
LEMMA EndedFits ==
    ASSUME NEW r, r \in [at : Over, step : {1}, todo : {{}}, row : {NoRow}, course : {NoRow},
                         inserted : Nat, skipped : Nat, fresh : BOOLEAN]
    PROVE  RunTyped(r) /\ Fits(r) /\ r.row = NoRow /\ r.course = NoRow
  BY WorkIs DEF RunTyped, RunStates, Fits, NeedsCourse, HoldsRow, Over, RunPhases

\* The next item, or the end.
LEMMA AdvancedFits ==
    ASSUME NEW r, RunTyped(r), r.at \in RunPhases,
           r.course # NoRow => r.course.name = "intro",
           r.step >= 4 => r.course # NoRow,
           r.step = 6 => r.row # NoRow /\ r.row.name = "intro-quiz"
    PROVE  /\ RunTyped(Advanced(r)) /\ Fits(Advanced(r))
           /\ Advanced(r).inserted = r.inserted /\ Advanced(r).skipped = r.skipped
           /\ Advanced(r).fresh = r.fresh
           /\ \/ /\ r.step = 8 /\ Advanced(r).at = "done"
                 /\ Advanced(r).row = NoRow /\ Advanced(r).course = NoRow
              \/ /\ r.step # 8 /\ Advanced(r).at = "look" /\ Advanced(r).step = r.step + 1
                 /\ Advanced(r).row = r.row /\ Advanced(r).course = r.course
                 /\ Advanced(r).todo = {}
<1>1. CASE r.step = 8
  <2>1. Advanced(r) = [NotStarted EXCEPT !.at = "done", !.inserted = r.inserted,
                                         !.skipped = r.skipped, !.fresh = r.fresh]
    BY <1>1, WorkIs DEF Advanced
  <2>2. Advanced(r) \in [at : Over, step : {1}, todo : {{}}, row : {NoRow}, course : {NoRow},
                         inserted : Nat, skipped : Nat, fresh : BOOLEAN]
    BY <2>1 DEF NotStarted, RunTyped, RunStates, Over
  <2>3. /\ Advanced(r).inserted = r.inserted /\ Advanced(r).skipped = r.skipped
        /\ Advanced(r).fresh = r.fresh /\ Advanced(r).at = "done"
    BY <2>1 DEF NotStarted
  <2>. QED  BY <1>1, <2>2, <2>3, EndedFits
<1>2. CASE r.step # 8
  <2>1. Advanced(r) = [r EXCEPT !.step = r.step + 1, !.at = "look", !.todo = {}]
    BY <1>2, WorkIs DEF Advanced
  <2>2. r.step \in 1..7 /\ r.step + 1 \in DOMAIN Work
    BY <1>2, WorkIs DEF RunTyped, RunStates
  <2>3. /\ Advanced(r).step = r.step + 1 /\ Advanced(r).at = "look" /\ Advanced(r).todo = {}
        /\ Advanced(r).inserted = r.inserted /\ Advanced(r).skipped = r.skipped
        /\ Advanced(r).fresh = r.fresh /\ Advanced(r).row = r.row /\ Advanced(r).course = r.course
    BY <2>1 DEF RunTyped, RunStates
  <2>4. RunTyped(Advanced(r))
    <3>1. Advanced(r) \in RunStates
      BY <2>1, <2>2 DEF RunTyped, RunStates, RunPhases
    <3>. QED  BY <3>1, <2>3 DEF RunTyped
  <2>5. Fits(Advanced(r))
    <3>1. Advanced(r).step = 7 => r.step = 6
      BY <2>2, <2>3
    <3>2. Advanced(r).step > 4 => r.step >= 4
      BY <2>2, <2>3
    <3>. QED  BY <2>3, <3>1, <3>2 DEF Fits, NeedsCourse, HoldsRow
  <2>. QED  BY <1>2, <2>3, <2>4, <2>5
<1>. QED  BY <1>1, <1>2

\* What is left of the item.
LEMMA LeftFits ==
    ASSUME NEW r, RunTyped(r), r.at \in RunPhases, NEW todo, todo \subseteq DOMAIN Work[r.step].list,
           r.course # NoRow => r.course.name = "intro",
           r.step >= 4 => r.course # NoRow,
           r.step \in {6, 7} => r.row # NoRow /\ r.row.name = "intro-quiz",
           Work[r.step].kind = "row" => r.row # NoRow /\ r.row.name = Work[r.step].slug
    PROVE  /\ RunTyped(Left(r, todo)) /\ Fits(Left(r, todo))
           /\ todo = {} => Left(r, todo) = Advanced(r)
           /\ todo # {} => Left(r, todo) = [r EXCEPT !.at = "write", !.todo = todo]
           /\ Left(r, todo).row \in {r.row, NoRow} /\ Left(r, todo).course \in {r.course, NoRow}
<1>1. CASE todo = {}
  BY <1>1, AdvancedFits DEF Left
<1>2. CASE todo # {}
  <2> DEFINE w == [r EXCEPT !.at = "write", !.todo = todo]
  <2>1. Left(r, todo) = w
    BY <1>2 DEF Left
  <2>2. /\ w.at = "write" /\ w.todo = todo /\ w.step = r.step /\ w.row = r.row /\ w.course = r.course
    BY DEF RunTyped, RunStates
  <2>3. todo \subseteq Nat
    BY WorkIs, ListsAre DEF RunTyped, RunStates
  <2>4. RunTyped(w)
    BY <2>2, <2>3 DEF RunTyped, RunStates, RunPhases
  <2>5. r.step \in 1..8
    BY WorkIs DEF RunTyped, RunStates
  <2>6. Fits(w)
    BY <1>2, <2>2, <2>5 DEF Fits, NeedsCourse, HoldsRow
  <2>. QED  BY <1>2, <2>1, <2>2, <2>4, <2>6
<1>. QED  BY <1>1, <1>2

-------------------------------------------------------------------------------
(* The tables.                                                                 *)

\* The part of SeedInv that is about the tables, with the courses: only lessons and quizzes
\* belong to a row, which is a course, and every lesson does.
TablesFit ==
    /\ categories \subseteq Range(CATEGORIES) /\ tags \subseteq Range(TAGS)
    /\ born \in [Names -> 0..MaxRows]
    /\ \A id \in DOMAIN rows : IsId(id) /\ IsIdOrNull(rows[id])
    /\ \A q \in questions : IsId(q.quiz) /\ q.orderIndex \in Questions
    /\ \A x \in contentTags : IsAttachment(x)
    /\ NoOrphans /\ NamesAreUnique
    /\ \A id \in DOMAIN rows :
          /\ rows[id] # NoRow => rows[id].name = "intro" /\ id.name \in {"candlesticks", "intro-quiz"}
          /\ id.name = "candlesticks" => rows[id] # NoRow

BornGrows == born' \in [Names -> 0..MaxRows] /\ \A name \in Names : born[name] <= born'[name]

\* Ids stay ids.
LEMMA IdsStay ==
    ASSUME BornGrows, born \in [Names -> 0..MaxRows]
    PROVE  /\ \A id : IsId(id) => IsId(id)'
           /\ \A id : IsIdOrNull(id) => IsIdOrNull(id)'
           /\ \A r : IsRun(r) => IsRun(r)'
<1>1. \A id : IsId(id) => IsId(id)'
  <2> TAKE id
  <2>1. ASSUME IsId(id) PROVE IsId(id)'
    <3>1. id \in RowIds /\ id.name \in Names /\ id.n \in Nat /\ id.n <= born[id.name]
      BY <2>1, BoundsAssumption DEF IsId, RowIds
    <3>2. born[id.name] <= born'[id.name] /\ born[id.name] \in Int /\ born'[id.name] \in Int
      BY <3>1, BoundsAssumption DEF BornGrows
    <3>. QED  BY <3>1, <3>2 DEF IsId
  <2>. QED  BY <2>1
<1>2. \A id : IsIdOrNull(id) => IsIdOrNull(id)'
  BY <1>1 DEF IsIdOrNull
<1>3. \A r : IsRun(r) => IsRun(r)'
  BY <1>2 DEF IsRun
<1>. QED  BY <1>1, <1>2, <1>3

\* Tables that do not change stay well-formed.
LEMMA QuietTables ==
    ASSUME TablesFit, UNCHANGED tables
    PROVE  TablesFit' /\ BornGrows
<1>1. BornGrows
  BY BoundsAssumption DEF TablesFit, tables, BornGrows
<1>. QED  BY <1>1 DEF TablesFit, tables, IsId, IsIdOrNull, IsAttachment, NoOrphans, NamesAreUnique, Called

\* A row is inserted, whoever does: under a free name, or a lesson under a name its course has not.
LEMMA InsertRowFits ==
    ASSUME TablesFit, NEW name \in Names, NEW course, InsertRow(name, course), born[name] < MaxRows,
           \/ course = NoRow /\ name # "candlesticks"
           \/ /\ course \in DOMAIN rows /\ course.name = "intro"
              /\ name \in {"candlesticks", "intro-quiz"},
           name # "candlesticks" => Called(name) = {},
           \A id \in Called(name) : rows[id] # course,
           NEW id, id = [name |-> name, n |-> born[name] + 1]
    PROVE  /\ TablesFit' /\ BornGrows
           /\ id \in RowIds /\ ~ IsId(id) /\ IsId(id)' /\ id # NoRow /\ id.name = name
           /\ id \notin DOMAIN rows
           /\ DOMAIN rows' = DOMAIN rows \cup {id} /\ rows'[id] = course
           /\ \A x \in DOMAIN rows : rows'[x] = rows[x]
<1>1. born[name] \in Nat /\ born[name] + 1 \in 1..MaxRows /\ MaxRows \in Nat
  BY BoundsAssumption DEF TablesFit
<1>2. /\ id \in RowIds /\ id # NoRow /\ id.name = name /\ id.n = born[name] + 1
  BY <1>1, NoRowAssumption DEF RowIds
<1>3. /\ born' = [born EXCEPT ![name] = @ + 1] /\ rows' = Put(rows, id, course)
      /\ UNCHANGED <<categories, tags, questions, contentTags>>
  BY DEF InsertRow
<1>4. BornGrows
  <2>1. \A m \in Names : /\ born'[m] = IF m = name THEN born[name] + 1 ELSE born[m]
                         /\ born[m] \in 0..MaxRows
    BY <1>3 DEF TablesFit
  <2>2. \A m \in Names : born'[m] \in 0..MaxRows /\ born[m] <= born'[m]
    BY <2>1, <1>1
  <2>3. born' \in [Names -> 0..MaxRows]
    BY <1>3, <2>2 DEF TablesFit
  <2>. QED  BY <2>2, <2>3 DEF BornGrows
<1>5. IsId(id)'
  BY <1>1, <1>2, <1>3 DEF IsId, TablesFit
<1>6. ~ IsId(id) /\ id \notin DOMAIN rows
  <2>1. ~ IsId(id)
    BY <1>1, <1>2 DEF IsId
  <2>. QED  BY <2>1 DEF TablesFit
<1>7. /\ DOMAIN rows' = DOMAIN rows \cup {id} /\ rows'[id] = course
      /\ \A x \in DOMAIN rows : rows'[x] = rows[x]
  BY <1>3, <1>6 DEF Put
<1>8. course = NoRow \/ course \in DOMAIN rows
  OBVIOUS
<1>9. TablesFit'
  <2>1. (\A x \in DOMAIN rows : IsId(x) /\ IsIdOrNull(rows[x]))'
    <3>1. \A x \in DOMAIN rows : IsId(x)' /\ (rows[x] = NoRow \/ rows[x] \in DOMAIN rows)
      BY <1>4, IdsStay DEF TablesFit, NoOrphans
    <3>. QED  BY <1>5, <1>7, <1>8, <3>1 DEF IsIdOrNull
  <2>2. /\ \A q \in questions' : IsId(q.quiz)' /\ q.orderIndex \in Questions
        /\ \A x \in contentTags' : IsAttachment(x)'
    BY <1>3, <1>4, IdsStay DEF TablesFit, IsAttachment
  <2>3. NoOrphans'
    BY <1>3, <1>7, <1>8 DEF TablesFit, NoOrphans
  <2>4. NamesAreUnique'
    <3> SUFFICES ASSUME NEW x \in DOMAIN rows', NEW y \in DOMAIN rows', y # x, y.name = x.name
                 PROVE  TypeOf[x.name] = "lesson" /\ rows'[x] # rows'[y]
      BY DEF NamesAreUnique, Called
    <3>1. CASE x \in DOMAIN rows /\ y \in DOMAIN rows
      BY <1>7, <3>1 DEF TablesFit, NamesAreUnique, Called
    <3>2. ASSUME NEW z \in DOMAIN rows, z.name = name
          PROVE  TypeOf[name] = "lesson" /\ rows[z] # course
      <4>1. z \in Called(name)
        BY <3>2 DEF Called
      <4>. QED  BY <4>1, Types
    <3>3. CASE x = id
      BY <1>2, <1>7, <3>2, <3>3
    <3>4. CASE y = id
      BY <1>2, <1>7, <3>2, <3>4
    <3>. QED  BY <1>7, <3>1, <3>3, <3>4
  <2>5. \A x \in DOMAIN rows' : /\ rows'[x] # NoRow => /\ rows'[x].name = "intro"
                                                     /\ x.name \in {"candlesticks", "intro-quiz"}
                                /\ x.name = "candlesticks" => rows'[x] # NoRow
    <3>1. course \in DOMAIN rows => course # NoRow
      BY NoRowAssumption DEF TablesFit, IsId
    <3>. QED  BY <1>2, <1>7, <3>1 DEF TablesFit
  <2>. QED  BY <1>3, <1>4, <2>1, <2>2, <2>3, <2>4, <2>5 DEF TablesFit, BornGrows
<1>. QED  BY <1>2, <1>4, <1>5, <1>6, <1>7, <1>9

\* Rows are removed with what belongs to them.
LEMMA RemoveFits ==
    ASSUME TablesFit, NEW target \in DOMAIN rows, NEW gone,
           gone = {target} \cup {x \in DOMAIN rows : rows[x] = target},
           rows' = Drop(rows, gone), questions' = {q \in questions : q.quiz \notin gone},
           UNCHANGED <<categories, tags, born, contentTags>>
    PROVE  /\ TablesFit' /\ BornGrows
           /\ DOMAIN rows' = DOMAIN rows \ gone /\ \A x \in DOMAIN rows' : rows'[x] = rows[x]
<1>1. BornGrows
  BY BoundsAssumption DEF TablesFit, BornGrows
<1>2. DOMAIN rows' = DOMAIN rows \ gone /\ \A x \in DOMAIN rows' : rows'[x] = rows[x]
  BY DEF Drop
<1>3. \A x : IsId(x) <=> IsId(x)'
  BY DEF IsId
<1>4. target # NoRow
  BY NoRowAssumption DEF TablesFit, IsId
<1>5. \A x \in DOMAIN rows' : rows'[x] # NoRow => rows'[x] \in DOMAIN rows'
  <2> SUFFICES ASSUME NEW x \in DOMAIN rows', rows[x] # NoRow PROVE rows[x] \notin gone
    BY <1>2 DEF TablesFit, NoOrphans
  <2>1. rows[x] # target /\ x \in DOMAIN rows
    BY <1>2
  <2>2. ASSUME rows[rows[x]] = target, rows[x] \in DOMAIN rows PROVE FALSE
    <3>1. rows[x].name \in {"candlesticks", "intro-quiz"} /\ rows[x].name = "intro"
      BY <1>4, <2>1, <2>2 DEF TablesFit
    <3>. QED  BY <3>1
  <2>. QED  BY <2>1, <2>2
<1>6. \A q \in questions' : q.quiz \in DOMAIN rows'
  BY <1>2 DEF TablesFit, NoOrphans
<1>7. NoOrphans'
  BY <1>5, <1>6 DEF NoOrphans
<1>8. NamesAreUnique'
  BY <1>2 DEF TablesFit, NamesAreUnique, Called
<1>9. (\A x \in DOMAIN rows : IsId(x) /\ IsIdOrNull(rows[x]))'
  BY <1>2, <1>3 DEF TablesFit, IsIdOrNull
<1>10. /\ (\A q \in questions : IsId(q.quiz) /\ q.orderIndex \in Questions)'
       /\ (\A x \in contentTags : IsAttachment(x))'
  BY <1>3 DEF TablesFit, IsAttachment
<1>11. (\A x \in DOMAIN rows :
          /\ rows[x] # NoRow => rows[x].name = "intro" /\ x.name \in {"candlesticks", "intro-quiz"}
          /\ x.name = "candlesticks" => rows[x] # NoRow)'
  BY <1>2 DEF TablesFit
<1>12. /\ categories' \subseteq Range(CATEGORIES) /\ tags' \subseteq Range(TAGS)
       /\ born' \in [Names -> 0..MaxRows]
  BY DEF TablesFit
<1>13. TablesFit'
  BY <1>7, <1>8, <1>9, <1>10, <1>11, <1>12 DEF TablesFit
<1>. QED  BY <1>1, <1>2, <1>13

\* Everything else that is written belongs to an id.
LEMMA AddedFits ==
    ASSUME TablesFit, UNCHANGED <<rows, born>>,
           categories' \subseteq Range(CATEGORIES), tags' \subseteq Range(TAGS),
           \A q \in questions' : \/ q \in questions
                                 \/ q.quiz \in DOMAIN rows /\ q.orderIndex \in Questions,
           \A x \in contentTags' : x \in contentTags \/ IsAttachment(x)
    PROVE  TablesFit' /\ BornGrows
<1>1. BornGrows
  BY BoundsAssumption DEF TablesFit, BornGrows
<1>2. /\ \A x : IsId(x) <=> IsId(x)'
      /\ \A x : IsAttachment(x) <=> IsAttachment(x)'
      /\ \A x : IsIdOrNull(x) <=> IsIdOrNull(x)'
  BY DEF IsId, IsAttachment, IsIdOrNull
<1>3. NoOrphans' /\ NamesAreUnique'
  BY DEF TablesFit, NoOrphans, NamesAreUnique, Called
<1>4. \A q \in questions' : IsId(q.quiz)' /\ q.orderIndex \in Questions
  BY <1>2 DEF TablesFit
<1>5. \A x \in contentTags' : IsAttachment(x)'
  BY <1>2 DEF TablesFit
<1>. QED  BY <1>1, <1>2, <1>3, <1>4, <1>5 DEF TablesFit

-------------------------------------------------------------------------------
(* SeedInv.                                                                    *)

\* The parts of SeedTypeOK that are about the histories and the runs.
HistoryFits ==
    /\ starts \in 0..MaxStarts /\ edits \in 0..MaxEdits
    /\ overlapped \subseteq Runs
    /\ removed \in [Runs -> SUBSET Names]
    /\ \A id \in torn : IsId(id)

RunsFit == DOMAIN run = Runs /\ \A p \in Runs : IsRun(run[p]) /\ Fits(run[p])

SeedShape == TablesFit /\ HistoryFits /\ RunsFit

\* The strengthening implies the invariant the run checks.
LEMMA SeedShapeSeedInv == SeedShape => SeedInv
  BY DEF SeedShape, TablesFit, HistoryFits, RunsFit, SeedInv, SeedTypeOK

\* One run goes on while the others stay where they are.
LEMMA RunBecomes ==
    ASSUME SeedShape, BornGrows, NEW p \in Runs, NEW r, Become(p, r), RunTyped(r), Fits(r),
           IsIdOrNull(r.row)', IsIdOrNull(r.course)'
    PROVE  /\ RunsFit' /\ run'[p] = r
           /\ \A q \in Runs \ {p} : run'[q] = run[q]
<1>1. DOMAIN run' = Runs /\ run'[p] = r /\ \A q \in Runs \ {p} : run'[q] = run[q]
  BY DEF SeedShape, RunsFit, Become
<1>2. IsRun(r)'
  BY DEF RunTyped, IsRun
<1>3. ASSUME NEW q \in Runs, NEW s, s = run[q] PROVE IsRun(s)' /\ Fits(s)
  <2>1. IsRun(s) /\ Fits(s)
    BY <1>3 DEF SeedShape, RunsFit
  <2>. QED  BY <2>1, IdsStay DEF SeedShape, TablesFit
<1>4. \A q \in Runs : (IsRun(run[q]) /\ Fits(run[q]))'
  BY <1>1, <1>2, <1>3
<1>. QED  BY <1>1, <1>4 DEF RunsFit

\* Where an active run is, by the kind of its item.
LEMMA RunAt ==
    ASSUME SeedShape, NEW p \in Runs
    PROVE  /\ RunTyped(run[p]) /\ Fits(run[p]) /\ IsIdOrNull(run[p].row) /\ IsIdOrNull(run[p].course)
           /\ Active(p) <=> run[p].at \in RunPhases
           /\ run[p].step \in 1..8 /\ run[p].at \in Over \cup RunPhases
           /\ Here(p).kind = "categories" <=> run[p].step = 1
           /\ Here(p).kind = "tags" <=> run[p].step = 2
           /\ Here(p).kind = "questions" <=> run[p].step = 7
           /\ Here(p).kind = "row" <=> run[p].step \in {3, 4, 5, 6, 8}
           /\ Here(p).kind = "row" => Here(p) \in RowItems /\ Here(p).slug \in Names
                                      /\ TypeOf[Here(p).slug] = Here(p).type
<1>1. run[p] \in RunStates /\ run[p].todo \subseteq DOMAIN Work[run[p].step].list
  BY DEF SeedShape, RunsFit, IsRun
<1>2. run[p].step \in 1..8 /\ run[p].at \in Over \cup RunPhases
  BY <1>1, WorkIs DEF RunStates
<1>3. Here(p).kind = "row" => Here(p) \in RowItems
  BY <1>2, WorkIs DEF Here, RowItems, Range
<1>4. /\ Here(p).kind = "categories" <=> run[p].step = 1
      /\ Here(p).kind = "tags" <=> run[p].step = 2
      /\ Here(p).kind = "questions" <=> run[p].step = 7
      /\ Here(p).kind = "row" <=> run[p].step \in {3, 4, 5, 6, 8}
  BY <1>2, WorkIs DEF Here
<1>. QED
  BY <1>1, <1>2, <1>3, <1>4, TypeOfItem DEF SeedShape, RunsFit, IsRun, RunTyped, Active, Over, RunPhases

\* How much of a list is missing.
LEMMA MissingIs ==
    ASSUME NEW list, NEW there
    PROVE  /\ Missing(list, there) \subseteq DOMAIN list
           /\ DOMAIN list = {} => Missing(list, there) = {}
           /\ DOMAIN list = {1} => /\ list[1] \in there => Missing(list, there) = {}
                                   /\ list[1] \notin there => Missing(list, there) = {1}
  BY DEF Missing

\* Facts about the places of a list of two.
LEMMA Sizes ==
    /\ Cardinality({}) = 0 /\ Cardinality({1}) = 1 /\ Cardinality({2}) = 1 /\ Cardinality({1, 2}) = 2
    /\ Min({1}) = 1 /\ Min({2}) = 2 /\ Min({1, 2}) = 1
    /\ {1} \ {1} = {} /\ {2} \ {2} = {} /\ {1, 2} \ {1} = {2}
<1>1. Cardinality({}) = 0 /\ Cardinality({1}) = 1 /\ Cardinality({2}) = 1
  BY FS_EmptySet, FS_Singleton
<1>2. Cardinality({1, 2}) = 2
  <2>1. IsFiniteSet({1})
    BY FS_Singleton
  <2>2. 2 \notin {1} /\ {1} \cup {2} = {1, 2}
    OBVIOUS
  <2>. QED  BY <1>1, <2>1, <2>2, FS_AddElement
<1>3. Min({1}) = 1 /\ Min({2}) = 2 /\ Min({1, 2}) = 1
  BY DEF Min
<1>. QED  BY <1>1, <1>2, <1>3

\* The history variables stay well-formed if torn quizzes are ids.
LEMMA HistoryStays ==
    ASSUME SeedShape, BornGrows, UNCHANGED <<starts, edits>>,
           overlapped' \subseteq Runs, removed' \in [Runs -> SUBSET Names],
           \A id \in torn' : id \in torn \/ IsId(id)
    PROVE  HistoryFits'
<1>1. \A id \in torn' : IsId(id)'
  BY IdsStay DEF SeedShape, HistoryFits, TablesFit
<1>. QED  BY <1>1 DEF SeedShape, HistoryFits

\* A run that starts looks at the first entry and has counted nothing.
LEMMA StartedRun ==
    ASSUME NEW fresh \in BOOLEAN, NEW r, r = [NotStarted EXCEPT !.at = "look", !.fresh = fresh]
    PROVE  /\ RunTyped(r) /\ Fits(r) /\ r.row = NoRow /\ r.course = NoRow
           /\ r.at = "look" /\ r.step = 1 /\ r.todo = {} /\ r.fresh = fresh
           /\ r.inserted = 0 /\ r.skipped = 0
<1>1. /\ r.at = "look" /\ r.todo = {} /\ r.row = NoRow /\ r.course = NoRow /\ r.step = 1
      /\ r.fresh = fresh /\ r.inserted = 0 /\ r.skipped = 0
  BY DEF NotStarted
<1>2. r \in RunStates
  <2>1. NotStarted \in RunStates
    BY WorkIs DEF NotStarted, RunStates, Over
  <2>2. \A x \in RunStates : [x EXCEPT !.at = "look", !.fresh = fresh] \in RunStates
    BY DEF RunStates, RunPhases
  <2>. QED  BY <2>1, <2>2
<1>. QED  BY <1>1, <1>2, WorkIs DEF RunTyped, Fits, NeedsCourse, HoldsRow

\* What the start of a run does, to it and to no other.
LEMMA StartDoes ==
    ASSUME SeedShape, NEW p \in Runs, Start(p)
    PROVE  /\ SeedShape' /\ \A q \in Runs \ {p} : run'[q] = run[q]
           /\ run'[p].at = "look" /\ run'[p].step = 1 /\ run'[p].fresh = ~ Whole
           /\ run'[p].inserted = 0 /\ run'[p].skipped = 0
<1>1. TablesFit' /\ BornGrows
  BY QuietTables DEF SeedShape, Start
<1>2. PICK fresh \in BOOLEAN : fresh = ~ Whole
  OBVIOUS
<1>3. PICK r : r = [NotStarted EXCEPT !.at = "look", !.fresh = fresh]
  OBVIOUS
<1>4. Become(p, r)
  BY <1>2, <1>3, Zenon DEF Start
<1>5. /\ RunTyped(r) /\ Fits(r) /\ r.row = NoRow /\ r.course = NoRow
      /\ r.at = "look" /\ r.step = 1 /\ r.fresh = fresh /\ r.inserted = 0 /\ r.skipped = 0
  BY <1>3, StartedRun
<1>6. RunsFit' /\ run'[p] = r /\ \A q \in Runs \ {p} : run'[q] = run[q]
  <2>1. IsIdOrNull(r.row)' /\ IsIdOrNull(r.course)'
    BY <1>5 DEF IsIdOrNull
  <2>. QED  BY <1>1, <1>4, <1>5, <2>1, RunBecomes
<1>7. HistoryFits'
  <2>1. overlapped' \subseteq Runs /\ removed' \in [Runs -> SUBSET Names] /\ starts' \in 0..MaxStarts
    BY BoundsAssumption DEF Start, SeedShape, HistoryFits
  <2>2. \A id \in torn' : IsId(id)'
    BY <1>1, IdsStay DEF Start, SeedShape, HistoryFits, TablesFit
  <2>. QED  BY <2>1, <2>2 DEF Start, SeedShape, HistoryFits
<1>8. run'[p].fresh = ~ Whole
  BY <1>2, <1>5, <1>6, Zenon
<1>. QED  BY <1>1, <1>5, <1>6, <1>7, <1>8 DEF SeedShape

\* A step of a run that is no row's and goes on to r.
LEMMA GoesOn ==
    ASSUME SeedShape, NEW p \in Runs, TablesFit', BornGrows, NEW r, Become(p, r),
           RunTyped(r), Fits(r), IsIdOrNull(r.row), IsIdOrNull(r.course),
           UNCHANGED <<starts, edits, overlapped, removed>>,
           \A id \in torn' : id \in torn \/ IsId(id)
    PROVE  SeedShape' /\ run'[p] = r /\ \A q \in Runs \ {p} : run'[q] = run[q]
<1>1. IsIdOrNull(r.row)' /\ IsIdOrNull(r.course)'
  BY IdsStay DEF SeedShape, TablesFit
<1>2. HistoryFits'
  <2>1. overlapped' \subseteq Runs /\ removed' \in [Runs -> SUBSET Names]
    BY DEF SeedShape, HistoryFits
  <2>. QED  BY <2>1, HistoryStays
<1>. QED  BY <1>1, <1>2, RunBecomes DEF SeedShape

\* A run that fails or stops.
LEMMA FailedRun ==
    ASSUME NEW at \in Over, NEW r, r = [NotStarted EXCEPT !.at = at]
    PROVE  RunTyped(r) /\ Fits(r) /\ IsIdOrNull(r.row) /\ IsIdOrNull(r.course) /\ r.at = at
<1>1. /\ r \in [at : Over, step : {1}, todo : {{}}, row : {NoRow}, course : {NoRow},
                inserted : Nat, skipped : Nat, fresh : BOOLEAN]
      /\ r.at = at
  BY DEF NotStarted
<1>. QED  BY <1>1, EndedFits DEF IsIdOrNull

\* A run is halfway in a quiz only while it inserts questions, and in that one.
LEMMA HalfwayIs ==
    ASSUME SeedShape, NEW p \in Runs, Active(p)
    PROVE  /\ Halfway(p) # {} => /\ run[p].at = "write" /\ run[p].step = 7
                                 /\ run[p].todo # DOMAIN Here(p).list
           /\ run[p].at = "write" /\ run[p].step = 7 /\ run[p].todo # DOMAIN Here(p).list
                => Halfway(p) = {run[p].row}
           /\ Halfway(p) \in {{}, {run[p].row}}
           /\ \A id \in Halfway(p) : IsId(id) /\ id.name = "intro-quiz" /\ id = run[p].row
<1>1. Here(p).kind = "questions" <=> run[p].step = 7
  BY RunAt
<1>2. Halfway(p) # {} => Halfway(p) = {run[p].row} /\ run[p].at = "write" /\ run[p].step = 7
  BY <1>1 DEF Halfway
<1>3. Halfway(p) # {} => IsId(run[p].row) /\ run[p].row.name = "intro-quiz"
  BY <1>2, RunAt DEF Fits, HoldsRow, RunPhases, IsIdOrNull
<1>. QED  BY <1>1, <1>2, <1>3 DEF Halfway

\* What the failure of a run does.
LEMMA FailDoes ==
    ASSUME SeedShape, NEW p \in Runs, Active(p), Fail(p),
           UNCHANGED <<starts, edits, overlapped, removed>>
    PROVE  /\ SeedShape' /\ run'[p] = [NotStarted EXCEPT !.at = "failed"]
           /\ \A q \in Runs \ {p} : run'[q] = run[q]
<1> DEFINE r == [NotStarted EXCEPT !.at = "failed"]
<1>1. TablesFit' /\ BornGrows
  BY QuietTables DEF SeedShape, Fail
<1>2. RunTyped(r) /\ Fits(r) /\ IsIdOrNull(r.row) /\ IsIdOrNull(r.course)
  BY FailedRun DEF Over
<1>3. \A id \in torn' : id \in torn \/ IsId(id)
  BY HalfwayIs DEF Fail
<1>4. Become(p, r)
  BY DEF Fail
<1>. HIDE DEF r
<1>5. SeedShape' /\ run'[p] = r /\ \A q \in Runs \ {p} : run'[q] = run[q]
  BY <1>1, <1>2, <1>3, <1>4, GoesOn
<1>. QED  BY <1>5 DEF r

\* What the end of a run by its process does.
LEMMA StopDoes ==
    ASSUME SeedShape, NEW p \in Runs, Stop(p)
    PROVE  /\ SeedShape' /\ run'[p] = NotStarted /\ \A q \in Runs \ {p} : run'[q] = run[q]
<1>1. TablesFit' /\ BornGrows
  BY QuietTables DEF SeedShape, Stop
<1>2. /\ NotStarted \in [at : Over, step : {1}, todo : {{}}, row : {NoRow}, course : {NoRow},
                         inserted : Nat, skipped : Nat, fresh : BOOLEAN]
  BY DEF NotStarted, Over
<1>3. RunTyped(NotStarted) /\ Fits(NotStarted)
  BY <1>2, EndedFits
<1>4. IsIdOrNull(NotStarted.row)' /\ IsIdOrNull(NotStarted.course)'
  BY DEF NotStarted, IsIdOrNull
<1>5. RunsFit' /\ run'[p] = NotStarted /\ \A q \in Runs \ {p} : run'[q] = run[q]
  BY <1>1, <1>3, <1>4, RunBecomes DEF Stop
<1>6. \A id \in torn' : id \in torn \/ IsId(id)
  BY HalfwayIs DEF Stop
<1>7. HistoryFits'
  <2>1. overlapped' \subseteq Runs /\ removed' \in [Runs -> SUBSET Names]
    BY DEF Stop, SeedShape, HistoryFits
  <2>. QED  BY <1>1, <1>6, <2>1, HistoryStays DEF Stop
<1>. QED  BY <1>1, <1>5, <1>7 DEF SeedShape

\* A run that is done with reading may be left for the next member of the list or item.
LEMMA MayLeave ==
    ASSUME SeedShape, NEW p \in Runs, Active(p),
           run[p].at \in {"listTags", "write"} \/ (run[p].at = "look" /\ Here(p).kind # "row")
    PROVE  /\ run[p].at \in RunPhases
           /\ run[p].course # NoRow => run[p].course.name = "intro"
           /\ run[p].step >= 4 => run[p].course # NoRow
           /\ run[p].step \in {6, 7} => run[p].row # NoRow /\ run[p].row.name = "intro-quiz"
           /\ Here(p).kind = "row" => run[p].row # NoRow /\ run[p].row.name = Here(p).slug
<1>1. /\ run[p].at \in RunPhases /\ Fits(run[p]) /\ run[p].step \in 1..8
      /\ Here(p).kind = "row" <=> run[p].step \in {3, 4, 5, 6, 8}
  BY RunAt
<1>2. run[p].step >= 4 => run[p].course # NoRow
  BY <1>1 DEF Fits, NeedsCourse
<1>3. HoldsRow(run[p]) \/ run[p].step \in {1, 2}
  BY <1>1 DEF HoldsRow, Here, RunPhases
<1>. QED  BY <1>1, <1>2, <1>3, WorkIs DEF Fits, Here

Counted(r, inserted, skipped) == [r EXCEPT !.inserted = inserted, !.skipped = skipped]

OthersStay(p) == \A q \in Runs \ {p} : run'[q] = run[q]

\* How run p goes on with these counts when todo is left of its list.
OnTo(p, inserted, skipped, todo) ==
    /\ run'[p].inserted = inserted /\ run'[p].skipped = skipped /\ run'[p].fresh = run[p].fresh
    /\ todo # {} => /\ run'[p].at = "write" /\ run'[p].todo = todo /\ run'[p].step = run[p].step
                    /\ run'[p].row = run[p].row /\ run'[p].course = run[p].course
    /\ todo = {} => \/ run[p].step = 8 /\ run'[p].at = "done"
                    \/ /\ run[p].step # 8 /\ run'[p].at = "look" /\ run'[p].step = run[p].step + 1
                       /\ run'[p].row = run[p].row /\ run'[p].course = run[p].course
                       /\ run'[p].todo = {}

\* On with the rest of a list, after counting the rows.
LEMMA LeftDoes ==
    ASSUME SeedShape, NEW p \in Runs, Active(p), TablesFit', BornGrows,
           run[p].at \in {"listTags", "write"} \/ (run[p].at = "look" /\ Here(p).kind # "row"),
           NEW todo, todo \subseteq DOMAIN Here(p).list,
           NEW inserted \in Nat, NEW skipped \in Nat,
           Become(p, Left(Counted(run[p], inserted, skipped), todo)),
           UNCHANGED <<starts, edits, overlapped, removed>>,
           \A id \in torn' : id \in torn \/ IsId(id)
    PROVE  SeedShape' /\ OthersStay(p) /\ OnTo(p, inserted, skipped, todo)
<1>0. PICK r : r = Counted(run[p], inserted, skipped)
  OBVIOUS
<1>1. run[p] \in RunStates /\ RunTyped(run[p])
  BY RunAt DEF RunTyped
<1>2. /\ RunTyped(r) /\ r.at = run[p].at /\ r.course = run[p].course /\ r.row = run[p].row
      /\ r.step = run[p].step /\ r.inserted = inserted /\ r.skipped = skipped
      /\ r.fresh = run[p].fresh
  BY <1>0, <1>1 DEF RunTyped, RunStates, Counted
<1>3. /\ r.at \in RunPhases
      /\ r.course # NoRow => r.course.name = "intro"
      /\ r.step >= 4 => r.course # NoRow
      /\ r.step \in {6, 7} => r.row # NoRow /\ r.row.name = "intro-quiz"
      /\ Work[r.step].kind = "row" => r.row # NoRow /\ r.row.name = Work[r.step].slug
  BY <1>2, MayLeave DEF Here
<1>4. todo \subseteq DOMAIN Work[r.step].list
  BY <1>2 DEF Here
<1>5. PICK w : w = Left(r, todo)
  BY ZenonT(60)
<1>6. /\ RunTyped(w) /\ Fits(w) /\ w.row \in {r.row, NoRow} /\ w.course \in {r.course, NoRow}
      /\ todo = {} => w = Advanced(r)
      /\ todo # {} => w = [r EXCEPT !.at = "write", !.todo = todo]
  BY ONLY <1>2, <1>3, <1>4, <1>5, LeftFits
<1>7. IsIdOrNull(w.row) /\ IsIdOrNull(w.course)
  BY <1>2, <1>6, RunAt DEF IsIdOrNull
<1>8. SeedShape' /\ run'[p] = w /\ \A q \in Runs \ {p} : run'[q] = run[q]
  BY <1>0, <1>5, <1>6, <1>7, GoesOn
<1>9. CASE todo # {}
  <2>1. /\ w.at = "write" /\ w.todo = todo /\ w.step = r.step /\ w.row = r.row /\ w.course = r.course
        /\ w.inserted = r.inserted /\ w.skipped = r.skipped /\ w.fresh = r.fresh
    BY <1>2, <1>6, <1>9 DEF RunTyped, RunStates
  <2>. QED  BY <1>2, <1>8, <1>9, <2>1 DEF OnTo, OthersStay
<1>10. CASE todo = {}
  <2>1. /\ w.inserted = r.inserted /\ w.skipped = r.skipped /\ w.fresh = r.fresh
        /\ \/ r.step = 8 /\ w.at = "done"
           \/ /\ r.step # 8 /\ w.at = "look" /\ w.step = r.step + 1
              /\ w.row = r.row /\ w.course = r.course /\ w.todo = {}
    BY ONLY <1>2, <1>3, <1>6, <1>10, AdvancedFits
  <2>. QED  BY <1>2, <1>8, <1>10, <2>1 DEF OnTo, OthersStay
<1>. QED  BY <1>9, <1>10

\* The row of an item, once it is known.
LEMMA WithRowFits ==
    ASSUME NEW r, RunTyped(r), Fits(r), r.at \in {"look", "create"}, Work[r.step].kind = "row",
           NEW id \in RowIds, id # NoRow, id.name = Work[r.step].slug,
           NEW w, w = WithRow(r, Work[r.step], id)
    PROVE  /\ RunTyped(w) /\ Fits(w)
           /\ w.row \in {id, NoRow} /\ w.course \in {id, r.course, NoRow}
           /\ w.inserted = r.inserted /\ w.skipped = r.skipped /\ w.fresh = r.fresh
           /\ r.step \in {3, 4} => /\ w.at = "listTags" /\ w.step = r.step /\ w.row = id
                                   /\ w.course = IF r.step = 4 THEN id ELSE r.course
           /\ r.step \notin {3, 4} => \/ r.step = 8 /\ w.at = "done"
                                      \/ /\ r.step \in {5, 6} /\ w.at = "look" /\ w.step = r.step + 1
                                         /\ w.row = id /\ w.course = r.course /\ w.todo = {}
<1> DEFINE known == [r EXCEPT !.row = id, !.course = IF Work[r.step].type = "course" THEN id ELSE @]
<1>1. r.step \in {3, 4, 5, 6, 8} /\ r.todo = {} /\ (Work[r.step].type = "course" <=> r.step = 4)
  BY WorkIs DEF RunTyped, RunStates, Fits
<1>2. /\ known.row = id /\ known.course = (IF r.step = 4 THEN id ELSE r.course)
      /\ known.step = r.step /\ known.at = r.at /\ known.todo = r.todo
      /\ known.inserted = r.inserted /\ known.skipped = r.skipped /\ known.fresh = r.fresh
  BY <1>1 DEF RunTyped, RunStates
<1>3. known \in RunStates
  BY DEF RunTyped, RunStates
<1>4. RunTyped(known) /\ known.at \in RunPhases
  BY <1>2, <1>3 DEF RunTyped, RunPhases
<1>5. /\ known.course # NoRow => known.course.name = "intro"
      /\ known.step >= 4 => known.course # NoRow
      /\ known.step = 6 => known.row # NoRow /\ known.row.name = "intro-quiz"
  BY <1>1, <1>2, <1>4, WorkIs DEF Fits, NeedsCourse
<1>6. Work[r.step].list = <<>> <=> r.step \notin {3, 4}
  <2>1. <<"charting">> # <<>>
    OBVIOUS
  <2>2. /\ Work[3].list = <<"charting">> /\ Work[4].list = <<"charting">>
        /\ Work[5].list = <<>> /\ Work[6].list = <<>> /\ Work[8].list = <<>>
    BY WorkIs
  <2>. QED  BY ONLY <1>1, <2>1, <2>2
<1>7. CASE r.step \notin {3, 4}
  <2>1. w = Advanced(known)
    BY <1>6, <1>7 DEF WithRow
  <2>. HIDE DEF known
  <2>2. /\ RunTyped(w) /\ Fits(w)
        /\ w.inserted = known.inserted /\ w.skipped = known.skipped /\ w.fresh = known.fresh
        /\ \/ /\ known.step = 8 /\ w.at = "done" /\ w.row = NoRow /\ w.course = NoRow
           \/ /\ known.step # 8 /\ w.at = "look" /\ w.step = known.step + 1
              /\ w.row = known.row /\ w.course = known.course /\ w.todo = {}
    BY <1>4, <1>5, <2>1, AdvancedFits
  <2>. QED  BY <1>1, <1>2, <1>7, <2>2
<1>8. CASE r.step \in {3, 4}
  <2>1. w = [known EXCEPT !.at = "listTags"]
    BY <1>6, <1>8 DEF WithRow
  <2>. HIDE DEF known
  <2>2. /\ w.at = "listTags" /\ w.step = known.step /\ w.row = known.row /\ w.course = known.course
        /\ w.todo = known.todo /\ w.inserted = known.inserted /\ w.skipped = known.skipped
        /\ w.fresh = known.fresh
    BY <1>3, <2>1 DEF RunStates
  <2>3. RunTyped(w)
    BY <1>4, <2>1, <2>2 DEF RunTyped, RunStates, RunPhases
  <2>4. Fits(w)
    BY <1>1, <1>2, <1>5, <1>6, <1>8, <2>2 DEF Fits, NeedsCourse, HoldsRow
  <2>. QED  BY <1>1, <1>2, <1>8, <2>2, <2>3, <2>4
<1>. QED  BY <1>7, <1>8

\* The lists of categories, tags and questions, and those of tags of a row.
LEMMA ListsHere ==
    ASSUME SeedShape, NEW p \in Runs
    PROVE  /\ run[p].step \in {1, 2, 3, 4} => DOMAIN Here(p).list = {1} /\ Len(Here(p).list) = 1
           /\ run[p].step \in {5, 6, 8} => DOMAIN Here(p).list = {} /\ Here(p).list = <<>>
           /\ run[p].step = 7 => DOMAIN Here(p).list = {1, 2}
           /\ run[p].step = 1 => Here(p).list[1] = "technical-analysis"
           /\ run[p].step \in {2, 3, 4} => Here(p).list[1] = "charting"
           /\ run[p].step = 7 => Here(p).list[1] = "#0" /\ Here(p).list[2] = "#1"
           /\ run[p].todo \subseteq DOMAIN Here(p).list
<1>1. run[p].step \in 1..8 /\ run[p].todo \subseteq DOMAIN Here(p).list
  BY RunAt DEF RunTyped, Here
<1>2. /\ DOMAIN CATEGORIES = {1} /\ DOMAIN TAGS = {1} /\ Len(CATEGORIES) = 1 /\ Len(TAGS) = 1
      /\ DOMAIN <<"charting">> = {1} /\ Len(<<"charting">>) = 1 /\ DOMAIN <<>> = {}
      /\ DOMAIN <<"#0", "#1">> = {1, 2} /\ <<"#0", "#1">>[1] = "#0" /\ <<"#0", "#1">>[2] = "#1"
      /\ <<"charting">>[1] = "charting" /\ CATEGORIES[1] = "technical-analysis" /\ TAGS[1] = "charting"
  BY DEF CATEGORIES, TAGS
<1>3. /\ Work[1].list = CATEGORIES /\ Work[2].list = TAGS
      /\ Work[3].list = <<"charting">> /\ Work[4].list = <<"charting">>
      /\ Work[5].list = <<>> /\ Work[6].list = <<>> /\ Work[8].list = <<>>
      /\ Work[7].list = <<"#0", "#1">>
  BY WorkIs
<1>. QED  BY <1>1, <1>2, <1>3 DEF Here

\* The next member of a list, and what is left after it.
LEMMA NextIs ==
    ASSUME SeedShape, NEW p \in Runs, run[p].at = "write"
    PROVE  \E i \in run[p].todo :
              /\ NextOf(p) = Here(p).list[i] /\ RestOf(p) = run[p].todo \ {i}
              /\ RestOf(p) \subseteq DOMAIN Here(p).list /\ i \in DOMAIN Here(p).list
              /\ \/ run[p].step \in {1, 2, 3, 4} /\ i = 1 /\ run[p].todo = {1} /\ RestOf(p) = {}
                 \/ run[p].step = 7 /\ i = 1 /\ run[p].todo = {1, 2} /\ RestOf(p) = {2}
                 \/ run[p].step = 7 /\ i \in {1, 2} /\ run[p].todo = {i} /\ RestOf(p) = {}
<1>1. run[p].todo # {} /\ run[p].step \in 1..8
  BY RunAt DEF Fits
<1>2. run[p].todo \in {{1}, {2}, {1, 2}} /\ (run[p].step # 7 => run[p].todo = {1})
  BY <1>1, ListsHere
<1>3. run[p].step \in {1, 2, 3, 4, 7}
  BY <1>1, ListsHere
<1>4. PICK i : i = Min(run[p].todo)
  OBVIOUS
<1>5. NextOf(p) = Here(p).list[i] /\ RestOf(p) = run[p].todo \ {i}
  BY <1>4 DEF NextOf, RestOf
<1>6. \/ run[p].todo = {1} /\ i = 1
      \/ run[p].todo = {2} /\ i = 2
      \/ run[p].todo = {1, 2} /\ i = 1
  BY <1>2, <1>4, Sizes
<1>7. i \in run[p].todo /\ run[p].todo \subseteq DOMAIN Here(p).list
  BY <1>6, ListsHere
<1>8. \/ run[p].todo = {i} /\ RestOf(p) = {}
      \/ run[p].todo = {1, 2} /\ i = 1 /\ RestOf(p) = {2}
  BY <1>5, <1>6
<1>. QED  BY <1>2, <1>3, <1>5, <1>6, <1>7, <1>8

\* Listing categories or tags: the run goes on, or has to create what is missing.
LEMMA ListReferenceDoes ==
    ASSUME SeedShape, NEW p \in Runs, ListReference(p)
    PROVE  /\ SeedShape' /\ OthersStay(p) /\ run[p].step \in {1, 2} /\ run[p].at = "look"
           /\ LET there == IF run[p].step = 1 THEN categories ELSE tags
              IN \/ /\ Here(p).list[1] \in there
                    /\ OnTo(p, run[p].inserted, run[p].skipped + 1, {})
                 \/ /\ Here(p).list[1] \notin there
                    /\ OnTo(p, run[p].inserted, run[p].skipped, {1})
<1> DEFINE there == IF run[p].step = 1 THEN categories ELSE tags
           missing == Missing(Here(p).list, there)
<1>1. /\ Active(p) /\ run[p].at = "look" /\ run[p].step \in {1, 2} /\ Here(p).kind # "row"
      /\ Here(p).kind = "categories" <=> run[p].step = 1
  BY RunAt DEF ListReference, At
<1>2. DOMAIN Here(p).list = {1} /\ Len(Here(p).list) = 1
  BY <1>1, ListsHere
<1>3. /\ missing \subseteq DOMAIN Here(p).list
      /\ Here(p).list[1] \in there => missing = {} /\ Cardinality(missing) = 0
      /\ Here(p).list[1] \notin there => missing = {1} /\ Cardinality(missing) = 1
  BY <1>2, MissingIs, Sizes, ZenonT(60)
<1>4. run[p].skipped \in Nat /\ run[p].inserted \in Nat /\ run[p] \in RunStates
  BY RunAt DEF RunTyped, RunStates
<1>5. Become(p, Left([run[p] EXCEPT !.skipped = run[p].skipped + 1 - Cardinality(missing)], missing))
  BY <1>1, <1>2 DEF ListReference
<1>. HIDE DEF there, missing
<1>6. PICK skipped : skipped = run[p].skipped + 1 - Cardinality(missing)
  OBVIOUS
<1>7. /\ skipped \in Nat
      /\ Here(p).list[1] \in there => skipped = run[p].skipped + 1
      /\ Here(p).list[1] \notin there => skipped = run[p].skipped
  BY <1>3, <1>4, <1>6
<1>8. [run[p] EXCEPT !.skipped = skipped] = Counted(run[p], run[p].inserted, skipped)
  BY <1>4 DEF RunStates, Counted
<1>10. Become(p, Left(Counted(run[p], run[p].inserted, skipped), missing))
  BY <1>5, <1>6, <1>8
<1>11. TablesFit' /\ BornGrows
  BY QuietTables DEF SeedShape, ListReference
<1>12. UNCHANGED <<starts, edits, overlapped, removed, torn>>
  BY DEF ListReference
<1>13. SeedShape' /\ OthersStay(p) /\ OnTo(p, run[p].inserted, skipped, missing)
  BY <1>1, <1>3, <1>4, <1>7, <1>10, <1>11, <1>12, LeftDoes
<1>14. CASE Here(p).list[1] \in there
  BY <1>1, <1>3, <1>7, <1>13, <1>14 DEF there
<1>15. CASE Here(p).list[1] \notin there
  BY <1>1, <1>3, <1>7, <1>13, <1>15 DEF there
<1>. QED  BY <1>14, <1>15

\* Creating a category or tag: it fails only where there is one by now.
LEMMA CreateReferenceDoes ==
    ASSUME SeedShape, NEW p \in Runs, CreateReference(p)
    PROVE  /\ SeedShape' /\ OthersStay(p)
           /\ run[p].step \in {1, 2} /\ run[p].at = "write" /\ run[p].todo = {1}
           /\ \/ /\ run'[p] = [NotStarted EXCEPT !.at = "failed"]
                 /\ UNCHANGED tables /\ torn' = torn \cup Halfway(p)
                 /\ Here(p).list[1] \in (IF run[p].step = 1 THEN categories ELSE tags)
              \/ /\ OnTo(p, run[p].inserted + 1, run[p].skipped, {})
                 /\ UNCHANGED <<rows, born, questions, contentTags, torn>>
                 /\ \/ /\ run[p].step = 1 /\ UNCHANGED tags
                       /\ categories' = categories \cup {Here(p).list[1]}
                    \/ /\ run[p].step = 2 /\ UNCHANGED categories
                       /\ tags' = tags \cup {Here(p).list[1]}
<1>1. /\ Active(p) /\ run[p].at = "write" /\ run[p].step \in {1, 2}
      /\ Here(p).kind = "categories" <=> run[p].step = 1
  BY RunAt DEF CreateReference, At
<1>2. run[p].todo = {1} /\ NextOf(p) = Here(p).list[1] /\ RestOf(p) = {}
  BY <1>1, NextIs
<1>3. UNCHANGED <<starts, edits, overlapped, removed>>
  BY DEF CreateReference
<1>4. CASE Fail(p) /\ NextOf(p) \in (IF run[p].step = 1 THEN categories ELSE tags)
  BY <1>1, <1>2, <1>3, <1>4, FailDoes DEF Fail, OthersStay
<1>5. CASE /\ \/ /\ run[p].step = 1 /\ UNCHANGED tags
                 /\ categories' = categories \cup {Here(p).list[1]}
              \/ /\ run[p].step = 2 /\ UNCHANGED categories
                 /\ tags' = tags \cup {Here(p).list[1]}
           /\ UNCHANGED <<rows, born, questions, contentTags>>
           /\ Written(p)
  <2>1. Become(p, Left([run[p] EXCEPT !.inserted = @ + 1], RestOf(p))) /\ UNCHANGED torn
    BY <1>5 DEF Written
  <2>2. TablesFit' /\ BornGrows
    <3>1. Here(p).list[1] \in (IF run[p].step = 1 THEN Range(CATEGORIES) ELSE Range(TAGS))
      BY <1>1, ListsHere, ListsAre
    <3>2. categories' \subseteq Range(CATEGORIES) /\ tags' \subseteq Range(TAGS)
      BY <1>1, <1>5, <3>1 DEF SeedShape, TablesFit
    <3>. QED  BY <1>5, <3>2, AddedFits DEF SeedShape
  <2>3. run[p] \in RunStates /\ run[p].inserted \in Nat /\ run[p].skipped \in Nat
    BY RunAt DEF RunTyped, RunStates
  <2>4. PICK n, m : n = run[p].inserted + 1 /\ m = run[p].skipped
    OBVIOUS
  <2>6. [run[p] EXCEPT !.inserted = @ + 1] = Counted(run[p], n, m)
    BY <2>3, <2>4 DEF RunStates, Counted
  <2>7. PICK none : none = {}
    OBVIOUS
  <2>8. Become(p, Left(Counted(run[p], n, m), none))
    BY <1>2, <2>1, <2>6, <2>7
  <2>9. n \in Nat /\ m \in Nat /\ none \subseteq DOMAIN Here(p).list
    BY <2>3, <2>4, <2>7
  <2>10. \A id \in torn' : id \in torn \/ IsId(id)
    BY <2>1
  <2>11. SeedShape' /\ OthersStay(p) /\ OnTo(p, n, m, none)
    BY <1>1, <1>3, <2>2, <2>8, <2>9, <2>10, LeftDoes
  <2>. QED  BY <1>1, <1>2, <1>5, <2>1, <2>4, <2>7, <2>11
<1>. QED  BY <1>1, <1>2, <1>4, <1>5 DEF CreateReference

\* How run p goes on with these counts when the row of its item is id.
RowKnown(p, id, inserted, skipped) ==
    /\ run'[p].inserted = inserted /\ run'[p].skipped = skipped /\ run'[p].fresh = run[p].fresh
    /\ run[p].step \in {3, 4} => /\ run'[p].at = "listTags" /\ run'[p].step = run[p].step
                                 /\ run'[p].row = id
                                 /\ run'[p].course = IF run[p].step = 4 THEN id ELSE run[p].course
    /\ run[p].step \notin {3, 4} => \/ run[p].step = 8 /\ run'[p].at = "done"
                                    \/ /\ run[p].step \in {5, 6} /\ run'[p].at = "look"
                                       /\ run'[p].step = run[p].step + 1
                                       /\ run'[p].row = id /\ run'[p].course = run[p].course

\* A run that knows the id of its row goes on with it.
LEMMA RowKnownDoes ==
    ASSUME SeedShape, NEW p \in Runs, TablesFit', BornGrows,
           Active(p), run[p].at \in {"look", "create"}, Here(p).kind = "row",
           NEW id, id \in RowIds, IsId(id)', id.name = Here(p).slug,
           NEW inserted \in Nat, NEW skipped \in Nat,
           Become(p, WithRow(Counted(run[p], inserted, skipped), Here(p), id)),
           UNCHANGED <<starts, edits, overlapped, removed, torn>>
    PROVE  SeedShape' /\ OthersStay(p) /\ RowKnown(p, id, inserted, skipped)
<1>1. PICK r : r = Counted(run[p], inserted, skipped)
  OBVIOUS
<1>2. run[p] \in RunStates /\ RunTyped(run[p]) /\ Fits(run[p]) /\ run[p].step \in {3, 4, 5, 6, 8}
  BY RunAt DEF RunTyped
<1>3. /\ RunTyped(r) /\ r.at = run[p].at /\ r.course = run[p].course /\ r.row = run[p].row
      /\ r.step = run[p].step /\ r.todo = run[p].todo
      /\ r.inserted = inserted /\ r.skipped = skipped /\ r.fresh = run[p].fresh
  BY <1>1, <1>2 DEF RunTyped, RunStates, Counted
<1>4. Fits(r)
  BY <1>2, <1>3 DEF Fits, NeedsCourse, HoldsRow
<1>5. PICK w : w = WithRow(r, Work[r.step], id)
  OBVIOUS
<1>6. id # NoRow /\ Become(p, w) /\ Work[r.step] = Here(p)
  BY <1>1, <1>3, <1>5, NoRowAssumption DEF Here
<1>7. /\ RunTyped(w) /\ Fits(w)
      /\ w.row \in {id, NoRow} /\ w.course \in {id, r.course, NoRow}
      /\ w.inserted = r.inserted /\ w.skipped = r.skipped /\ w.fresh = r.fresh
      /\ r.step \in {3, 4} => /\ w.at = "listTags" /\ w.step = r.step /\ w.row = id
                              /\ w.course = IF r.step = 4 THEN id ELSE r.course
      /\ r.step \notin {3, 4} => \/ r.step = 8 /\ w.at = "done"
                                 \/ /\ r.step \in {5, 6} /\ w.at = "look" /\ w.step = r.step + 1
                                    /\ w.row = id /\ w.course = r.course /\ w.todo = {}
  BY <1>3, <1>4, <1>5, <1>6, WithRowFits
<1>8. IsIdOrNull(w.row)' /\ IsIdOrNull(w.course)'
  <2>1. IsIdOrNull(r.course)
    BY <1>3, RunAt
  <2>2. IsIdOrNull(r.course)'
    BY <2>1, IdsStay DEF SeedShape, TablesFit
  <2>. QED  BY <1>7, <2>2 DEF IsIdOrNull
<1>9. RunsFit' /\ run'[p] = w /\ \A q \in Runs \ {p} : run'[q] = run[q]
  BY <1>6, <1>7, <1>8, RunBecomes
<1>10. HistoryFits'
  <2>1. overlapped' \subseteq Runs /\ removed' \in [Runs -> SUBSET Names]
    BY DEF SeedShape, HistoryFits
  <2>. QED  BY <2>1, HistoryStays
<1>. QED  BY <1>3, <1>7, <1>9, <1>10 DEF SeedShape, OthersStay, RowKnown

\* Looking for a row by slug: it is found and counted, or is to be created.
LEMMA LookForRowDoes ==
    ASSUME SeedShape, NEW p \in Runs, LookForRow(p)
    PROVE  /\ SeedShape' /\ OthersStay(p)
           /\ run[p].at = "look" /\ run[p].step \in {3, 4, 5, 6, 8}
           /\ \/ Found(p) = {} /\ run'[p] = [run[p] EXCEPT !.at = "create"]
              \/ \E id \in Found(p) : RowKnown(p, id, run[p].inserted, run[p].skipped + 1)
<1>1. /\ Active(p) /\ run[p].at = "look" /\ run[p].step \in {3, 4, 5, 6, 8} /\ Here(p).kind = "row"
      /\ run[p] \in RunStates /\ RunTyped(run[p]) /\ Fits(run[p])
      /\ IsIdOrNull(run[p].row) /\ IsIdOrNull(run[p].course)
  BY RunAt DEF LookForRow, At, RunTyped
<1>2. TablesFit' /\ BornGrows /\ UNCHANGED <<starts, edits, overlapped, removed, torn>>
  BY QuietTables DEF SeedShape, LookForRow
<1>3. CASE Found(p) = {} /\ Become(p, [run[p] EXCEPT !.at = "create"])
  <2>1. PICK r : r = [run[p] EXCEPT !.at = "create"]
    OBVIOUS
  <2>2. /\ r.at = "create" /\ r.todo = run[p].todo /\ r.course = run[p].course /\ r.row = run[p].row
        /\ r.step = run[p].step
    BY <1>1, <2>1 DEF RunStates
  <2>3. RunTyped(r)
    BY <1>1, <2>1, <2>2 DEF RunTyped, RunStates, RunPhases
  <2>4. Fits(r)
    BY <1>1, <2>2 DEF Fits, NeedsCourse, HoldsRow, RunPhases, Here
  <2>5. \A id \in torn' : id \in torn \/ IsId(id)
    BY <1>2
  <2>6. SeedShape' /\ run'[p] = r /\ \A q \in Runs \ {p} : run'[q] = run[q]
    BY <1>1, <1>2, <1>3, <2>1, <2>2, <2>3, <2>4, <2>5, GoesOn
  <2>. QED  BY <1>1, <1>3, <2>1, <2>6 DEF OthersStay
<1>4. ASSUME NEW id \in Found(p), Become(p, WithRow([run[p] EXCEPT !.skipped = @ + 1], Here(p), id))
      PROVE  SeedShape' /\ OthersStay(p) /\ RowKnown(p, id, run[p].inserted, run[p].skipped + 1)
  <2>1. id \in DOMAIN rows /\ id.name = Here(p).slug
    BY <1>4 DEF Found, Called
  <2>2. id \in RowIds /\ IsId(id)'
    BY <1>2, <2>1, IdsStay DEF SeedShape, TablesFit, IsId
  <2>3. PICK n, m : n = run[p].inserted /\ m = run[p].skipped + 1
    OBVIOUS
  <2>4. [run[p] EXCEPT !.skipped = @ + 1] = Counted(run[p], n, m) /\ n \in Nat /\ m \in Nat
    <3>1. run[p].inserted \in Nat /\ run[p].skipped \in Nat
      BY <1>1 DEF RunStates
    <3>2. Counted(run[p], n, m) = [run[p] EXCEPT !.skipped = m]
      BY <1>1, <2>3 DEF RunStates, Counted
    <3>. QED  BY <2>3, <3>1, <3>2
  <2>5. Become(p, WithRow(Counted(run[p], n, m), Here(p), id))
    BY <1>4, <2>4
  <2>6. SeedShape' /\ OthersStay(p) /\ RowKnown(p, id, n, m)
    BY <1>1, <1>2, <2>1, <2>2, <2>4, <2>5, RowKnownDoes
  <2>. QED  BY <2>3, <2>6
<1>. QED  BY <1>1, <1>3, <1>4 DEF LookForRow

\* Listing the tags of a row: what is not attached is to be.
LEMMA ListTagsDoes ==
    ASSUME SeedShape, NEW p \in Runs, ListTags(p)
    PROVE  /\ SeedShape' /\ OthersStay(p) /\ run[p].at = "listTags" /\ run[p].step \in {3, 4}
           /\ OnTo(p, run[p].inserted, run[p].skipped,
                   IF "charting" \in TagsOf(run[p].row) THEN {} ELSE {1})
<1>1. /\ Active(p) /\ run[p].at = "listTags" /\ run[p] \in RunStates
      /\ Work[run[p].step].list # <<>> /\ run[p].step \in {3, 4, 5, 6, 8}
  BY RunAt DEF ListTags, At, RunTyped, Fits, Here
<1>2. TablesFit' /\ BornGrows /\ UNCHANGED <<starts, edits, overlapped, removed, torn>>
  BY QuietTables DEF SeedShape, ListTags
<1>3. run[p].step \in {3, 4}
  BY <1>1, WorkIs
<1>4. DOMAIN Here(p).list = {1} /\ Here(p).list[1] = "charting"
  BY <1>3, ListsHere
<1>5. PICK todo, list, there : /\ todo = Missing(list, there)
                               /\ list = Here(p).list /\ there = TagsOf(run[p].row)
  OBVIOUS
<1>6. todo \subseteq DOMAIN Here(p).list /\ todo = IF "charting" \in there THEN {} ELSE {1}
  <2>1. DOMAIN list = {1} /\ list[1] = "charting"
    BY <1>4, <1>5
  <2>2. todo \subseteq DOMAIN list /\ ("charting" \in there => todo = {})
    BY <1>5, <2>1 DEF Missing
  <2>3. "charting" \notin there => todo = {1}
    BY <1>5, <2>1 DEF Missing
  <2>. QED  BY <1>5, <2>2, <2>3
<1>7. PICK n, m : n = run[p].inserted /\ m = run[p].skipped
  OBVIOUS
<1>8. run[p] = Counted(run[p], n, m) /\ n \in Nat /\ m \in Nat
  BY <1>1, <1>7 DEF RunStates, Counted
<1>9. Become(p, Left(Counted(run[p], n, m), todo))
  BY <1>5, <1>8 DEF ListTags
<1>10. \A id \in torn' : id \in torn \/ IsId(id)
  BY <1>2
<1>11. SeedShape' /\ OthersStay(p) /\ OnTo(p, n, m, todo)
  BY <1>1, <1>2, <1>6, <1>8, <1>9, <1>10, LeftDoes
<1>. QED  BY <1>1, <1>3, <1>5, <1>6, <1>7, <1>11

\* Attaching a tag: it fails only where it is attached by now.
LEMMA AttachDoes ==
    ASSUME SeedShape, NEW p \in Runs, Attach(p)
    PROVE  /\ SeedShape' /\ OthersStay(p)
           /\ run[p].at = "write" /\ run[p].step \in {3, 4} /\ run[p].todo = {1}
           /\ \/ /\ run'[p] = [NotStarted EXCEPT !.at = "failed"]
                 /\ UNCHANGED tables /\ torn' = torn \cup Halfway(p)
                 /\ [content |-> run[p].row, tag |-> "charting"] \in contentTags
              \/ /\ OnTo(p, run[p].inserted, run[p].skipped, {})
                 /\ contentTags' = contentTags \cup {[content |-> run[p].row, tag |-> "charting"]}
                 /\ UNCHANGED <<categories, tags, rows, born, questions, torn>>
<1>1. /\ Active(p) /\ run[p].at = "write" /\ run[p] \in RunStates /\ run[p].step \in {3, 4, 5, 6, 8}
      /\ IsIdOrNull(run[p].row)
  BY RunAt DEF Attach, At, RunTyped
<1>2. /\ run[p].step \in {3, 4} /\ run[p].todo = {1} /\ NextOf(p) = Here(p).list[1] /\ RestOf(p) = {}
      /\ Here(p).list[1] = "charting"
  BY <1>1, NextIs, ListsHere
<1>3. UNCHANGED <<starts, edits, overlapped, removed>>
  BY DEF Attach
<1>4. PICK new : new = [content |-> run[p].row, tag |-> "charting"]
  OBVIOUS
<1>5. CASE new \in contentTags /\ Fail(p)
  BY <1>1, <1>2, <1>3, <1>4, <1>5, FailDoes DEF Fail, OthersStay
<1>6. CASE /\ contentTags' = contentTags \cup {new}
           /\ Become(p, Left(run[p], RestOf(p)))
           /\ UNCHANGED <<categories, tags, rows, born, questions, torn>>
  <2>1. PICK n, m, none : n = run[p].inserted /\ m = run[p].skipped /\ none = {}
    OBVIOUS
  <2>2. run[p] = Counted(run[p], n, m) /\ n \in Nat /\ m \in Nat
    BY <1>1, <2>1 DEF RunStates, Counted
  <2>3. Become(p, Left(Counted(run[p], n, m), none)) /\ none \subseteq DOMAIN Here(p).list
    BY <1>2, <1>6, <2>1, <2>2
  <2>4. \A id \in torn' : id \in torn \/ IsId(id)
    BY <1>6
  <2>5. IsAttachment(new)
    <3>1. IsId(run[p].row)
      BY <1>1, <1>2, WorkIs, RunAt DEF Fits, HoldsRow, IsIdOrNull
    <3>. QED  BY <1>4, <3>1, ListsAre DEF IsAttachment
  <2>6. TablesFit' /\ BornGrows
    <3>1. /\ categories' \subseteq Range(CATEGORIES) /\ tags' \subseteq Range(TAGS)
          /\ UNCHANGED <<rows, born>> /\ \A q \in questions' : q \in questions
          /\ \A x \in contentTags' : x \in contentTags \/ IsAttachment(x)
      BY <1>6, <2>5 DEF SeedShape, TablesFit
    <3>. QED  BY <3>1, AddedFits DEF SeedShape
  <2>7. SeedShape' /\ OthersStay(p) /\ OnTo(p, n, m, none)
    BY <1>1, <1>3, <2>2, <2>3, <2>4, <2>6, LeftDoes
  <2>. QED  BY <1>1, <1>2, <1>4, <1>6, <2>1, <2>7
<1>. QED  BY <1>2, <1>4, <1>5, <1>6 DEF Attach

\* The questions there are of a quiz.
LEMMA QuestionsAre ==
    ASSUME SeedShape, NEW id
    PROVE  /\ QuestionsIn(id) \subseteq {"#0", "#1"} /\ IsFiniteSet(QuestionsIn(id))
           /\ Cardinality(QuestionsIn(id)) \in Nat
           /\ HasQuestions(id) => QuestionsIn(id) = {"#0", "#1"} /\ Cardinality(QuestionsIn(id)) = 2
<1>1. QuestionsIn(id) \subseteq {"#0", "#1"}
  BY ListsAre DEF SeedShape, TablesFit, QuestionsIn
<1>2. IsFiniteSet({"#0", "#1"}) /\ Cardinality({"#0", "#1"}) = 2
  <2>1. IsFiniteSet({"#0"}) /\ Cardinality({"#0"}) = 1
    BY FS_Singleton
  <2>2. "#1" \notin {"#0"} /\ {"#0"} \cup {"#1"} = {"#0", "#1"}
    OBVIOUS
  <2>. QED  BY <2>1, <2>2, FS_AddElement
<1>3. IsFiniteSet(QuestionsIn(id))
  BY <1>1, <1>2, FS_Subset
<1>4. HasQuestions(id) => QuestionsIn(id) = {"#0", "#1"}
  BY <1>1, ListsAre DEF HasQuestions
<1>. QED  BY <1>1, <1>2, <1>3, <1>4, FS_CardinalityType

\* Listing questions: a quiz that has any is left as it is.
LEMMA ListQuestionsDoes ==
    ASSUME SeedShape, NEW p \in Runs, ListQuestions(p)
    PROVE  /\ SeedShape' /\ OthersStay(p) /\ run[p].at = "look" /\ run[p].step = 7
           /\ \/ /\ QuestionsIn(run[p].row) # {}
                 /\ OnTo(p, run[p].inserted,
                            run[p].skipped + Cardinality(QuestionsIn(run[p].row)), {})
              \/ /\ QuestionsIn(run[p].row) = {}
                 /\ OnTo(p, run[p].inserted, run[p].skipped, {1, 2})
<1>1. /\ Active(p) /\ run[p].at = "look" /\ run[p] \in RunStates /\ run[p].step = 7
      /\ Here(p).kind # "row" /\ run[p].inserted \in Nat /\ run[p].skipped \in Nat
  BY RunAt DEF ListQuestions, At, RunTyped, RunStates
<1>2. TablesFit' /\ BornGrows /\ UNCHANGED <<starts, edits, overlapped, removed, torn>>
  BY QuietTables DEF SeedShape, ListQuestions
<1>3. \A id \in torn' : id \in torn \/ IsId(id)
  BY <1>2
<1>4. DOMAIN Here(p).list = {1, 2}
  BY <1>1, ListsHere
<1>5. CASE QuestionsIn(run[p].row) # {}
  <2>1. PICK n, m, none : /\ n = run[p].inserted /\ none = {}
                          /\ m = run[p].skipped + Cardinality(QuestionsIn(run[p].row))
    OBVIOUS
  <2>2. n \in Nat /\ m \in Nat /\ none \subseteq DOMAIN Here(p).list
    BY <1>1, <2>1, QuestionsAre
  <2>3. Become(p, Advanced([run[p] EXCEPT !.skipped = @ + Cardinality(QuestionsIn(run[p].row))]))
    BY <1>5 DEF ListQuestions
  <2>4. [run[p] EXCEPT !.skipped = @ + Cardinality(QuestionsIn(run[p].row))] = Counted(run[p], n, m)
    <3>1. Counted(run[p], n, m) = [run[p] EXCEPT !.skipped = m]
      BY <1>1, <2>1 DEF RunStates, Counted
    <3>. QED  BY <1>1, <2>1, <3>1
  <2>5. Become(p, Left(Counted(run[p], n, m), none))
    BY <2>1, <2>3, <2>4 DEF Left
  <2>6. SeedShape' /\ OthersStay(p) /\ OnTo(p, n, m, none)
    BY <1>1, <1>2, <1>3, <2>2, <2>5, LeftDoes
  <2>. QED  BY <1>1, <1>5, <2>1, <2>6
<1>6. CASE QuestionsIn(run[p].row) = {}
  <2>1. PICK n, m, all : n = run[p].inserted /\ m = run[p].skipped /\ all = DOMAIN Here(p).list
    OBVIOUS
  <2>2. run[p] = Counted(run[p], n, m) /\ n \in Nat /\ m \in Nat
    BY <1>1, <2>1 DEF RunStates, Counted
  <2>3. Become(p, Left(Counted(run[p], n, m), all)) /\ all \subseteq DOMAIN Here(p).list
    BY <1>6, <2>1, <2>2 DEF ListQuestions
  <2>4. SeedShape' /\ OthersStay(p) /\ OnTo(p, n, m, all)
    BY <1>1, <1>2, <1>3, <2>2, <2>3, LeftDoes
  <2>. QED  BY <1>1, <1>4, <1>6, <2>1, <2>4
<1>. QED  BY <1>5, <1>6

\* Creating a question: it fails only where there is one by now, or no quiz any more.
LEMMA CreateQuestionDoes ==
    ASSUME SeedShape, NEW p \in Runs, CreateQuestion(p)
    PROVE  /\ SeedShape' /\ OthersStay(p) /\ run[p].at = "write" /\ run[p].step = 7
           /\ \E i \in run[p].todo :
                 \/ /\ run'[p] = [NotStarted EXCEPT !.at = "failed"] /\ UNCHANGED tables
                    /\ torn' = torn \cup Halfway(p)
                    /\ \/ [quiz |-> run[p].row, orderIndex |-> Here(p).list[i]] \in questions
                       \/ run[p].row \notin DOMAIN rows
                 \/ /\ OnTo(p, run[p].inserted + 1, run[p].skipped, run[p].todo \ {i})
                    /\ run[p].row \in DOMAIN rows
                    /\ questions' = questions \cup
                                       {[quiz |-> run[p].row, orderIndex |-> Here(p).list[i]]}
                    /\ UNCHANGED <<categories, tags, rows, born, contentTags, torn>>
<1>1. /\ Active(p) /\ run[p].at = "write" /\ run[p] \in RunStates /\ run[p].step = 7
      /\ run[p].inserted \in Nat /\ run[p].skipped \in Nat
  BY RunAt DEF CreateQuestion, At, RunTyped, RunStates
<1>2. PICK i \in run[p].todo : /\ NextOf(p) = Here(p).list[i] /\ RestOf(p) = run[p].todo \ {i}
                              /\ RestOf(p) \subseteq DOMAIN Here(p).list /\ i \in {1, 2}
  BY <1>1, NextIs
<1>3. UNCHANGED <<starts, edits, overlapped, removed>>
  BY DEF CreateQuestion
<1>4. PICK new : new = [quiz |-> run[p].row, orderIndex |-> Here(p).list[i]]
  OBVIOUS
<1>5. CASE (new \in questions \/ new.quiz \notin DOMAIN rows) /\ Fail(p)
  BY <1>1, <1>2, <1>3, <1>4, <1>5, FailDoes DEF Fail, OthersStay
<1>6. CASE /\ new.quiz \in DOMAIN rows /\ questions' = questions \cup {new}
           /\ UNCHANGED <<categories, tags, rows, born, contentTags>>
           /\ Written(p)
  <2>1. PICK n, m, rest : n = run[p].inserted + 1 /\ m = run[p].skipped /\ rest = RestOf(p)
    OBVIOUS
  <2>2. [run[p] EXCEPT !.inserted = @ + 1] = Counted(run[p], n, m) /\ n \in Nat /\ m \in Nat
    <3>1. Counted(run[p], n, m) = [run[p] EXCEPT !.inserted = n]
      BY <1>1, <2>1 DEF RunStates, Counted
    <3>. QED  BY <1>1, <2>1, <3>1
  <2>3. Become(p, Left(Counted(run[p], n, m), rest)) /\ rest \subseteq DOMAIN Here(p).list
    BY <1>2, <1>6, <2>1, <2>2 DEF Written
  <2>4. (\A id \in torn' : id \in torn \/ IsId(id)) /\ UNCHANGED torn
    BY <1>6 DEF Written
  <2>5. new.quiz \in DOMAIN rows /\ new.orderIndex \in Questions
    <3>1. Here(p).list[i] \in {"#0", "#1"}
      BY <1>1, <1>2, ListsHere
    <3>. QED  BY <1>4, <1>6, <3>1, ListsAre
  <2>6. TablesFit' /\ BornGrows
    <3>1. /\ categories' \subseteq Range(CATEGORIES) /\ tags' \subseteq Range(TAGS)
          /\ UNCHANGED <<rows, born>> /\ \A x \in contentTags' : x \in contentTags \/ IsAttachment(x)
          /\ \A q \in questions' : \/ q \in questions
                                   \/ q.quiz \in DOMAIN rows /\ q.orderIndex \in Questions
      BY <1>6, <2>5 DEF SeedShape, TablesFit
    <3>. QED  BY <3>1, AddedFits DEF SeedShape
  <2>7. SeedShape' /\ OthersStay(p) /\ OnTo(p, n, m, rest)
    BY <1>1, <1>3, <2>2, <2>3, <2>4, <2>6, LeftDoes
  <2>. QED  BY <1>1, <1>2, <1>4, <1>6, <2>1, <2>4, <2>7
<1>. QED  BY <1>2, <1>4, <1>5, <1>6 DEF CreateQuestion

\* The course a row of this run belongs to.
CourseFor(p) == IF run[p].step \in {5, 6} THEN run[p].course ELSE NoRow

\* Creating a row: it fails only where there is one by now, or no course any more.
LEMMA CreateRowDoes ==
    ASSUME SeedShape, NEW p \in Runs, CreateRow(p)
    PROVE  /\ SeedShape' /\ OthersStay(p) /\ run[p].at = "create" /\ run[p].step \in {3, 4, 5, 6, 8}
           /\ \/ /\ run'[p] = [NotStarted EXCEPT !.at = "failed"]
                 /\ UNCHANGED tables /\ torn' = torn \cup Halfway(p)
                 /\ \/ Found(p) # {}
                    \/ run[p].step \in {5, 6} /\ run[p].course \notin DOMAIN rows
              \/ \E id \in RowIds :
                    /\ id.name = Here(p).slug /\ id \notin DOMAIN rows /\ ~ IsId(id)
                    /\ DOMAIN rows' = DOMAIN rows \cup {id} /\ rows'[id] = CourseFor(p)
                    /\ \A x \in DOMAIN rows : rows'[x] = rows[x]
                    /\ UNCHANGED <<categories, tags, questions, contentTags, torn>>
                    /\ Found(p) = {} /\ (run[p].step \in {5, 6} => run[p].course \in DOMAIN rows)
                    /\ RowKnown(p, id, run[p].inserted + 1, run[p].skipped)
<1>1. /\ Active(p) /\ run[p].at = "create" /\ run[p] \in RunStates /\ Here(p).kind = "row"
      /\ run[p].step \in {3, 4, 5, 6, 8} /\ run[p].inserted \in Nat /\ run[p].skipped \in Nat
      /\ Fits(run[p]) /\ Here(p).slug \in Names
  BY RunAt DEF CreateRow, At, RunTyped, RunStates, Fits, Here
<1>2. PICK name, course : /\ name = Here(p).slug
                          /\ course = IF Here(p).type \in {"lesson", "quiz"} THEN run[p].course ELSE NoRow
  OBVIOUS
<1>3. /\ Here(p).type \in {"lesson", "quiz"} <=> run[p].step \in {5, 6}
      /\ Here(p).type = "lesson" <=> run[p].step = 5
      /\ run[p].step = 5 <=> name = "candlesticks"
      /\ run[p].step = 6 <=> name = "intro-quiz"
  BY <1>1, <1>2, WorkIs DEF Here
<1>4. /\ run[p].step \in {5, 6} => run[p].course # NoRow /\ run[p].course.name = "intro"
      /\ course = CourseFor(p)
  BY <1>1, <1>2, <1>3 DEF Fits, NeedsCourse, RunPhases, CourseFor
<1>5. UNCHANGED <<starts, edits, overlapped, removed>>
  BY DEF CreateRow
<1>6. CASE (Found(p) # {} \/ (course # NoRow /\ course \notin DOMAIN rows)) /\ Fail(p)
  BY <1>1, <1>2, <1>3, <1>4, <1>5, <1>6, FailDoes DEF Fail, OthersStay
<1>7. CASE /\ Found(p) = {} /\ ~ (course # NoRow /\ course \notin DOMAIN rows)
           /\ born[name] < MaxRows
           /\ InsertRow(name, course)
           /\ Become(p, WithRow([run[p] EXCEPT !.inserted = @ + 1], Here(p),
                                [name |-> name, n |-> born[name] + 1]))
           /\ UNCHANGED torn
  <2>1. PICK id, n, m : /\ id = [name |-> name, n |-> born[name] + 1]
                        /\ n = run[p].inserted + 1 /\ m = run[p].skipped
    OBVIOUS
  <2>2. /\ name # "candlesticks" => Called(name) = {}
        /\ \A x \in Called(name) : rows[x] # course
    BY <1>2, <1>3, <1>4, <1>7 DEF Found, CourseFor
  <2>3. \/ course = NoRow /\ name # "candlesticks"
        \/ /\ course \in DOMAIN rows /\ course.name = "intro"
           /\ name \in {"candlesticks", "intro-quiz"}
    BY <1>3, <1>4, <1>7 DEF CourseFor
  <2>4. /\ TablesFit' /\ BornGrows
        /\ id \in RowIds /\ ~ IsId(id) /\ IsId(id)' /\ id # NoRow /\ id.name = name
        /\ id \notin DOMAIN rows
        /\ DOMAIN rows' = DOMAIN rows \cup {id} /\ rows'[id] = course
        /\ \A x \in DOMAIN rows : rows'[x] = rows[x]
    <3>1. name \in Names /\ born[name] < MaxRows /\ InsertRow(name, course) /\ TablesFit
      BY <1>1, <1>2, <1>7 DEF SeedShape
    <3>. QED  BY ONLY <2>1, <2>2, <2>3, <3>1, InsertRowFits
  <2>5. [run[p] EXCEPT !.inserted = @ + 1] = Counted(run[p], n, m) /\ n \in Nat /\ m \in Nat
    <3>1. Counted(run[p], n, m) = [run[p] EXCEPT !.inserted = n]
      BY <1>1, <2>1 DEF RunStates, Counted
    <3>. QED  BY <1>1, <2>1, <3>1
  <2>6. Become(p, WithRow(Counted(run[p], n, m), Here(p), id)) /\ UNCHANGED torn
    BY <1>7, <2>1, <2>5
  <2>7. SeedShape' /\ OthersStay(p) /\ RowKnown(p, id, n, m)
    BY <1>1, <1>2, <1>5, <2>4, <2>5, <2>6, RowKnownDoes
  <2>8. UNCHANGED <<categories, tags, questions, contentTags, torn>>
    BY <1>7 DEF InsertRow
  <2>9. run[p].step \in {5, 6} => run[p].course \in DOMAIN rows
    BY <1>4, <1>7 DEF CourseFor
  <2>. QED  BY <1>1, <1>2, <1>4, <1>7, <2>1, <2>4, <2>7, <2>8, <2>9
<1>. QED  BY <1>2, <1>6, <1>7 DEF CreateRow

-------------------------------------------------------------------------------
(* What the admins do.                                                         *)

\* No run moves; which are disturbed, and of what, is noted.
LEMMA AdminLeavesRuns ==
    ASSUME SeedShape, TablesFit', BornGrows, NEW gone, AdminActs(gone), gone \subseteq Names,
           edits < MaxEdits, edits' = edits + 1, \A id \in torn' : id \in torn \/ IsId(id)
    PROVE  SeedShape' /\ run' = run /\ overlapped' = overlapped \cup {p \in Runs : Active(p)}
<1>1. run' = run /\ UNCHANGED starts /\ overlapped' = overlapped \cup {p \in Runs : Active(p)}
  BY DEF AdminActs
<1>2. RunsFit'
  <2>1. \A r : IsRun(r) => IsRun(r)'
    BY IdsStay DEF SeedShape, TablesFit
  <2>2. ASSUME NEW q \in Runs, NEW s, s = run[q] PROVE IsRun(s)' /\ Fits(s)
    BY <2>1, <2>2 DEF SeedShape, RunsFit
  <2>3. \A q \in Runs : (IsRun(run[q]) /\ Fits(run[q]))'
    BY <1>1, <2>2
  <2>. QED  BY <1>1, <2>3 DEF SeedShape, RunsFit
<1>3. HistoryFits'
  <2>1. removed' \in [Runs -> SUBSET Names] /\ overlapped' \subseteq Runs
    BY <1>1 DEF AdminActs, SeedShape, HistoryFits
  <2>2. \A id \in torn' : IsId(id)'
    BY IdsStay DEF SeedShape, HistoryFits, TablesFit
  <2>3. edits' \in 0..MaxEdits
    BY BoundsAssumption DEF SeedShape, HistoryFits
  <2>. QED  BY <1>1, <2>1, <2>2, <2>3 DEF SeedShape, HistoryFits
<1>. QED  BY <1>1, <1>2, <1>3 DEF SeedShape

\* A row an admin creates has a new id, and the tables stay well-formed.
LEMMA AdminCreatesFits ==
    ASSUME SeedShape, NEW name \in Names, AdminCreates(name)
    PROVE  /\ TablesFit' /\ BornGrows
           /\ \E id \in RowIds : /\ id.name = name /\ id \notin DOMAIN rows /\ ~ IsId(id)
                                 /\ DOMAIN rows' = DOMAIN rows \cup {id}
                                 /\ \A x \in DOMAIN rows : rows'[x] = rows[x]
                                 /\ rows'[id] # NoRow => name = "candlesticks" /\ rows'[id] \in DOMAIN rows
           /\ UNCHANGED <<categories, tags, questions, contentTags, torn>>
<1>1. PICK course : /\ InsertRow(name, course) /\ born[name] < MaxRows
                    /\ \/ course = NoRow /\ TypeOf[name] # "lesson" /\ Called(name) = {}
                       \/ /\ course \in DOMAIN rows /\ TypeOf[name] = "lesson"
                          /\ TypeOf[course.name] = "course" /\ \A x \in Called(name) : rows[x] # course
  BY DEF AdminCreates
<1>2. TypeOf[name] = "lesson" <=> name = "candlesticks"
  BY NamesAre, Types
<1>3. course \in DOMAIN rows => (TypeOf[course.name] = "course" <=> course.name = "intro")
  BY NamesAre, Types DEF SeedShape, TablesFit, IsId, RowIds
<1>4. PICK id : id = [name |-> name, n |-> born[name] + 1]
  OBVIOUS
<1>5. /\ \/ course = NoRow /\ name # "candlesticks"
         \/ /\ course \in DOMAIN rows /\ course.name = "intro"
            /\ name \in {"candlesticks", "intro-quiz"}
      /\ name # "candlesticks" => Called(name) = {}
      /\ \A x \in Called(name) : rows[x] # course
  BY <1>1, <1>2, <1>3
<1>6. /\ TablesFit' /\ BornGrows
      /\ id \in RowIds /\ ~ IsId(id) /\ IsId(id)' /\ id # NoRow /\ id.name = name
      /\ id \notin DOMAIN rows
      /\ DOMAIN rows' = DOMAIN rows \cup {id} /\ rows'[id] = course
      /\ \A x \in DOMAIN rows : rows'[x] = rows[x]
  <2>1. TablesFit
    BY DEF SeedShape
  <2>. QED  BY ONLY name \in Names, <1>1, <1>4, <1>5, <2>1, InsertRowFits
<1>7. UNCHANGED <<categories, tags, questions, contentTags, torn>>
  BY <1>1 DEF InsertRow, AdminCreates
<1>. QED  BY <1>1, <1>2, <1>6, <1>7

\* An admin leaves every run where it is, and disturbs those that are active.
LEMMA AdminKeepsShape ==
    ASSUME SeedShape, Admin
    PROVE  SeedShape' /\ run' = run /\ overlapped' = overlapped \cup {p \in Runs : Active(p)}
<1>1. edits < MaxEdits /\ edits' = edits + 1
  BY DEF Admin
<1>2. CASE AdminAddsReference
  <2>1. TablesFit' /\ BornGrows
    <3>1. /\ categories' \subseteq Range(CATEGORIES) /\ tags' \subseteq Range(TAGS)
          /\ UNCHANGED <<rows, born>> /\ \A q \in questions' : q \in questions
          /\ \A x \in contentTags' : x \in contentTags
      BY <1>2 DEF AdminAddsReference, SeedShape, TablesFit
    <3>. QED  BY <3>1, AddedFits DEF SeedShape
  <2>2. AdminActs({}) /\ {} \subseteq Names /\ \A id \in torn' : id \in torn \/ IsId(id)
    BY <1>2 DEF AdminAddsReference
  <2>. QED  BY <1>1, <2>1, <2>2, AdminLeavesRuns
<1>3. ASSUME NEW name \in Names, AdminCreates(name)
      PROVE  SeedShape' /\ run' = run /\ overlapped' = overlapped \cup {p \in Runs : Active(p)}
  <2>1. TablesFit' /\ BornGrows
    BY <1>3, AdminCreatesFits
  <2>2. AdminActs({}) /\ {} \subseteq Names /\ \A id \in torn' : id \in torn \/ IsId(id)
    BY <1>3 DEF AdminCreates
  <2>. QED  BY <1>1, <2>1, <2>2, AdminLeavesRuns
<1>4. ASSUME NEW target \in DOMAIN rows, AdminRemoves(target)
      PROVE  SeedShape' /\ run' = run /\ overlapped' = overlapped \cup {p \in Runs : Active(p)}
  <2>1. PICK lost : lost = {target} \cup {x \in DOMAIN rows : rows[x] = target}
    OBVIOUS
  <2>2. /\ rows' = Drop(rows, lost) /\ questions' = {q \in questions : q.quiz \notin lost}
        /\ UNCHANGED <<categories, tags, born, contentTags, torn>> /\ AdminActs({x.name : x \in lost})
    BY <1>4, <2>1 DEF AdminRemoves
  <2>3. TablesFit' /\ BornGrows
    BY <2>1, <2>2, RemoveFits DEF SeedShape
  <2>4. {x.name : x \in lost} \subseteq Names
    BY <2>1 DEF SeedShape, TablesFit, IsId, RowIds
  <2>5. \A id \in torn' : id \in torn \/ IsId(id)
    BY <2>2
  <2>6. PICK gone : gone = {x.name : x \in lost}
    OBVIOUS
  <2>. QED  BY <1>1, <2>2, <2>3, <2>4, <2>5, <2>6, AdminLeavesRuns
<1>5. ASSUME NEW id \in DOMAIN rows, NEW i \in Questions, AdminAddsQuestion(id, i)
      PROVE  SeedShape' /\ run' = run /\ overlapped' = overlapped \cup {p \in Runs : Active(p)}
  <2>1. TablesFit' /\ BornGrows
    <3>1. /\ categories' \subseteq Range(CATEGORIES) /\ tags' \subseteq Range(TAGS)
          /\ UNCHANGED <<rows, born>> /\ \A x \in contentTags' : x \in contentTags
          /\ \A q \in questions' : \/ q \in questions
                                   \/ q.quiz \in DOMAIN rows /\ q.orderIndex \in Questions
      BY <1>5 DEF AdminAddsQuestion, SeedShape, TablesFit
    <3>. QED  BY <3>1, AddedFits DEF SeedShape
  <2>2. AdminActs({}) /\ {} \subseteq Names /\ \A x \in torn' : x \in torn \/ IsId(x)
    BY <1>5 DEF AdminAddsQuestion, SeedShape, TablesFit
  <2>. QED  BY <1>1, <2>1, <2>2, AdminLeavesRuns
<1>6. ASSUME NEW id \in DOMAIN rows, NEW tag \in tags, AdminTags(id, tag)
      PROVE  SeedShape' /\ run' = run /\ overlapped' = overlapped \cup {p \in Runs : Active(p)}
  <2>1. TablesFit' /\ BornGrows
    <3>1. /\ categories' \subseteq Range(CATEGORIES) /\ tags' \subseteq Range(TAGS)
          /\ UNCHANGED <<rows, born>> /\ \A q \in questions' : q \in questions
          /\ \A x \in contentTags' : x \in contentTags \/ IsAttachment(x)
      BY <1>6 DEF AdminTags, SeedShape, TablesFit, IsAttachment
    <3>. QED  BY <3>1, AddedFits DEF SeedShape
  <2>2. AdminActs({}) /\ {} \subseteq Names /\ \A x \in torn' : x \in torn \/ IsId(x)
    BY <1>6 DEF AdminTags
  <2>. QED  BY <1>1, <2>1, <2>2, AdminLeavesRuns
<1>7. ASSUME NEW q \in questions, AdminRemovesQuestion(q)
      PROVE  SeedShape' /\ run' = run /\ overlapped' = overlapped \cup {p \in Runs : Active(p)}
  <2>1. TablesFit' /\ BornGrows
    <3>1. /\ categories' \subseteq Range(CATEGORIES) /\ tags' \subseteq Range(TAGS)
          /\ UNCHANGED <<rows, born>> /\ \A x \in questions' : x \in questions
          /\ \A x \in contentTags' : x \in contentTags
      BY <1>7 DEF AdminRemovesQuestion, SeedShape, TablesFit
    <3>. QED  BY <3>1, AddedFits DEF SeedShape
  <2>2. AdminActs({}) /\ {} \subseteq Names /\ \A x \in torn' : x \in torn \/ IsId(x)
    BY <1>7 DEF AdminRemovesQuestion, SeedShape, TablesFit
  <2>. QED  BY <1>1, <2>1, <2>2, AdminLeavesRuns
<1>8. ASSUME NEW y \in contentTags, AdminUntags(y)
      PROVE  SeedShape' /\ run' = run /\ overlapped' = overlapped \cup {p \in Runs : Active(p)}
  <2>1. TablesFit' /\ BornGrows
    <3>1. /\ categories' \subseteq Range(CATEGORIES) /\ tags' \subseteq Range(TAGS)
          /\ UNCHANGED <<rows, born>> /\ \A q \in questions' : q \in questions
          /\ \A x \in contentTags' : x \in contentTags
      BY <1>8 DEF AdminUntags, SeedShape, TablesFit
    <3>. QED  BY <3>1, AddedFits DEF SeedShape
  <2>2. PICK gone : gone = {y.content.name}
    OBVIOUS
  <2>3. AdminActs(gone) /\ gone \subseteq Names /\ \A x \in torn' : x \in torn \/ IsId(x)
    BY <1>8, <2>2 DEF AdminUntags, SeedShape, TablesFit, IsAttachment, IsId, RowIds
  <2>. QED  BY <1>1, <2>1, <2>3, AdminLeavesRuns
<1>. QED  BY <1>2, <1>3, <1>4, <1>5, <1>6, <1>7, <1>8 DEF Admin

\* At first everything is empty.
LEMMA ShapeInit == SeedInit => SeedShape
<1> SUFFICES ASSUME SeedInit PROVE SeedShape
  OBVIOUS
<1>1. TablesFit
  <2>1. DOMAIN rows = {}
    BY DEF SeedInit, EmptyTable
  <2>2. born \in [Names -> 0..MaxRows]
    BY BoundsAssumption DEF SeedInit
  <2>. QED  BY <2>1, <2>2 DEF SeedInit, TablesFit, NoOrphans, NamesAreUnique
<1>2. HistoryFits
  BY BoundsAssumption DEF SeedInit, HistoryFits
<1>3. RunsFit
  <2>1. RunTyped(NotStarted) /\ Fits(NotStarted) /\ NotStarted.row = NoRow /\ NotStarted.course = NoRow
    <3>1. NotStarted \in [at : Over, step : {1}, todo : {{}}, row : {NoRow}, course : {NoRow},
                          inserted : Nat, skipped : Nat, fresh : BOOLEAN]
      BY DEF NotStarted, Over
    <3>. QED  BY <3>1, EndedFits
  <2>2. IsRun(NotStarted)
    BY <2>1 DEF IsRun, RunTyped, IsIdOrNull
  <2>. QED  BY <2>1, <2>2 DEF SeedInit, RunsFit
<1>. QED  BY <1>1, <1>2, <1>3 DEF SeedShape

\* Every step keeps the shape of tables, runs and history.
LEMMA ShapeStep == SeedShape /\ [SeedNext]_seedVars => SeedShape'
<1> SUFFICES ASSUME SeedShape, [SeedNext]_seedVars PROVE SeedShape'
  OBVIOUS
<1>1. CASE UNCHANGED seedVars
  BY <1>1, QuietTables
     DEF seedVars, tables, SeedShape, HistoryFits, RunsFit, IsRun, IsIdOrNull, IsId
<1>2. CASE Admin
  BY <1>2, AdminKeepsShape
<1>3. ASSUME NEW p \in Runs, SeedStep(p) PROVE SeedShape'
  BY <1>3, StartDoes, ListReferenceDoes, CreateReferenceDoes, LookForRowDoes, CreateRowDoes,
     ListTagsDoes, AttachDoes, ListQuestionsDoes, CreateQuestionDoes, StopDoes DEF SeedStep
<1>. QED  BY <1>1, <1>2, <1>3 DEF SeedNext

\* What the seed and the admins leave in the tables is well-formed at every moment: nothing
\* outlives what it belongs to, and no two rows share a slug.
THEOREM SeedInvariance == SeedSpec => []SeedInv
<1>1. SeedSpec => []SeedShape
  BY ShapeInit, ShapeStep, PTL DEF SeedSpec
<1>. QED  BY <1>1, SeedShapeSeedInv, PTL

-------------------------------------------------------------------------------
(* What a run has done is done.                                                *)

\* Run p has gone past item i.
Passed(p, i) == run[p].at = "done" \/ (run[p].at \in RunPhases /\ i < run[p].step)

\* A quiz that has all its questions, or about which something is noted.
QuizSettled(id) ==
    HasQuestions(id) \/ id \in torn \/ \E q \in Runs : Active(q) /\ Halfway(q) = {id}
QuizzesSettled ==
    \A id \in DOMAIN rows :
        id.name = "intro-quiz" => QuestionsIn(id) = {} \/ QuizSettled(id)

\* Item i is there, but for what admins removed while p ran.
KeptItem(p, i) ==
    /\ i = 1 => categories = Range(CATEGORIES)
    /\ i = 2 => tags = Range(TAGS)
    /\ i \in {3, 4, 5, 6, 8} /\ Work[i].slug \notin removed[p] => HasRow(Work[i]) /\ HasTags(Work[i])
    /\ i = 7 /\ "intro-quiz" \notin removed[p] => \A id \in Called("intro-quiz") : QuizSettled(id)
\* So is the row whose tags or questions p writes, and the questions it wrote.
HeldKept(p) ==
    HoldsRow(run[p]) /\ run[p].row.name \notin removed[p] => run[p].row \in DOMAIN rows
WrittenKept(p) ==
    run[p].at = "write" /\ run[p].step = 7 =>
        \A i \in {1, 2} \ run[p].todo :
            \/ Here(p).list[i] \in QuestionsIn(run[p].row)
            \/ run[p].row \in torn \/ run[p].row \notin DOMAIN rows
Kept(p) == (\A i \in 1..8 : Passed(p, i) => KeptItem(p, i)) /\ HeldKept(p) /\ WrittenKept(p)

KeptInv == SeedShape /\ QuizzesSettled /\ \A p \in Runs : Kept(p)

\* A run that is past every entry has left every entry.
LEMMA KeptInvFinished == KeptInv => FinishedMeansSeeded
<1> SUFFICES ASSUME KeptInv, NEW p \in Runs, run[p].at = "done"
             PROVE  /\ categories = Range(CATEGORIES) /\ tags = Range(TAGS)
                    /\ \A item \in RowItems :
                          item.slug \notin removed[p] =>
                              /\ HasRow(item) /\ HasTags(item)
                              /\ item.type = "quiz" =>
                                    \A id \in Called(item.slug) : QuizSettled(id)
  BY Zenon DEF FinishedMeansSeeded, QuizSettled
<1>1. \A i \in 1..8 : KeptItem(p, i)
  BY DEF KeptInv, Kept, Passed
<1>2. categories = Range(CATEGORIES) /\ tags = Range(TAGS)
  BY <1>1 DEF KeptItem
<1>3. ASSUME NEW i \in {3, 4, 5, 6, 8}, Work[i].slug \notin removed[p]
      PROVE  /\ HasRow(Work[i]) /\ HasTags(Work[i])
             /\ Work[i].type = "quiz" => \A id \in Called(Work[i].slug) : QuizSettled(id)
  <2>1. HasRow(Work[i]) /\ HasTags(Work[i])
    BY <1>1, <1>3 DEF KeptItem
  <2>2. Work[i].type = "quiz" => Work[i].slug = "intro-quiz"
    BY WorkIs
  <2>3. "intro-quiz" \notin removed[p] => \A id \in Called("intro-quiz") : QuizSettled(id)
    BY <1>1 DEF KeptItem
  <2>. QED  BY <1>3, <2>1, <2>2, <2>3
<1>. QED  BY <1>2, <1>3, RowItemsAre

\* Only lessons share a name.
UniqueNames ==
    \A x, y \in DOMAIN rows : x.name = y.name /\ x.name # "candlesticks" => x = y
\* In tables of that shape no two rows share a slug.
LEMMA UniqueNow == SeedShape => UniqueNames
<1> SUFFICES ASSUME SeedShape, NEW x \in DOMAIN rows, NEW y \in DOMAIN rows,
                    x.name = y.name, x.name # "candlesticks", x # y
             PROVE  FALSE
  BY DEF UniqueNames
<1>1. y \in Called(x.name) \ {x}
  BY DEF Called
<1>2. TypeOf[x.name] = "lesson"
  BY <1>1 DEF SeedShape, TablesFit, NamesAreUnique
<1>3. x.name \in Names
  BY DEF SeedShape, TablesFit, IsId, RowIds
<1>. QED  BY <1>2, <1>3, NamesAre, Types
\* The same, after a step.
LEMMA UniqueNext == SeedShape' => UniqueNames'
<1> SUFFICES ASSUME SeedShape', NEW x \in DOMAIN rows', NEW y \in DOMAIN rows',
                    x.name = y.name, x.name # "candlesticks", x # y
             PROVE  FALSE
  BY DEF UniqueNames
<1>1. y \in Called(x.name)' \ {x}
  BY DEF Called
<1>2. TypeOf[x.name] = "lesson"
  BY <1>1 DEF SeedShape, TablesFit, NamesAreUnique
<1>3. x.name \in Names
  BY DEF SeedShape, TablesFit, IsId, RowIds
<1>. QED  BY <1>2, <1>3, NamesAre, Types

\* What a step does to what is there: nothing goes but under the names in gone, and a question
\* that goes, without its quiz, is noted.
Changes(gone) ==
    /\ categories \subseteq categories' /\ tags \subseteq tags' /\ torn \subseteq torn'
    /\ \A id \in DOMAIN rows :
          \/ id \in DOMAIN rows' /\ rows'[id] = rows[id]
          \/ id \notin DOMAIN rows' /\ id.name \in gone
    /\ \A id \in DOMAIN rows' \ DOMAIN rows : ~ IsId(id)
    /\ \A x \in contentTags : x \in contentTags' \/ x.content.name \in gone
    /\ \A q \in questions : q \in questions' \/ q.quiz \in torn' \/ q.quiz \notin DOMAIN rows'

SettledStays == \A id \in DOMAIN rows' : QuizSettled(id) => QuizSettled(id)'

\* Questions of a quiz that is not torn stay.
LEMMA QuestionsStay ==
    ASSUME NEW gone, Changes(gone), NEW id, id \in DOMAIN rows'
    PROVE  id \in torn' \/ QuestionsIn(id) \subseteq QuestionsIn(id)'
  BY DEF Changes, QuestionsIn

\* Tags of a row whose slug nobody takes away stay.
LEMMA TagsStay ==
    ASSUME NEW gone, Changes(gone), NEW id, id.name \notin gone
    PROVE  TagsOf(id) \subseteq TagsOf(id)'
  BY DEF Changes, TagsOf

\* An entry that a run has left stays left, but for what an admin takes.
LEMMA ItemStays ==
    ASSUME SeedShape, SeedShape', NEW gone, Changes(gone), SettledStays,
           NEW q \in Runs, NEW i \in 1..8, removed[q] \cup gone \subseteq removed'[q],
           KeptItem(q, i), i = 7 => KeptItem(q, 6)
    PROVE  KeptItem(q, i)'
<1>1. categories' \subseteq Range(CATEGORIES) /\ tags' \subseteq Range(TAGS)
  BY DEF SeedShape, TablesFit
<1>2. (i = 1 => categories' = Range(CATEGORIES)) /\ (i = 2 => tags' = Range(TAGS))
  BY <1>1 DEF KeptItem, Changes
<1>3. ASSUME NEW name, name \notin removed'[q], NEW id \in DOMAIN rows, id.name = name
      PROVE  id \in DOMAIN rows'
  BY <1>3 DEF Changes
<1>4. ASSUME i \in {3, 4, 5, 6, 8}, Work[i].slug \notin removed'[q]
      PROVE  HasRow(Work[i])' /\ HasTags(Work[i])'
  <2>1. HasRow(Work[i]) /\ HasTags(Work[i])
    BY <1>4 DEF KeptItem
  <2>2. PICK id \in DOMAIN rows : id.name = Work[i].slug
    BY <2>1 DEF HasRow, Called
  <2>3. id \in DOMAIN rows' /\ id.name \notin gone
    BY <1>3, <1>4, <2>2
  <2>4. HasRow(Work[i])'
    BY <2>2, <2>3 DEF HasRow, Called
  <2>5. HasTags(Work[i])'
    <3>1. CASE i \in {5, 6, 8}
      <4>1. Range(Work[i].list) = {}
        BY <3>1, WorkIs, ListsAre
      <4>. QED  BY <4>1 DEF HasTags
    <3>2. CASE i \in {3, 4}
      <4>1. Work[i].slug # "candlesticks"
        BY <3>2, WorkIs
      <4>2. ASSUME NEW x \in Called(Work[i].slug)' PROVE x = id
        BY <2>2, <2>3, <4>1, <4>2, UniqueNext DEF UniqueNames, Called
      <4>3. Range(Work[i].list) \subseteq TagsOf(id)
        BY <2>1, <2>2 DEF HasTags, Called
      <4>4. Range(Work[i].list) \subseteq TagsOf(id)'
        BY <2>3, <4>3, TagsStay
      <4>. QED  BY <4>2, <4>4 DEF HasTags
    <3>. QED  BY <1>4, <3>1, <3>2
  <2>. QED  BY <2>4, <2>5
<1>5. ASSUME i = 7, "intro-quiz" \notin removed'[q], NEW y \in Called("intro-quiz")'
      PROVE  QuizSettled(y)'
  <2>1. KeptItem(q, 6) /\ "intro-quiz" \notin removed[q] /\ Work[6].slug = "intro-quiz"
    BY <1>5, WorkIs
  <2>2. PICK id \in DOMAIN rows : id.name = "intro-quiz"
    BY <2>1 DEF KeptItem, HasRow, Called
  <2>3. id \in DOMAIN rows'
    BY <1>3, <1>5, <2>2
  <2>4. y = id
    BY <1>5, <2>2, <2>3, UniqueNext DEF UniqueNames, Called
  <2>5. QuizSettled(id)
    BY <1>5, <2>1, <2>2 DEF KeptItem, Called
  <2>. QED  BY <2>3, <2>4, <2>5 DEF SettledStays
<1>. QED  BY <1>2, <1>4, <1>5 DEF KeptItem

\* A run that is where it was keeps what it had.
LEMMA KeptStays ==
    ASSUME SeedShape, SeedShape', NEW gone, Changes(gone), SettledStays,
           NEW q \in Runs, Kept(q), run'[q] = run[q],
           run[q].at \in {"idle", "failed"} \/ removed[q] \cup gone \subseteq removed'[q]
    PROVE  Kept(q)'
<1>1. CASE run[q].at \in {"idle", "failed"}
  BY <1>1 DEF Kept, Passed, HeldKept, WrittenKept, HoldsRow, RunPhases
<1>2. CASE removed[q] \cup gone \subseteq removed'[q]
  <2>1. \A i \in 1..8 : Passed(q, i)' => KeptItem(q, i)'
    <3> SUFFICES ASSUME NEW i \in 1..8, Passed(q, i)' PROVE KeptItem(q, i)'
      OBVIOUS
    <3>1. Passed(q, i) /\ (i = 7 => Passed(q, 6))
      BY RunAt DEF Passed
    <3>2. KeptItem(q, i) /\ (i = 7 => KeptItem(q, 6))
      BY <3>1 DEF Kept
    <3>. QED  BY <1>2, <3>2, ItemStays
  <2>2. HeldKept(q)'
    BY <1>2 DEF Kept, HeldKept, Changes
  <2>3. WrittenKept(q)'
    <3> SUFFICES ASSUME run[q].at = "write", run[q].step = 7, NEW i \in {1, 2} \ run[q].todo,
                        run[q].row \in DOMAIN rows'
                 PROVE  Work[7].list[i] \in QuestionsIn(run[q].row)' \/ run[q].row \in torn'
      BY DEF WrittenKept, Here
    <3>1. PICK id : id = run[q].row
      OBVIOUS
    <3>2. IsId(id)
      BY <3>1, RunAt DEF Fits, HoldsRow, RunPhases, IsIdOrNull
    <3>3. id \in DOMAIN rows
      BY <3>1, <3>2 DEF Changes
    <3>4. Work[7].list[i] \in QuestionsIn(id) \/ id \in torn
      BY <3>1, <3>3 DEF Kept, WrittenKept, Here
    <3>5. id \in torn' \/ QuestionsIn(id) \subseteq QuestionsIn(id)'
      BY <3>1, QuestionsStay
    <3>6. id \in torn => id \in torn'
      BY DEF Changes
    <3>7. Work[7].list[i] \in QuestionsIn(id)' \/ id \in torn'
      BY <3>4, <3>5, <3>6
    <3>8. QuestionsIn(run[q].row)' = QuestionsIn(id)'
      BY <3>1 DEF QuestionsIn
    <3>. QED  BY <3>1, <3>7, <3>8 DEF QuestionsIn
  <2>. QED  BY <2>1, <2>2, <2>3 DEF Kept
<1>. QED  BY <1>1, <1>2

\* Run q stays where it is, or settles what it had halfway.
SettlesIts(q) ==
    \/ run'[q] = run[q]
    \/ Active(q) => \A id \in Halfway(q) : id \in DOMAIN rows' => QuizSettled(id)'

\* What is settled stays so when the runs that move settle what they had halfway.
LEMMA SettledByStep ==
    ASSUME SeedShape, SeedShape', NEW gone, Changes(gone),
           \A q \in Runs : SettlesIts(q)
    PROVE  SettledStays
<1> SUFFICES ASSUME NEW id \in DOMAIN rows', QuizSettled(id) PROVE QuizSettled(id)'
  BY DEF SettledStays
<1>1. CASE HasQuestions(id)
  <2>1. id \in torn' \/ QuestionsIn(id) \subseteq QuestionsIn(id)'
    BY QuestionsStay
  <2>. QED  BY <1>1, <2>1 DEF QuizSettled, HasQuestions
<1>2. CASE id \in torn
  BY <1>2 DEF Changes, QuizSettled
<1>3. ASSUME NEW q \in Runs, Active(q), Halfway(q) = {id} PROVE QuizSettled(id)'
  <2>0. SettlesIts(q)
    OBVIOUS
  <2>1. CASE \A x \in Halfway(q) : x \in DOMAIN rows' => QuizSettled(x)'
    BY <1>3, <2>1
  <2>2. CASE run'[q] = run[q]
    <3>1. Active(q)' /\ Halfway(q)' = Halfway(q)
      BY <1>3, <2>2 DEF Active, Halfway, Here
    <3>. QED  BY <1>3, <3>1 DEF QuizSettled
  <2>. QED  BY <1>3, <2>0, <2>1, <2>2 DEF SettlesIts
<1>. QED  BY <1>1, <1>2, <1>3 DEF QuizSettled

\* A quiz whose questions are as they were, and a new one, is settled if it was or has none.
LEMMA QuizzesStay ==
    ASSUME SeedShape, SeedShape', NEW gone, Changes(gone), SettledStays, QuizzesSettled,
           \A q \in questions' : q \in questions \/ q.quiz \in torn'
    PROVE  QuizzesSettled'
<1> SUFFICES ASSUME NEW id \in DOMAIN rows', id.name = "intro-quiz"
             PROVE  QuestionsIn(id)' = {} \/ QuizSettled(id)'
  BY DEF QuizzesSettled
<1>1. CASE id \in torn'
  BY <1>1 DEF QuizSettled
<1>2. CASE id \notin torn' /\ id \in DOMAIN rows
  <2>1. QuestionsIn(id) = {} => QuestionsIn(id)' = {}
    BY <1>2 DEF QuestionsIn
  <2>2. QuestionsIn(id) = {} \/ QuizSettled(id)
    BY <1>2 DEF QuizzesSettled
  <2>. QED  BY <2>1, <2>2 DEF SettledStays
<1>3. CASE id \notin torn' /\ id \notin DOMAIN rows
  <2>1. ~ IsId(id)
    BY <1>3 DEF Changes
  <2>2. \A q \in questions : q.quiz # id
    BY <2>1 DEF SeedShape, TablesFit
  <2>. QED  BY <1>3, <2>2 DEF QuestionsIn
<1>. QED  BY <1>1, <1>2, <1>3

\* A run that goes on with the same item, or past it, keeps what it had.
LEMMA GoesKept ==
    ASSUME SeedShape, SeedShape', Changes({}), SettledStays,
           NEW p \in Runs, Kept(p), removed'[p] = removed[p],
           NEW step, step \in 1..8,
           \A i \in 1..8 : Passed(p, i)' => Passed(p, i) \/ (i = step /\ KeptItem(p, i)'),
           HeldKept(p)', WrittenKept(p)'
    PROVE  Kept(p)'
<1> SUFFICES ASSUME NEW i \in 1..8, Passed(p, i)' PROVE KeptItem(p, i)'
  BY DEF Kept
<1>1. CASE Passed(p, i)
  <2>1. i = 7 => Passed(p, 6)
    BY <1>1, RunAt DEF Passed
  <2>2. KeptItem(p, i) /\ (i = 7 => KeptItem(p, 6))
    BY <1>1, <2>1 DEF Kept
  <2>3. removed[p] \cup {} \subseteq removed'[p]
    OBVIOUS
  <2>. QED  BY <2>2, <2>3, ItemStays
<1>2. CASE ~ Passed(p, i)
  BY <1>2
<1>. QED  BY <1>1, <1>2

\* A run that starts, stops or fails has nothing yet, or nothing more.
LEMMA NothingKept ==
    ASSUME SeedShape', NEW p \in Runs,
           run'[p].at \in {"idle", "failed"} \/ (run'[p].at = "look" /\ run'[p].step = 1)
    PROVE  Kept(p)'
<1>1. \A i \in 1..8 : ~ Passed(p, i)'
  BY DEF Passed, RunPhases
<1>2. ~ HoldsRow(run'[p])
  BY DEF HoldsRow, RunPhases
<1>3. run'[p].at # "write"
  OBVIOUS
<1>. QED  BY <1>1, <1>2, <1>3 DEF Kept, HeldKept, WrittenKept

\* On with the list of an item.
LEMMA OnToKept ==
    ASSUME SeedShape, SeedShape', Changes({}), SettledStays,
           NEW p \in Runs, Active(p), Kept(p), removed'[p] = removed[p],
           run[p].at \in {"listTags", "write"} \/ (run[p].at = "look" /\ Here(p).kind # "row"),
           NEW step, step = run[p].step,
           NEW inserted, NEW skipped, NEW todo, OnTo(p, inserted, skipped, todo),
           todo = {} => KeptItem(p, step)', WrittenKept(p)'
    PROVE  Kept(p)'
<1>1. /\ step \in 1..8 /\ run[p].at \in RunPhases
      /\ Here(p).kind = "row" <=> step \in {3, 4, 5, 6, 8}
  BY RunAt
<1>2. HoldsRow(run[p]) \/ step \in {1, 2}
  BY <1>1 DEF HoldsRow, Here
<1>3. step \notin {5, 6, 8}
  <2>1. run[p].at = "listTags" => Work[step].list # <<>>
    BY RunAt DEF Fits
  <2>2. run[p].at = "write" => run[p].todo # {} /\ run[p].todo \subseteq DOMAIN Here(p).list
    BY RunAt, ListsHere DEF Fits
  <2>3. step \in {5, 6, 8} => DOMAIN Here(p).list = {} /\ Here(p).list = <<>>
    BY ListsHere
  <2>. QED  BY <1>1, <2>1, <2>2, <2>3 DEF Here
<1>4. CASE todo # {}
  <2>1. /\ run'[p].at = "write" /\ run'[p].step = step /\ run'[p].row = run[p].row
    BY <1>4 DEF OnTo
  <2>2. \A i \in 1..8 : Passed(p, i)' => Passed(p, i)
    BY <1>1, <2>1 DEF Passed
  <2>3. HoldsRow(run'[p]) => HoldsRow(run[p])
    BY <1>1, <1>2, <2>1, WorkIs DEF HoldsRow
  <2>4. HeldKept(p)'
    BY <2>1, <2>3 DEF Kept, HeldKept, Changes
  <2>. QED  BY <1>1, <2>2, <2>4, GoesKept
<1>5. CASE todo = {}
  <2>1. run'[p].at = "look" /\ run'[p].step = step + 1
    BY <1>3, <1>5 DEF OnTo
  <2>2. ASSUME NEW i \in 1..8, Passed(p, i)' PROVE Passed(p, i) \/ i = step
    BY <1>1, <2>1, <2>2 DEF Passed
  <2>3. ~ HoldsRow(run'[p])
    BY <1>1, <1>3, <2>1 DEF HoldsRow
  <2>4. HeldKept(p)'
    BY <2>3 DEF HeldKept
  <2>5. \A i \in 1..8 : Passed(p, i)' => Passed(p, i) \/ (i = step /\ KeptItem(p, i)')
    BY <1>5, <2>2
  <2>. QED  BY <1>1, <2>4, <2>5, GoesKept
<1>. QED  BY <1>4, <1>5

\* On with the tags of a row, or past an item that has none.
LEMMA RowKnownKept ==
    ASSUME SeedShape, SeedShape', Changes({}), SettledStays,
           NEW p \in Runs, Active(p), Kept(p), removed'[p] = removed[p],
           Here(p).kind = "row", NEW id, id \in DOMAIN rows', id.name = Here(p).slug,
           NEW inserted, NEW skipped, RowKnown(p, id, inserted, skipped)
    PROVE  Kept(p)'
<1>1. PICK step : step = run[p].step
  OBVIOUS
<1>2. step \in {3, 4, 5, 6, 8} /\ run[p].at \in RunPhases /\ Here(p) = Work[step]
  BY <1>1, RunAt DEF Here
<1>3. CASE step \in {3, 4}
  <2>1. run'[p].at = "listTags" /\ run'[p].step = step /\ run'[p].row = id
    BY <1>1, <1>3 DEF RowKnown
  <2>2. \A i \in 1..8 : Passed(p, i)' => Passed(p, i)
    BY <1>1, <1>2, <2>1 DEF Passed
  <2>3. HeldKept(p)' /\ WrittenKept(p)'
    BY <2>1 DEF HeldKept, WrittenKept
  <2>. QED  BY <1>2, <2>2, <2>3, GoesKept
<1>4. CASE step \in {5, 6, 8}
  <2>1. \/ step = 8 /\ run'[p].at = "done"
        \/ step \in {5, 6} /\ run'[p].at = "look" /\ run'[p].step = step + 1 /\ run'[p].row = id
    BY <1>1, <1>4 DEF RowKnown
  <2>2. ASSUME NEW i \in 1..8, Passed(p, i)' PROVE Passed(p, i) \/ i = step
    BY <1>1, <1>2, <2>1, <2>2 DEF Passed
  <2>3. KeptItem(p, step)'
    <3>1. HasRow(Work[step])'
      BY <1>2 DEF HasRow, Called
    <3>2. Range(Work[step].list) = {}
      BY <1>4, WorkIs, ListsAre
    <3>. QED  BY <1>4, <3>1, <3>2 DEF KeptItem, HasTags
  <2>4. HeldKept(p)' /\ WrittenKept(p)'
    BY <2>1 DEF HeldKept, WrittenKept, HoldsRow, RunPhases
  <2>5. \A i \in 1..8 : Passed(p, i)' => Passed(p, i) \/ (i = step /\ KeptItem(p, i)')
    BY <2>2, <2>3
  <2>. QED  BY <1>2, <2>4, <2>5, GoesKept
<1>. QED  BY <1>2, <1>3, <1>4

\* Tables that do not change lose nothing.
LEMMA QuietChanges ==
    ASSUME UNCHANGED tables, torn \subseteq torn'
    PROVE  Changes({}) /\ \A q \in questions' : q \in questions
  BY DEF tables, Changes

\* A step of a run that leaves the questions alone, and was not writing any.
LEMMA StepKept ==
    ASSUME KeptInv, SeedShape', Changes({}), \A q \in questions' : q \in questions,
           NEW p \in Runs, OthersStay(p), \A q \in Runs \ {p} : removed'[q] = removed[q],
           Active(p) => Halfway(p) \subseteq torn',
           SettledStays => Kept(p)'
    PROVE  KeptInv'
<1>1. SettledStays
  <2>1. \A q \in Runs : SettlesIts(q)
    BY DEF OthersStay, QuizSettled, SettlesIts
  <2>2. PICK gone : Changes(gone)
    OBVIOUS
  <2>3. SeedShape
    BY DEF KeptInv
  <2>. QED  BY <2>1, <2>2, <2>3, SettledByStep
<1>2. QuizzesSettled'
  BY <1>1, QuizzesStay DEF KeptInv
<1>3. ASSUME NEW q \in Runs \ {p} PROVE Kept(q)'
  <2>1. run'[q] = run[q] /\ removed[q] \cup {} \subseteq removed'[q] /\ q \in Runs
    BY DEF OthersStay
  <2>. QED  BY <1>1, <2>1, KeptStays DEF KeptInv
<1>. QED  BY <1>1, <1>2, <1>3 DEF KeptInv

\* A run that does not insert questions is halfway in no quiz.
LEMMA NotHalfway ==
    ASSUME SeedShape, NEW p \in Runs, Active(p), run[p].at # "write" \/ run[p].step # 7
    PROVE  Halfway(p) = {}
  BY HalfwayIs

\* A run that starts is past no entry.
LEMMA StartKept ==
    ASSUME KeptInv, NEW p \in Runs, Start(p)
    PROVE  KeptInv'
<1>1. /\ SeedShape' /\ OthersStay(p) /\ run'[p].at = "look" /\ run'[p].step = 1
  BY StartDoes DEF KeptInv, OthersStay
<1>2. /\ UNCHANGED tables /\ torn \subseteq torn' /\ ~ Active(p)
      /\ \A q \in Runs \ {p} : removed'[q] = removed[q]
  BY DEF Start, KeptInv, SeedShape, HistoryFits
<1>3. Kept(p)'
  BY <1>1, NothingKept
<1>. QED  BY <1>1, <1>2, <1>3, QuietChanges, StepKept

\* A run that is stopped is past no entry, and a quiz it was halfway in is torn.
LEMMA StopKept ==
    ASSUME KeptInv, NEW p \in Runs, Stop(p)
    PROVE  KeptInv'
<1>1. SeedShape' /\ OthersStay(p) /\ run'[p].at = "idle"
  BY StopDoes DEF KeptInv, OthersStay, NotStarted
<1>2. /\ UNCHANGED tables /\ torn \subseteq torn' /\ Halfway(p) \subseteq torn'
      /\ \A q \in Runs \ {p} : removed'[q] = removed[q]
  BY DEF Stop, KeptInv, SeedShape, HistoryFits
<1>3. Kept(p)'
  BY <1>1, NothingKept
<1>. QED  BY <1>1, <1>2, <1>3, QuietChanges, StepKept

\* A run that fails is past no entry, and a quiz it was halfway in is torn.
LEMMA FailKept ==
    ASSUME KeptInv, SeedShape', NEW p \in Runs, OthersStay(p), UNCHANGED <<tables, removed>>,
           run'[p] = [NotStarted EXCEPT !.at = "failed"], torn' = torn \cup Halfway(p)
    PROVE  KeptInv'
<1>1. run'[p].at = "failed"
  BY DEF NotStarted
<1>2. Kept(p)'
  BY <1>1, NothingKept
<1>. QED  BY <1>2, QuietChanges, StepKept

\* What a run found of categories and tags is there.
LEMMA ListReferenceKept ==
    ASSUME KeptInv, NEW p \in Runs, ListReference(p)
    PROVE  KeptInv'
<1>1. /\ Active(p) /\ Here(p).kind # "row" /\ UNCHANGED <<tables, removed, torn>>
  BY DEF ListReference, At
<1>2. PICK step : step = run[p].step
  OBVIOUS
<1>3. /\ SeedShape' /\ OthersStay(p) /\ step \in {1, 2} /\ run[p].at = "look"
      /\ \/ /\ Here(p).list[1] \in (IF step = 1 THEN categories ELSE tags)
            /\ OnTo(p, run[p].inserted, run[p].skipped + 1, {})
         \/ OnTo(p, run[p].inserted, run[p].skipped, {1})
  BY <1>2, ListReferenceDoes DEF KeptInv
<1>4. PICK inserted, skipped, todo :
         /\ OnTo(p, inserted, skipped, todo) /\ todo \in {{}, {1}}
         /\ todo = {} => Here(p).list[1] \in (IF step = 1 THEN categories ELSE tags)
  BY <1>3
<1>5. todo = {} => KeptItem(p, step)'
  <2>1. /\ step = 1 => Here(p).list[1] = "technical-analysis"
        /\ step = 2 => Here(p).list[1] = "charting"
        /\ categories' \subseteq {"technical-analysis"} /\ tags' \subseteq {"charting"}
        /\ categories' = categories /\ tags' = tags
    BY <1>1, <1>2, <1>3, ListsHere, ListsAre DEF KeptInv, SeedShape, TablesFit, tables
  <2> SUFFICES ASSUME todo = {} PROVE KeptItem(p, step)'
    OBVIOUS
  <2>2. CASE step = 1
    <3>1. "technical-analysis" \in categories'
      BY <1>4, <2>1, <2>2
    <3>2. categories' = {"technical-analysis"}
      BY <2>1, <3>1
    <3>. QED  BY <2>2, <3>2, ListsAre DEF KeptItem
  <2>3. CASE step = 2
    <3>1. "charting" \in tags'
      BY <1>4, <2>1, <2>3
    <3>2. tags' = {"charting"}
      BY <2>1, <3>1
    <3>. QED  BY <2>3, <3>2, ListsAre DEF KeptItem
  <2>. QED  BY <1>3, <2>2, <2>3
<1>6. WrittenKept(p)'
  <2>1. run'[p].at # "write" \/ run'[p].step # 7
    BY <1>2, <1>3, <1>4 DEF OnTo
  <2>. QED  BY <2>1 DEF WrittenKept
<1>7. Changes({}) /\ \A q \in questions' : q \in questions
  BY <1>1, QuietChanges
<1>8. SettledStays => Kept(p)'
  BY <1>1, <1>2, <1>3, <1>4, <1>5, <1>6, <1>7, OnToKept DEF KeptInv
<1>9. Halfway(p) = {}
  BY <1>1, <1>3, NotHalfway DEF KeptInv
<1>. QED  BY <1>1, <1>3, <1>7, <1>8, <1>9, StepKept

\* What a run created of categories and tags is there.
LEMMA CreateReferenceKept ==
    ASSUME KeptInv, NEW p \in Runs, CreateReference(p)
    PROVE  KeptInv'
<1>1. Active(p) /\ UNCHANGED removed
  BY DEF CreateReference, At
<1>2. PICK step : step = run[p].step
  OBVIOUS
<1>3. /\ SeedShape' /\ OthersStay(p) /\ step \in {1, 2} /\ run[p].at = "write"
      /\ \/ /\ run'[p] = [NotStarted EXCEPT !.at = "failed"]
            /\ UNCHANGED tables /\ torn' = torn \cup Halfway(p)
         \/ /\ OnTo(p, run[p].inserted + 1, run[p].skipped, {})
            /\ UNCHANGED <<rows, born, questions, contentTags, torn>>
            /\ \/ /\ step = 1 /\ UNCHANGED tags
                  /\ categories' = categories \cup {Here(p).list[1]}
               \/ /\ step = 2 /\ UNCHANGED categories
                  /\ tags' = tags \cup {Here(p).list[1]}
  BY <1>2, CreateReferenceDoes DEF KeptInv
<1>4. CASE /\ OnTo(p, run[p].inserted + 1, run[p].skipped, {})
           /\ UNCHANGED <<rows, born, questions, contentTags, torn>>
           /\ \/ /\ step = 1 /\ UNCHANGED tags
                 /\ categories' = categories \cup {Here(p).list[1]}
              \/ /\ step = 2 /\ UNCHANGED categories
                 /\ tags' = tags \cup {Here(p).list[1]}
  <2>1. KeptItem(p, step)'
    <3>1. /\ step = 1 => Here(p).list[1] = "technical-analysis"
          /\ step = 2 => Here(p).list[1] = "charting"
          /\ categories' \subseteq {"technical-analysis"} /\ tags' \subseteq {"charting"}
      BY <1>2, <1>3, ListsHere, ListsAre DEF KeptInv, SeedShape, TablesFit
    <3>. QED  BY <1>3, <1>4, <3>1, ListsAre DEF KeptItem
  <2>2. run'[p].at # "write"
    BY <1>2, <1>3, <1>4 DEF OnTo
  <2>3. WrittenKept(p)'
    BY <2>2 DEF WrittenKept
  <2>4. Changes({}) /\ \A q \in questions' : q \in questions
    BY <1>4 DEF Changes
  <2>5. PICK inserted, skipped, todo : OnTo(p, inserted, skipped, todo) /\ todo = {}
    BY <1>4
  <2>6. SettledStays => Kept(p)'
    BY <1>1, <1>2, <1>3, <2>1, <2>3, <2>4, <2>5, OnToKept DEF KeptInv
  <2>7. Halfway(p) = {}
    BY <1>1, <1>2, <1>3, NotHalfway DEF KeptInv
  <2>. QED  BY <1>1, <1>3, <2>4, <2>6, <2>7, StepKept
<1>. QED  BY <1>1, <1>3, <1>4, FailKept

\* The row a run found is there.
LEMMA LookForRowKept ==
    ASSUME KeptInv, NEW p \in Runs, LookForRow(p)
    PROVE  KeptInv'
<1>1. /\ Active(p) /\ Here(p).kind = "row" /\ UNCHANGED <<tables, removed, torn>>
  BY DEF LookForRow, At
<1>2. /\ SeedShape' /\ OthersStay(p)
      /\ run[p].at = "look" /\ run[p].step \in {3, 4, 5, 6, 8}
      /\ \/ Found(p) = {} /\ run'[p] = [run[p] EXCEPT !.at = "create"]
         \/ \E id \in Found(p) : RowKnown(p, id, run[p].inserted, run[p].skipped + 1)
  BY LookForRowDoes DEF KeptInv
<1>3. Changes({}) /\ \A q \in questions' : q \in questions
  BY <1>1, QuietChanges
<1>4. ASSUME SettledStays PROVE Kept(p)'
  <2>1. CASE run'[p] = [run[p] EXCEPT !.at = "create"]
    <3>1. run'[p].at = "create" /\ run'[p].step = run[p].step /\ run[p].at \in RunPhases
      BY <1>1, <2>1, RunAt DEF KeptInv, RunTyped, RunStates
    <3>2. \A i \in 1..8 : Passed(p, i)' => Passed(p, i)
      BY <3>1 DEF Passed
    <3>3. HeldKept(p)' /\ WrittenKept(p)'
      BY <1>2, <3>1 DEF HeldKept, WrittenKept, HoldsRow
    <3>4. removed'[p] = removed[p] /\ 1 \in 1..8
      BY <1>1
    <3>. QED  BY <1>2, <1>3, <1>4, <3>2, <3>3, <3>4, GoesKept DEF KeptInv
  <2>2. CASE \E id \in Found(p) : RowKnown(p, id, run[p].inserted, run[p].skipped + 1)
    <3>1. PICK id, inserted, skipped : id \in Found(p) /\ RowKnown(p, id, inserted, skipped)
      BY <2>2
    <3>2. id \in DOMAIN rows' /\ id.name = Here(p).slug
      BY <1>1, <3>1 DEF Found, Called, tables
    <3>. QED  BY <1>1, <1>2, <1>3, <1>4, <3>1, <3>2, RowKnownKept DEF KeptInv
  <2>. QED  BY <1>2, <2>1, <2>2
<1>5. Halfway(p) = {}
  BY <1>1, <1>2, NotHalfway DEF KeptInv
<1>. QED  BY <1>1, <1>2, <1>3, <1>4, <1>5, StepKept

\* The row a run created is there, and no other is gone.
LEMMA CreateRowKept ==
    ASSUME KeptInv, NEW p \in Runs, CreateRow(p)
    PROVE  KeptInv'
<1>1. Active(p) /\ UNCHANGED removed
  BY DEF CreateRow, At
<1>2. /\ SeedShape' /\ OthersStay(p) /\ run[p].at = "create" /\ run[p].step \in {3, 4, 5, 6, 8}
      /\ \/ /\ run'[p] = [NotStarted EXCEPT !.at = "failed"]
            /\ UNCHANGED tables /\ torn' = torn \cup Halfway(p)
         \/ \E id \in RowIds :
               /\ id.name = Here(p).slug /\ id \notin DOMAIN rows /\ ~ IsId(id)
               /\ DOMAIN rows' = DOMAIN rows \cup {id}
               /\ \A x \in DOMAIN rows : rows'[x] = rows[x]
               /\ UNCHANGED <<categories, tags, questions, contentTags, torn>>
               /\ RowKnown(p, id, run[p].inserted + 1, run[p].skipped)
  BY CreateRowDoes DEF KeptInv
<1>3. ASSUME NEW id \in RowIds,
             id.name = Here(p).slug, id \notin DOMAIN rows, ~ IsId(id),
             DOMAIN rows' = DOMAIN rows \cup {id}, \A x \in DOMAIN rows : rows'[x] = rows[x],
             UNCHANGED <<categories, tags, questions, contentTags, torn>>,
             RowKnown(p, id, run[p].inserted + 1, run[p].skipped)
      PROVE  KeptInv'
  <2>1. Changes({}) /\ \A q \in questions' : q \in questions
    BY <1>3 DEF Changes
  <2>2. PICK inserted, skipped : RowKnown(p, id, inserted, skipped)
    BY <1>3
  <2>3. Here(p).kind = "row" /\ id \in DOMAIN rows'
    BY <1>2, <1>3, RunAt DEF KeptInv
  <2>4. SettledStays => Kept(p)'
    BY <1>1, <1>2, <1>3, <2>1, <2>2, <2>3, RowKnownKept DEF KeptInv
  <2>5. Halfway(p) = {}
    BY <1>1, <1>2, NotHalfway DEF KeptInv
  <2>. QED  BY <1>1, <1>2, <2>1, <2>4, <2>5, StepKept
<1>. QED  BY <1>1, <1>2, <1>3, FailKept

\* A row with its tags is all there is of its item.
LEMMA TagsKept ==
    ASSUME SeedShape', NEW i \in {3, 4}, NEW id, id \in DOMAIN rows', id.name = Work[i].slug,
           "charting" \in TagsOf(id)'
    PROVE  HasRow(Work[i])' /\ HasTags(Work[i])'
<1>1. Work[i].slug # "candlesticks" /\ Range(Work[i].list) = {"charting"}
  BY WorkIs, ListsAre
<1>2. ASSUME NEW x \in Called(Work[i].slug)' PROVE x = id
  BY <1>1, <1>2, UniqueNext DEF UniqueNames, Called
<1>3. HasRow(Work[i])'
  BY DEF HasRow, Called
<1>. QED  BY <1>1, <1>2, <1>3 DEF HasTags

\* The same of the item whose tags p is done with.
LEMMA RowTagged ==
    ASSUME SeedShape, SeedShape', NEW p \in Runs, HeldKept(p), run[p].at \in {"listTags", "write"},
           NEW step, step = run[p].step, step \in {3, 4}, UNCHANGED <<rows, removed>>,
           NEW id, id = run[p].row, "charting" \in TagsOf(id)'
    PROVE  KeptItem(p, step)'
<1> SUFFICES ASSUME Work[step].slug \notin removed[p]
             PROVE  HasRow(Work[step])' /\ HasTags(Work[step])'
  BY DEF KeptItem
<1>1. HoldsRow(run[p]) /\ id.name = Work[step].slug
  BY WorkIs, RunAt DEF HoldsRow, Fits
<1>2. id \in DOMAIN rows'
  BY <1>1 DEF HeldKept
<1>. QED  BY <1>1, <1>2, TagsKept

\* The tags a run found attached are there.
LEMMA ListTagsKept ==
    ASSUME KeptInv, NEW p \in Runs, ListTags(p)
    PROVE  KeptInv'
<1>1. Active(p) /\ UNCHANGED <<tables, removed, torn>>
  BY DEF ListTags, At
<1>2. PICK step, id : step = run[p].step /\ id = run[p].row
  OBVIOUS
<1>3. /\ SeedShape' /\ OthersStay(p) /\ run[p].at = "listTags" /\ step \in {3, 4}
      /\ OnTo(p, run[p].inserted, run[p].skipped, IF "charting" \in TagsOf(id) THEN {} ELSE {1})
  BY <1>2, ListTagsDoes DEF KeptInv
<1>4. PICK inserted, skipped, todo :
         /\ OnTo(p, inserted, skipped, todo)
         /\ todo = IF "charting" \in TagsOf(id) THEN {} ELSE {1}
  BY <1>3
<1>5. todo = {} => KeptItem(p, step)'
  <2> SUFFICES ASSUME todo = {} PROVE KeptItem(p, step)'
    OBVIOUS
  <2>1. "charting" \in TagsOf(id)
    BY <1>4
  <2>2. "charting" \in TagsOf(id)'
    BY <1>1, <2>1 DEF TagsOf, tables
  <2>3. HeldKept(p) /\ UNCHANGED <<rows, removed>>
    BY <1>1 DEF KeptInv, Kept, tables
  <2>. QED  BY <1>2, <1>3, <2>2, <2>3, RowTagged DEF KeptInv
<1>6. WrittenKept(p)'
  <2>1. run'[p].at # "write" \/ run'[p].step # 7
    BY <1>2, <1>3, <1>4 DEF OnTo
  <2>. QED  BY <2>1 DEF WrittenKept
<1>7. Changes({}) /\ \A q \in questions' : q \in questions
  BY <1>1, QuietChanges
<1>8. SettledStays => Kept(p)'
  BY <1>1, <1>2, <1>3, <1>4, <1>5, <1>6, <1>7, OnToKept DEF KeptInv
<1>9. Halfway(p) = {}
  BY <1>1, <1>3, NotHalfway DEF KeptInv
<1>. QED  BY <1>1, <1>3, <1>7, <1>8, <1>9, StepKept

\* The tag a run attached is there.
LEMMA AttachKept ==
    ASSUME KeptInv, NEW p \in Runs, Attach(p)
    PROVE  KeptInv'
<1>1. Active(p) /\ UNCHANGED removed
  BY DEF Attach, At
<1>2. PICK step, id : step = run[p].step /\ id = run[p].row
  OBVIOUS
<1>3. /\ SeedShape' /\ OthersStay(p) /\ run[p].at = "write" /\ step \in {3, 4}
      /\ \/ /\ run'[p] = [NotStarted EXCEPT !.at = "failed"]
            /\ UNCHANGED tables /\ torn' = torn \cup Halfway(p)
         \/ /\ OnTo(p, run[p].inserted, run[p].skipped, {})
            /\ contentTags' = contentTags \cup {[content |-> id, tag |-> "charting"]}
            /\ UNCHANGED <<categories, tags, rows, born, questions, torn>>
  BY <1>2, AttachDoes DEF KeptInv
<1>4. CASE /\ OnTo(p, run[p].inserted, run[p].skipped, {})
           /\ contentTags' = contentTags \cup {[content |-> id, tag |-> "charting"]}
           /\ UNCHANGED <<categories, tags, rows, born, questions, torn>>
  <2>1. KeptItem(p, step)'
    <3>1. "charting" \in TagsOf(id)'
      <4>1. PICK x : x = [content |-> id, tag |-> "charting"]
        OBVIOUS
      <4>2. x \in contentTags' /\ x.content = id /\ x.tag = "charting"
        BY <1>4, <4>1
      <4>. QED  BY <4>2 DEF TagsOf
    <3>2. HeldKept(p) /\ UNCHANGED <<rows, removed>>
      BY <1>1, <1>4 DEF KeptInv, Kept
    <3>. QED  BY <1>2, <1>3, <3>1, <3>2, RowTagged DEF KeptInv
  <2>2. run'[p].at # "write"
    BY <1>2, <1>3, <1>4 DEF OnTo
  <2>3. WrittenKept(p)'
    BY <2>2 DEF WrittenKept
  <2>4. Changes({}) /\ \A q \in questions' : q \in questions
    BY <1>4 DEF Changes
  <2>5. PICK inserted, skipped, todo : OnTo(p, inserted, skipped, todo) /\ todo = {}
    BY <1>4
  <2>6. SettledStays => Kept(p)'
    BY <1>1, <1>2, <1>3, <2>1, <2>3, <2>4, <2>5, OnToKept DEF KeptInv
  <2>7. Halfway(p) = {}
    BY <1>1, <1>2, <1>3, NotHalfway DEF KeptInv
  <2>. QED  BY <1>1, <1>3, <2>4, <2>6, <2>7, StepKept
<1>. QED  BY <1>1, <1>3, <1>4, FailKept

\* A quiz that has questions has all of them, or is torn, or another run is in it.
LEMMA ListQuestionsKept ==
    ASSUME KeptInv, NEW p \in Runs, ListQuestions(p)
    PROVE  KeptInv'
<1>1. Active(p) /\ Here(p).kind # "row" /\ UNCHANGED <<tables, removed, torn>>
  BY DEF ListQuestions, At
<1>2. PICK step, id : step = run[p].step /\ id = run[p].row
  OBVIOUS
<1>3. /\ SeedShape' /\ OthersStay(p) /\ run[p].at = "look" /\ step = 7
      /\ \/ /\ QuestionsIn(id) # {}
            /\ OnTo(p, run[p].inserted, run[p].skipped + Cardinality(QuestionsIn(id)), {})
         \/ OnTo(p, run[p].inserted, run[p].skipped, {1, 2})
  BY <1>2, ListQuestionsDoes DEF KeptInv
<1>4. PICK inserted, skipped, todo :
         /\ OnTo(p, inserted, skipped, todo)
         /\ todo = {1, 2} \/ (todo = {} /\ QuestionsIn(id) # {})
  BY <1>3
<1>5. Changes({}) /\ \A q \in questions' : q \in questions
  BY <1>1, QuietChanges
<1>6. ASSUME SettledStays, todo = {} PROVE KeptItem(p, step)'
  <2> SUFFICES ASSUME "intro-quiz" \notin removed[p], NEW y \in Called("intro-quiz")'
               PROVE  QuizSettled(y)'
    BY <1>1, <1>3 DEF KeptItem
  <2>1. HoldsRow(run[p]) /\ id.name = "intro-quiz"
    BY <1>2, <1>3, RunAt DEF KeptInv, HoldsRow, RunPhases, Fits
  <2>2. id \in DOMAIN rows /\ rows' = rows
    BY <1>1, <1>2, <2>1 DEF KeptInv, Kept, HeldKept, tables
  <2>3. QuizSettled(id)
    BY <1>4, <1>6, <2>1, <2>2 DEF KeptInv, QuizzesSettled
  <2>4. y = id
    BY <1>3, <2>1, <2>2, UniqueNext DEF UniqueNames, Called
  <2>. QED  BY <1>6, <2>2, <2>3, <2>4 DEF SettledStays
<1>7. WrittenKept(p)'
  <2>1. run'[p].at # "write" \/ run'[p].todo = {1, 2}
    BY <1>2, <1>3, <1>4 DEF OnTo
  <2>. QED  BY <2>1 DEF WrittenKept
<1>8. SettledStays => Kept(p)'
  BY <1>1, <1>2, <1>3, <1>4, <1>5, <1>6, <1>7, OnToKept DEF KeptInv
<1>9. Halfway(p) = {}
  BY <1>1, <1>3, NotHalfway DEF KeptInv
<1>. QED  BY <1>1, <1>3, <1>5, <1>8, <1>9, StepKept

\* Questions are added, and the last one settles the quiz.
LEMMA CreateQuestionKept ==
    ASSUME KeptInv, NEW p \in Runs, CreateQuestion(p)
    PROVE  KeptInv'
<1>1. Active(p) /\ UNCHANGED removed
  BY DEF CreateQuestion, At
<1>2. PICK step, id : step = run[p].step /\ id = run[p].row
  OBVIOUS
<1>3. /\ SeedShape' /\ OthersStay(p) /\ run[p].at = "write" /\ step = 7
      /\ \E i \in run[p].todo :
            \/ /\ run'[p] = [NotStarted EXCEPT !.at = "failed"] /\ UNCHANGED tables
               /\ torn' = torn \cup Halfway(p)
            \/ /\ OnTo(p, run[p].inserted + 1, run[p].skipped, run[p].todo \ {i})
               /\ id \in DOMAIN rows
               /\ questions' = questions \cup {[quiz |-> id, orderIndex |-> Here(p).list[i]]}
               /\ UNCHANGED <<categories, tags, rows, born, contentTags, torn>>
  BY <1>2, CreateQuestionDoes DEF KeptInv
<1>4. ASSUME NEW i \in run[p].todo,
             OnTo(p, run[p].inserted + 1, run[p].skipped, run[p].todo \ {i}),
             id \in DOMAIN rows,
             questions' = questions \cup {[quiz |-> id, orderIndex |-> Here(p).list[i]]},
             UNCHANGED <<categories, tags, rows, born, contentTags, torn>>
      PROVE  KeptInv'
  <2>1. PICK inserted, skipped, todo : OnTo(p, inserted, skipped, todo) /\ todo = run[p].todo \ {i}
    BY <1>4
  <2>2. /\ run[p].todo \subseteq {1, 2} /\ Here(p) = Work[7] /\ id.name = "intro-quiz"
        /\ Here(p).list[1] = "#0" /\ Here(p).list[2] = "#1" /\ Here(p).kind = "questions"
        /\ DOMAIN Here(p).list = {1, 2}
    BY <1>2, <1>3, ListsHere, RunAt, ZenonT(60) DEF KeptInv, Here, Fits, HoldsRow, RunPhases
  <2>3. Changes({})
    BY <1>4 DEF Changes
  <2>4. QuestionsIn(id)' = QuestionsIn(id) \cup {Here(p).list[i]}
    <3>1. PICK new : new = [quiz |-> id, orderIndex |-> Here(p).list[i]]
      OBVIOUS
    <3>2. new.quiz = id /\ new.orderIndex = Here(p).list[i] /\ questions' = questions \cup {new}
      BY <1>4, <3>1
    <3>3. ASSUME NEW k PROVE k \in QuestionsIn(id)' <=> k \in QuestionsIn(id) \/ k = Here(p).list[i]
      BY <3>2 DEF QuestionsIn
    <3>. QED  BY <3>3
  <2>5. \A j \in {1, 2} \ todo : Here(p).list[j] \in QuestionsIn(id)' \/ id \in torn'
    <3> SUFFICES ASSUME NEW j \in {1, 2} \ todo, id \notin torn
                 PROVE  Here(p).list[j] \in QuestionsIn(id)'
      BY <1>4
    <3>1. CASE j = i
      BY <2>4, <3>1
    <3>2. CASE j # i
      <4>1. j \in {1, 2} \ run[p].todo
        BY <2>1, <3>2
      <4>2. Here(p).list[j] \in QuestionsIn(id)
        BY <1>2, <1>3, <1>4, <4>1 DEF KeptInv, Kept, WrittenKept
      <4>. QED  BY <2>4, <4>2
    <3>. QED  BY <3>1, <3>2
  <2>6. QuizSettled(id)'
    <3>1. CASE todo = {}
      <4>1. {"#0", "#1"} \subseteq QuestionsIn(id)' \/ id \in torn'
        BY <2>2, <2>5, <3>1
      <4>. QED  BY <4>1, ListsAre DEF QuizSettled, HasQuestions
    <3>2. CASE todo # {}
      <4>1. /\ run'[p].at = "write" /\ run'[p].todo = todo /\ run'[p].step = 7 /\ run'[p].row = id
        BY <1>2, <1>3, <2>1, <3>2 DEF OnTo
      <4>2. todo # {1, 2}
        BY <2>1, <2>2
      <4>3. Here(p)' = Here(p)
        BY <2>2, <4>1 DEF Here
      <4>4. Halfway(p)' = {id}
        BY <2>2, <4>1, <4>2, <4>3 DEF Halfway
      <4>5. Active(p)'
        BY <4>1 DEF Active, Over
      <4>. QED  BY <4>4, <4>5 DEF QuizSettled
    <3>. QED  BY <3>1, <3>2
  <2>7. SettledStays
    <3>1. \A x \in Halfway(p) : x = id
      BY <1>1, <1>2, HalfwayIs DEF KeptInv
    <3>2. \A q \in Runs : SettlesIts(q)
      BY <1>3, <2>6, <3>1 DEF OthersStay, SettlesIts
    <3>3. PICK gone : Changes(gone)
      BY <2>3
    <3>4. SeedShape
      BY DEF KeptInv
    <3>. QED  BY <1>3, <3>2, <3>3, <3>4, SettledByStep
  <2>8. QuizzesSettled'
    <3> SUFFICES ASSUME NEW x \in DOMAIN rows, x.name = "intro-quiz", x # id
                 PROVE  QuestionsIn(x)' = {} \/ QuizSettled(x)'
      BY <1>4, <2>6 DEF QuizzesSettled
    <3>1. QuestionsIn(x)' = QuestionsIn(x)
      BY <1>4 DEF QuestionsIn
    <3>. QED  BY <1>4, <2>7, <3>1 DEF KeptInv, QuizzesSettled, SettledStays
  <2>9. todo = {} => KeptItem(p, step)'
    <3> SUFFICES ASSUME NEW y \in Called("intro-quiz")' PROVE QuizSettled(y)'
      BY <1>3 DEF KeptItem
    <3>1. y = id
      BY <1>3, <1>4, <2>2, UniqueNext DEF UniqueNames, Called
    <3>. QED  BY <2>6, <3>1
  <2>10. WrittenKept(p)'
    <3> SUFFICES ASSUME run'[p].at = "write", run'[p].step = 7, NEW j \in {1, 2} \ run'[p].todo
                 PROVE  Work[7].list[j] \in QuestionsIn(run[p].row)' \/ run'[p].row \in torn'
      BY DEF WrittenKept, Here
    <3>1. todo # {} /\ run'[p].todo = todo /\ run'[p].row = id
      BY <1>2, <1>3, <2>1 DEF OnTo
    <3>2. QuestionsIn(run[p].row)' = QuestionsIn(id)'
      BY <3>1 DEF QuestionsIn
    <3>. QED  BY <2>2, <2>5, <3>1, <3>2
  <2>11. Kept(p)'
    BY <1>1, <1>2, <1>3, <2>1, <2>2, <2>3, <2>7, <2>9, <2>10, OnToKept DEF KeptInv
  <2>12. ASSUME NEW q \in Runs \ {p} PROVE Kept(q)'
    <3>1. run'[q] = run[q] /\ removed[q] \cup {} \subseteq removed'[q] /\ q \in Runs
      BY <1>1, <1>3 DEF OthersStay
    <3>. QED  BY <1>3, <2>3, <2>7, <3>1, KeptStays DEF KeptInv
  <2>. QED  BY <1>3, <2>8, <2>11, <2>12 DEF KeptInv
<1>. QED  BY <1>1, <1>3, <1>4, FailKept

\* What an admin takes away is noted for every run.
LEMMA AdminKept ==
    ASSUME KeptInv, SeedShape', NEW gone, AdminActs(gone), Changes(gone),
           \A q \in questions' : q \in questions \/ q.quiz \in torn'
    PROVE  KeptInv'
<1>1. run' = run /\ SeedShape
  BY DEF AdminActs, KeptInv
<1>2. SettledStays
  <2>1. \A q \in Runs : SettlesIts(q)
    BY <1>1 DEF SettlesIts
  <2>. QED  BY <1>1, <2>1, SettledByStep
<1>3. QuizzesSettled'
  BY <1>1, <1>2, QuizzesStay DEF KeptInv
<1>4. ASSUME NEW q \in Runs PROVE Kept(q)'
  <2>1. /\ run'[q] = run[q] /\ Kept(q)
        /\ run[q].at \in {"idle", "failed"} \/ removed[q] \cup gone \subseteq removed'[q]
    BY <1>1 DEF AdminActs, KeptInv
  <2>. QED  BY <1>1, <1>2, <2>1, KeptStays
<1>. QED  BY <1>3, <1>4 DEF KeptInv

\* So an admin keeps the invariant, whatever it does.
LEMMA AdminStepKept ==
    ASSUME KeptInv, Admin
    PROVE  KeptInv'
<1>1. SeedShape' /\ SeedShape
  BY AdminKeepsShape DEF KeptInv
<1>2. CASE AdminAddsReference
  <2>1. Changes({}) /\ AdminActs({}) /\ \A q \in questions' : q \in questions
    BY <1>2 DEF AdminAddsReference, Changes
  <2>. QED  BY <1>1, <2>1, AdminKept
<1>3. ASSUME NEW name \in Names, AdminCreates(name) PROVE KeptInv'
  <2>1. PICK id \in RowIds :
           /\ id \notin DOMAIN rows /\ ~ IsId(id) /\ DOMAIN rows' = DOMAIN rows \cup {id}
           /\ \A x \in DOMAIN rows : rows'[x] = rows[x]
    BY <1>1, <1>3, AdminCreatesFits
  <2>2. UNCHANGED <<categories, tags, questions, contentTags, torn>>
    BY <1>1, <1>3, AdminCreatesFits
  <2>3. Changes({}) /\ \A q \in questions' : q \in questions
    BY <2>1, <2>2 DEF Changes
  <2>4. AdminActs({})
    BY <1>3 DEF AdminCreates
  <2>. QED  BY <1>1, <2>3, <2>4, AdminKept
<1>4. ASSUME NEW target \in DOMAIN rows, AdminRemoves(target) PROVE KeptInv'
  <2>1. PICK lost, gone : /\ lost = {target} \cup {x \in DOMAIN rows : rows[x] = target}
                          /\ gone = {x.name : x \in lost}
    OBVIOUS
  <2>2. /\ rows' = Drop(rows, lost) /\ questions' = {q \in questions : q.quiz \notin lost}
        /\ UNCHANGED <<categories, tags, born, contentTags, torn>> /\ AdminActs(gone)
    BY <1>4, <2>1 DEF AdminRemoves
  <2>3. DOMAIN rows' = DOMAIN rows \ lost /\ \A x \in DOMAIN rows' : rows'[x] = rows[x]
    BY <1>1, <2>1, <2>2, RemoveFits DEF SeedShape
  <2>4. Changes(gone) /\ \A q \in questions' : q \in questions
    BY <2>1, <2>2, <2>3 DEF Changes
  <2>. QED  BY <1>1, <2>2, <2>4, AdminKept
<1>5. ASSUME NEW id \in DOMAIN rows, NEW i \in Questions, AdminAddsQuestion(id, i) PROVE KeptInv'
  <2>1. /\ questions' = questions \cup {[quiz |-> id, orderIndex |-> i]} /\ torn' = torn \cup {id}
        /\ UNCHANGED <<categories, tags, rows, born, contentTags>> /\ AdminActs({})
    BY <1>5 DEF AdminAddsQuestion
  <2>2. Changes({}) /\ \A q \in questions' : q \in questions \/ q.quiz \in torn'
    BY <2>1 DEF Changes
  <2>. QED  BY <1>1, <2>1, <2>2, AdminKept
<1>6. ASSUME NEW id \in DOMAIN rows, NEW tag \in tags, AdminTags(id, tag) PROVE KeptInv'
  <2>1. Changes({}) /\ AdminActs({}) /\ \A q \in questions' : q \in questions
    BY <1>6 DEF AdminTags, Changes
  <2>. QED  BY <1>1, <2>1, AdminKept
<1>7. ASSUME NEW q \in questions, AdminRemovesQuestion(q) PROVE KeptInv'
  <2>1. Changes({}) /\ AdminActs({}) /\ \A x \in questions' : x \in questions
    BY <1>7 DEF AdminRemovesQuestion, Changes
  <2>. QED  BY <1>1, <2>1, AdminKept
<1>8. ASSUME NEW y \in contentTags, AdminUntags(y) PROVE KeptInv'
  <2>1. PICK gone : gone = {y.content.name}
    OBVIOUS
  <2>2. Changes(gone) /\ AdminActs(gone) /\ \A x \in questions' : x \in questions
    BY <1>8, <2>1 DEF AdminUntags, Changes
  <2>. QED  BY <1>1, <2>2, AdminKept
<1>. QED  BY <1>2, <1>3, <1>4, <1>5, <1>6, <1>7, <1>8 DEF Admin

\* At first no run is past anything.
LEMMA KeptInit == SeedInit => KeptInv
<1> SUFFICES ASSUME SeedInit PROVE KeptInv
  OBVIOUS
<1>1. \A p \in Runs : run[p].at = "idle" /\ DOMAIN rows = {}
  BY DEF SeedInit, NotStarted, EmptyTable
<1>2. \A p \in Runs : Kept(p)
  BY <1>1 DEF Kept, Passed, HeldKept, WrittenKept, HoldsRow, RunPhases
<1>3. DOMAIN rows = {}
  BY DEF SeedInit, EmptyTable
<1>. QED  BY <1>2, <1>3, ShapeInit DEF KeptInv, QuizzesSettled

\* Every step keeps what runs have left.
LEMMA KeptStep == KeptInv /\ [SeedNext]_seedVars => KeptInv'
<1> SUFFICES ASSUME KeptInv, [SeedNext]_seedVars PROVE KeptInv'
  OBVIOUS
<1>1. CASE UNCHANGED seedVars
  <2>1. SeedShape'
    BY <1>1, ShapeStep DEF KeptInv
  <2>2. Changes({}) /\ \A q \in questions' : q \in questions
    BY <1>1, QuietChanges DEF seedVars
  <2>3. SettledStays
    <3>1. \A q \in Runs : SettlesIts(q)
      BY <1>1 DEF SettlesIts, seedVars
    <3>2. PICK gone : Changes(gone)
      BY <2>2
    <3>3. SeedShape
      BY DEF KeptInv
    <3>. QED  BY <2>1, <3>1, <3>2, <3>3, SettledByStep
  <2>4. QuizzesSettled'
    BY <2>1, <2>2, <2>3, QuizzesStay DEF KeptInv
  <2>5. ASSUME NEW q \in Runs PROVE Kept(q)'
    <3>1. run'[q] = run[q] /\ removed[q] \cup {} \subseteq removed'[q]
      BY <1>1 DEF seedVars
    <3>. QED  BY <2>1, <2>2, <2>3, <3>1, KeptStays DEF KeptInv
  <2>. QED  BY <2>1, <2>4, <2>5 DEF KeptInv
<1>2. CASE Admin
  BY <1>2, AdminStepKept
<1>3. ASSUME NEW p \in Runs, SeedStep(p) PROVE KeptInv'
  BY <1>3, StartKept, ListReferenceKept, CreateReferenceKept, LookForRowKept, CreateRowKept,
     ListTagsKept, AttachKept, ListQuestionsKept, CreateQuestionKept, StopKept DEF SeedStep
<1>. QED  BY <1>1, <1>2, <1>3 DEF SeedNext

\* seedEducationContent is safe to run on every boot: one that ends well leaves everything.
THEOREM FinishedIsSeeded == SeedSpec => []FinishedMeansSeeded
<1>1. SeedSpec => []KeptInv
  BY KeptInit, KeptStep, PTL DEF SeedSpec
<1>. QED  BY <1>1, KeptInvFinished, PTL

-------------------------------------------------------------------------------
(* A run that nobody disturbs.                                                 *)

\* Runs that are active together are both noted.
OverlapsNoted ==
    \A p, q \in Runs : p # q /\ Active(p) /\ Active(q) => p \in overlapped /\ q \in overlapped

\* What it found missing still is, and what it holds is still there.
WritesNew(p) ==
    run[p].at = "write" =>
        /\ run[p].step = 1 => categories = {}
        /\ run[p].step = 2 => tags = {}
        /\ run[p].step \in {3, 4} => "charting" \notin TagsOf(run[p].row)
        /\ run[p].step = 7 => \A i \in run[p].todo : Here(p).list[i] \notin QuestionsIn(run[p].row)
Undisturbed(p) ==
    /\ run[p].course # NoRow => run[p].course \in DOMAIN rows
    /\ HoldsRow(run[p]) => run[p].row \in DOMAIN rows
    /\ run[p].at = "create" => Found(p) = {}
    /\ WritesNew(p)

AloneInv ==
    /\ SeedShape /\ OverlapsNoted
    /\ \A p \in Runs : Active(p) /\ p \notin overlapped => Undisturbed(p)
    /\ AloneNeverFails

\* Only a run that is active moves, and only its own step has to be looked at.
LEMMA AloneStep ==
    ASSUME AloneInv, SeedShape', NEW p \in Runs, Active(p), OthersStay(p), UNCHANGED overlapped,
           p \notin overlapped /\ Undisturbed(p) =>
               run'[p].at # "failed" /\ (Active(p)' => Undisturbed(p)')
    PROVE  AloneInv'
<1>1. \A q \in Runs : Active(q)' => Active(q)
  BY DEF OthersStay, Active
<1>2. OverlapsNoted'
  BY <1>1 DEF AloneInv, OverlapsNoted
<1>3. ASSUME NEW q \in Runs, Active(q)', q \notin overlapped PROVE Undisturbed(q)'
  <2>1. q = p
    BY <1>1, <1>3 DEF AloneInv, OverlapsNoted
  <2>. QED  BY <1>3, <2>1 DEF AloneInv
<1>4. AloneNeverFails'
  BY DEF AloneInv, AloneNeverFails, OthersStay
<1>. QED  BY <1>2, <1>3, <1>4 DEF AloneInv

\* An undisturbed run that goes on to its next call is undisturbed.
LEMMA OnToAlone ==
    ASSUME SeedShape, SeedShape', NEW p \in Runs, Active(p), Undisturbed(p), rows' = rows,
           run[p].at \in {"listTags", "write"} \/ (run[p].at = "look" /\ run[p].step \in {1, 2, 7}),
           run[p].step \in {1, 2, 3, 4, 7},
           NEW inserted, NEW skipped, NEW todo, OnTo(p, inserted, skipped, todo),
           todo # {} => WritesNew(p)'
    PROVE  run'[p].at # "failed" /\ (Active(p)' => Undisturbed(p)')
<1>1. CASE todo # {}
  <2>1. /\ run'[p].at = "write" /\ run'[p].step = run[p].step
        /\ run'[p].row = run[p].row /\ run'[p].course = run[p].course
    BY <1>1 DEF OnTo
  <2>2. HoldsRow(run'[p]) => HoldsRow(run[p])
    BY <2>1, WorkIs DEF HoldsRow, RunPhases
  <2>. QED  BY <1>1, <2>1, <2>2 DEF Undisturbed
<1>2. CASE todo = {}
  <2>1. /\ run'[p].at = "look" /\ run'[p].step = run[p].step + 1
        /\ run'[p].course = run[p].course
    BY <1>2 DEF OnTo
  <2>2. ~ HoldsRow(run'[p])
    BY <2>1 DEF HoldsRow
  <2>. QED  BY <2>1, <2>2 DEF Undisturbed, WritesNew
<1>. QED  BY <1>1, <1>2

\* An undisturbed run that knows its row is undisturbed.
LEMMA RowKnownAlone ==
    ASSUME SeedShape, SeedShape', NEW p \in Runs, Active(p), Undisturbed(p),
           DOMAIN rows \subseteq DOMAIN rows',
           run[p].step \in {3, 4, 5, 6, 8}, NEW id, id \in DOMAIN rows',
           NEW inserted, NEW skipped, RowKnown(p, id, inserted, skipped)
    PROVE  run'[p].at # "failed" /\ (Active(p)' => Undisturbed(p)')
<1>1. CASE run[p].step \in {3, 4}
  <2>1. /\ run'[p].at = "listTags" /\ run'[p].row = id /\ run'[p].course \in {id, run[p].course}
    BY <1>1 DEF RowKnown
  <2>. QED  BY <2>1 DEF Undisturbed, WritesNew
<1>2. CASE run[p].step \notin {3, 4}
  <2>1. \/ run'[p].at = "done"
        \/ /\ run'[p].at = "look" /\ run'[p].row = id /\ run'[p].course = run[p].course
    BY <1>2 DEF RowKnown
  <2>. QED  BY <2>1 DEF Undisturbed, WritesNew, Active, Over
<1>. QED  BY <1>1, <1>2

\* Of undisturbed runs none fails at a category or tag.
LEMMA ReferenceAlone ==
    ASSUME AloneInv, SeedShape', NEW p \in Runs, ListReference(p) \/ CreateReference(p)
    PROVE  AloneInv'
<1>1. SeedShape /\ Active(p) /\ UNCHANGED overlapped /\ rows' = rows
  BY DEF AloneInv, ListReference, CreateReference, At, tables, Fail
<1>2. PICK step : step = run[p].step
  OBVIOUS
<1>3. /\ step = 1 => Here(p).list[1] = "technical-analysis"
      /\ step = 2 => Here(p).list[1] = "charting"
      /\ categories \subseteq {"technical-analysis"} /\ tags \subseteq {"charting"}
  BY <1>1, <1>2, ListsHere, ListsAre DEF SeedShape, TablesFit
<1>4. CASE ListReference(p)
  <2>1. /\ OthersStay(p) /\ step \in {1, 2} /\ run[p].at = "look"
        /\ \/ OnTo(p, run[p].inserted, run[p].skipped + 1, {})
           \/ /\ Here(p).list[1] \notin (IF step = 1 THEN categories ELSE tags)
              /\ OnTo(p, run[p].inserted, run[p].skipped, {1})
    BY <1>1, <1>2, <1>4, ListReferenceDoes
  <2>2. PICK inserted, skipped, todo :
           /\ OnTo(p, inserted, skipped, todo)
           /\ todo # {} => Here(p).list[1] \notin (IF step = 1 THEN categories ELSE tags)
    BY <2>1
  <2>3. UNCHANGED tables
    BY <1>4 DEF ListReference
  <2>4. todo # {} => WritesNew(p)'
    <3> SUFFICES ASSUME todo # {} PROVE WritesNew(p)'
      OBVIOUS
    <3>1. run'[p].step = step
      BY <1>2, <2>2 DEF OnTo
    <3>2. CASE step = 1
      <4>1. categories' = {}
        BY <1>3, <2>2, <2>3, <3>2 DEF tables
      <4>. QED  BY <3>1, <3>2, <4>1 DEF WritesNew
    <3>3. CASE step = 2
      <4>1. tags' = {}
        BY <1>3, <2>2, <2>3, <3>3 DEF tables
      <4>. QED  BY <3>1, <3>3, <4>1 DEF WritesNew
    <3>. QED  BY <2>1, <3>2, <3>3
  <2>5. Undisturbed(p) => run'[p].at # "failed" /\ (Active(p)' => Undisturbed(p)')
    BY <1>1, <1>2, <2>1, <2>2, <2>4, OnToAlone
  <2>. QED  BY <1>1, <2>1, <2>5, AloneStep
<1>5. CASE CreateReference(p)
  <2>1. /\ OthersStay(p) /\ step \in {1, 2} /\ run[p].at = "write"
        /\ \/ Here(p).list[1] \in (IF step = 1 THEN categories ELSE tags)
           \/ OnTo(p, run[p].inserted + 1, run[p].skipped, {})
    BY <1>1, <1>2, <1>5, CreateReferenceDoes
  <2>2. ASSUME Undisturbed(p) PROVE run'[p].at # "failed" /\ (Active(p)' => Undisturbed(p)')
    <3>1. (IF step = 1 THEN categories ELSE tags) = {}
      BY <1>2, <2>1, <2>2 DEF Undisturbed, WritesNew
    <3>2. PICK inserted, skipped, todo : OnTo(p, inserted, skipped, todo) /\ todo = {}
      BY <2>1, <3>1
    <3>. QED  BY <1>1, <1>2, <2>1, <2>2, <3>2, OnToAlone
  <2>. QED  BY <1>1, <2>1, <2>2, AloneStep
<1>. QED  BY <1>4, <1>5

\* Nor at a row: the one it looked for is still missing.
LEMMA RowAlone ==
    ASSUME AloneInv, SeedShape', NEW p \in Runs, LookForRow(p) \/ CreateRow(p)
    PROVE  AloneInv'
<1>1. SeedShape /\ Active(p) /\ UNCHANGED overlapped
  BY DEF AloneInv, LookForRow, CreateRow, At
<1>2. CASE LookForRow(p)
  <2>1. /\ OthersStay(p) /\ run[p].at = "look" /\ run[p].step \in {3, 4, 5, 6, 8}
        /\ \/ Found(p) = {} /\ run'[p] = [run[p] EXCEPT !.at = "create"]
           \/ \E id \in Found(p) : RowKnown(p, id, run[p].inserted, run[p].skipped + 1)
    BY <1>1, <1>2, LookForRowDoes
  <2>2. rows' = rows
    BY <1>2 DEF LookForRow, tables
  <2>3. ASSUME Undisturbed(p), Found(p) = {}, run'[p] = [run[p] EXCEPT !.at = "create"]
        PROVE  run'[p].at # "failed" /\ (Active(p)' => Undisturbed(p)')
    <3>1. /\ run'[p].at = "create" /\ run'[p].step = run[p].step /\ run'[p].course = run[p].course
      BY <1>1, <2>3, RunAt DEF RunTyped, RunStates
    <3>2. Found(p)' = Found(p)
      BY <2>2, <3>1 DEF Found, Here, Called
    <3>3. ~ HoldsRow(run'[p])
      BY <2>1, <3>1 DEF HoldsRow
    <3>. QED  BY <2>2, <2>3, <3>1, <3>2, <3>3 DEF Undisturbed, WritesNew
  <2>4. ASSUME Undisturbed(p), NEW id \in Found(p),
               RowKnown(p, id, run[p].inserted, run[p].skipped + 1)
        PROVE  run'[p].at # "failed" /\ (Active(p)' => Undisturbed(p)')
    <3>1. id \in DOMAIN rows' /\ DOMAIN rows \subseteq DOMAIN rows'
      BY <2>2 DEF Found, Called
    <3>2. PICK inserted, skipped : RowKnown(p, id, inserted, skipped)
      BY <2>4
    <3>. QED  BY <1>1, <2>1, <2>4, <3>1, <3>2, RowKnownAlone
  <2>. QED  BY <1>1, <2>1, <2>3, <2>4, AloneStep
<1>3. CASE CreateRow(p)
  <2>1. /\ OthersStay(p) /\ run[p].at = "create" /\ run[p].step \in {3, 4, 5, 6, 8}
        /\ \/ \/ Found(p) # {}
              \/ run[p].step \in {5, 6} /\ run[p].course \notin DOMAIN rows
           \/ \E id \in RowIds : /\ DOMAIN rows' = DOMAIN rows \cup {id}
                                 /\ RowKnown(p, id, run[p].inserted + 1, run[p].skipped)
    BY <1>1, <1>3, CreateRowDoes
  <2>2. ASSUME Undisturbed(p) PROVE run'[p].at # "failed" /\ (Active(p)' => Undisturbed(p)')
    <3>1. run[p].step \in {5, 6} => run[p].course \in DOMAIN rows
      BY <1>1, <2>1, <2>2, RunAt DEF Undisturbed, Fits, NeedsCourse, RunPhases
    <3>2. PICK id, inserted, skipped :
             DOMAIN rows' = DOMAIN rows \cup {id} /\ RowKnown(p, id, inserted, skipped)
      BY <2>1, <2>2, <3>1 DEF Undisturbed
    <3>3. id \in DOMAIN rows' /\ DOMAIN rows \subseteq DOMAIN rows'
      BY <3>2
    <3>. QED  BY <1>1, <2>1, <2>2, <3>2, <3>3, RowKnownAlone
  <2>. QED  BY <1>1, <2>1, <2>2, AloneStep
<1>. QED  BY <1>2, <1>3

\* Nor at the tags of a row.
LEMMA TagsAlone ==
    ASSUME AloneInv, SeedShape', NEW p \in Runs, ListTags(p) \/ Attach(p)
    PROVE  AloneInv'
<1>1. SeedShape /\ Active(p) /\ UNCHANGED overlapped /\ rows' = rows
  BY DEF AloneInv, ListTags, Attach, At, tables, Fail
<1>2. PICK id : id = run[p].row
  OBVIOUS
<1>3. CASE ListTags(p)
  <2>1. /\ OthersStay(p) /\ run[p].at = "listTags" /\ run[p].step \in {3, 4}
        /\ OnTo(p, run[p].inserted, run[p].skipped, IF "charting" \in TagsOf(id) THEN {} ELSE {1})
    BY <1>1, <1>2, <1>3, ListTagsDoes
  <2>2. PICK inserted, skipped, todo :
           /\ OnTo(p, inserted, skipped, todo)
           /\ todo # {} => "charting" \notin TagsOf(id)
    BY <2>1
  <2>3. todo # {} => WritesNew(p)'
    <3> SUFFICES ASSUME todo # {} PROVE WritesNew(p)'
      OBVIOUS
    <3>1. run'[p].step \in {3, 4} /\ run'[p].row = id
      BY <1>2, <2>1, <2>2 DEF OnTo
    <3>2. TagsOf(run[p].row)' = TagsOf(id)
      BY <1>3, <3>1 DEF ListTags, tables, TagsOf
    <3>. QED  BY <2>2, <3>1, <3>2 DEF WritesNew
  <2>4. Undisturbed(p) => run'[p].at # "failed" /\ (Active(p)' => Undisturbed(p)')
    BY <1>1, <2>1, <2>2, <2>3, OnToAlone
  <2>. QED  BY <1>1, <2>1, <2>4, AloneStep
<1>4. CASE Attach(p)
  <2>1. /\ OthersStay(p) /\ run[p].at = "write" /\ run[p].step \in {3, 4}
        /\ \/ [content |-> id, tag |-> "charting"] \in contentTags
           \/ OnTo(p, run[p].inserted, run[p].skipped, {})
    BY <1>1, <1>2, <1>4, AttachDoes
  <2>2. ASSUME Undisturbed(p) PROVE run'[p].at # "failed" /\ (Active(p)' => Undisturbed(p)')
    <3>1. "charting" \notin TagsOf(id)
      BY <1>2, <2>1, <2>2 DEF Undisturbed, WritesNew
    <3>2. [content |-> id, tag |-> "charting"] \notin contentTags
      BY <3>1 DEF TagsOf
    <3>3. PICK inserted, skipped, todo : OnTo(p, inserted, skipped, todo) /\ todo = {}
      BY <2>1, <3>2
    <3>. QED  BY <1>1, <2>1, <2>2, <3>3, OnToAlone
  <2>. QED  BY <1>1, <2>1, <2>2, AloneStep
<1>. QED  BY <1>3, <1>4

\* Nor at questions: nobody else inserts any.
LEMMA QuestionsAlone ==
    ASSUME AloneInv, SeedShape', NEW p \in Runs, ListQuestions(p) \/ CreateQuestion(p)
    PROVE  AloneInv'
<1>1. SeedShape /\ Active(p) /\ UNCHANGED overlapped /\ rows' = rows
  BY DEF AloneInv, ListQuestions, CreateQuestion, At, tables, Fail
<1>2. PICK id : id = run[p].row
  OBVIOUS
<1>3. CASE ListQuestions(p)
  <2>1. /\ OthersStay(p) /\ run[p].at = "look" /\ run[p].step = 7
        /\ \/ OnTo(p, run[p].inserted, run[p].skipped + Cardinality(QuestionsIn(id)), {})
           \/ QuestionsIn(id) = {} /\ OnTo(p, run[p].inserted, run[p].skipped, {1, 2})
    BY <1>1, <1>2, <1>3, ListQuestionsDoes
  <2>2. PICK inserted, skipped, todo :
           /\ OnTo(p, inserted, skipped, todo)
           /\ todo # {} => QuestionsIn(id) = {}
    BY <2>1
  <2>3. todo # {} => WritesNew(p)'
    <3> SUFFICES ASSUME todo # {} PROVE WritesNew(p)'
      OBVIOUS
    <3>1. run'[p].step = 7 /\ run'[p].row = id
      BY <1>2, <2>1, <2>2 DEF OnTo
    <3>2. QuestionsIn(run[p].row)' = {}
      BY <1>3, <2>2, <3>1 DEF ListQuestions, tables, QuestionsIn
    <3>. QED  BY <3>1, <3>2 DEF WritesNew
  <2>4. Undisturbed(p) => run'[p].at # "failed" /\ (Active(p)' => Undisturbed(p)')
    BY <1>1, <2>1, <2>2, <2>3, OnToAlone
  <2>. QED  BY <1>1, <2>1, <2>4, AloneStep
<1>4. CASE CreateQuestion(p)
  <2>1. /\ OthersStay(p) /\ run[p].at = "write" /\ run[p].step = 7
        /\ \E i \in run[p].todo :
              \/ [quiz |-> id, orderIndex |-> Here(p).list[i]] \in questions
              \/ id \notin DOMAIN rows
              \/ /\ OnTo(p, run[p].inserted + 1, run[p].skipped, run[p].todo \ {i})
                 /\ questions' = questions \cup {[quiz |-> id, orderIndex |-> Here(p).list[i]]}
    BY <1>1, <1>2, <1>4, CreateQuestionDoes
  <2>2. ASSUME Undisturbed(p) PROVE run'[p].at # "failed" /\ (Active(p)' => Undisturbed(p)')
    <3>1. id \in DOMAIN rows /\ \A i \in run[p].todo : Here(p).list[i] \notin QuestionsIn(id)
      BY <1>2, <2>1, <2>2 DEF Undisturbed, WritesNew, HoldsRow, RunPhases
    <3>2. \A i \in run[p].todo : [quiz |-> id, orderIndex |-> Here(p).list[i]] \notin questions
      BY <3>1 DEF QuestionsIn
    <3>3. PICK i \in run[p].todo :
             /\ OnTo(p, run[p].inserted + 1, run[p].skipped, run[p].todo \ {i})
             /\ questions' = questions \cup {[quiz |-> id, orderIndex |-> Here(p).list[i]]}
      BY <2>1, <3>1, <3>2
    <3>4. PICK inserted, skipped, todo : OnTo(p, inserted, skipped, todo) /\ todo = run[p].todo \ {i}
      BY <3>3
    <3>5. todo # {} => WritesNew(p)'
      <4> SUFFICES ASSUME todo # {} PROVE WritesNew(p)'
        OBVIOUS
      <4>1. run'[p].step = 7 /\ run'[p].row = id /\ run'[p].todo = todo
        BY <1>2, <2>1, <3>4 DEF OnTo
      <4>2. Here(p)' = Here(p)
        BY <2>1, <4>1 DEF Here
      <4>3. ASSUME NEW j \in todo PROVE Here(p).list[j] # Here(p).list[i] /\ j \in run[p].todo
        BY <1>1, <2>1, <3>4, <4>3, ListsHere
      <4>4. ASSUME NEW k, k \notin QuestionsIn(id), k # Here(p).list[i]
            PROVE  k \notin QuestionsIn(run[p].row)'
        <5>1. PICK new : new = [quiz |-> id, orderIndex |-> Here(p).list[i]]
          OBVIOUS
        <5>2. new.quiz = id /\ new.orderIndex = Here(p).list[i] /\ questions' = questions \cup {new}
          BY <3>3, <5>1
        <5>. QED  BY <4>1, <4>4, <5>2 DEF QuestionsIn
      <4>5. \A j \in todo : Here(p).list[j] \notin QuestionsIn(run[p].row)'
        BY <3>1, <4>3, <4>4
      <4>. QED  BY <4>1, <4>2, <4>5 DEF WritesNew
    <3>. QED  BY <1>1, <2>1, <2>2, <3>4, <3>5, OnToAlone
  <2>. QED  BY <1>1, <2>1, <2>2, AloneStep
<1>. QED  BY <1>3, <1>4

\* A run that starts beside another disturbs both.
LEMMA StartAlone ==
    ASSUME AloneInv, SeedShape', NEW p \in Runs, Start(p)
    PROVE  AloneInv'
<1>1. /\ run'[p].at = "look" /\ run'[p].step = 1 /\ \A q \in Runs \ {p} : run'[q] = run[q]
  BY StartDoes DEF AloneInv
<1>2. run'[p].course = NoRow
  <2>1. run'[p].step = 1 /\ run'[p] = [NotStarted EXCEPT !.at = "look", !.fresh = ~ Whole]
    BY <1>1 DEF Start, Become, AloneInv, SeedShape, RunsFit
  <2>. QED  BY <2>1 DEF NotStarted
<1>3. PICK others : /\ others = {q \in Runs \ {p} : Active(q)}
                    /\ overlapped' = (overlapped \ {p}) \cup others \cup (IF others # {} THEN {p} ELSE {})
  BY DEF Start
<1>4. OverlapsNoted'
  <2> SUFFICES ASSUME NEW a \in Runs, NEW b \in Runs, a # b, Active(a)', Active(b)'
               PROVE  a \in overlapped'
    BY DEF OverlapsNoted
  <2>1. CASE a = p
    <3>1. b \in others
      BY <1>1, <1>3, <2>1 DEF Active
    <3>. QED  BY <1>3, <2>1, <3>1
  <2>2. CASE a # p
    BY <1>1, <1>3, <2>2 DEF Active
  <2>. QED  BY <2>1, <2>2
<1>5. ASSUME NEW q \in Runs, Active(q)', q \notin overlapped' PROVE Undisturbed(q)'
  <2>1. q = p
    BY <1>1, <1>3, <1>5 DEF Active
  <2>. QED  BY <1>1, <1>2, <2>1 DEF Undisturbed, WritesNew, HoldsRow
<1>6. AloneNeverFails'
  BY <1>1, <1>3 DEF AloneNeverFails, AloneInv
<1>. QED  BY <1>4, <1>5, <1>6 DEF AloneInv

\* A run that stops disturbs nobody.
LEMMA StopAlone ==
    ASSUME AloneInv, SeedShape', NEW p \in Runs, Stop(p)
    PROVE  AloneInv'
<1>1. run'[p].at = "idle" /\ \A q \in Runs \ {p} : run'[q] = run[q]
  BY StopDoes DEF AloneInv, NotStarted
<1>2. Active(p) /\ overlapped' = overlapped \ {p}
  BY DEF Stop
<1>3. \A q \in Runs : Active(q)' => q # p /\ Active(q)
  BY <1>1 DEF Active, Over
<1>4. OverlapsNoted'
  BY <1>2, <1>3 DEF AloneInv, OverlapsNoted
<1>5. \A q \in Runs : Active(q)' => q \in overlapped'
  BY <1>2, <1>3 DEF AloneInv, OverlapsNoted
<1>6. AloneNeverFails'
  BY <1>1, <1>2 DEF AloneNeverFails, AloneInv
<1>. QED  BY <1>4, <1>5, <1>6 DEF AloneInv

\* An admin disturbs all runs that are active.
LEMMA AdminAlone ==
    ASSUME AloneInv, Admin
    PROVE  AloneInv'
<1>1. SeedShape' /\ run' = run /\ overlapped' = overlapped \cup {p \in Runs : Active(p)}
  BY AdminKeepsShape DEF AloneInv
<1>2. \A q \in Runs : Active(q)' => q \in overlapped'
  BY <1>1 DEF Active
<1>3. AloneNeverFails'
  BY <1>1 DEF AloneNeverFails, AloneInv
<1>. QED  BY <1>1, <1>2, <1>3 DEF AloneInv, OverlapsNoted

\* At first no run is active.
LEMMA AloneInit == SeedInit => AloneInv
<1> SUFFICES ASSUME SeedInit PROVE AloneInv
  OBVIOUS
<1>1. \A p \in Runs : run[p].at = "idle" /\ ~ Active(p)
  BY DEF SeedInit, NotStarted, Active, Over
<1>. QED  BY <1>1, ShapeInit DEF AloneInv, OverlapsNoted, AloneNeverFails

\* Every step leaves undisturbed runs without failure.
LEMMA AloneNext == AloneInv /\ [SeedNext]_seedVars => AloneInv'
<1> SUFFICES ASSUME AloneInv, [SeedNext]_seedVars PROVE AloneInv'
  OBVIOUS
<1>1. SeedShape'
  BY ShapeStep DEF AloneInv
<1>2. CASE UNCHANGED seedVars
  BY <1>1, <1>2 DEF AloneInv, seedVars, tables, OverlapsNoted, Undisturbed, AloneNeverFails, WritesNew,
                    Active, Found, Here, Called, TagsOf, QuestionsIn
<1>3. CASE Admin
  BY <1>3, AdminAlone
<1>4. ASSUME NEW p \in Runs, SeedStep(p) PROVE AloneInv'
  BY <1>1, <1>4, StartAlone, ReferenceAlone, RowAlone, TagsAlone, QuestionsAlone, StopAlone DEF SeedStep
<1>. QED  BY <1>2, <1>3, <1>4 DEF SeedNext

\* What earlier runs left, wherever they stopped, makes no seedEducationContent fail.
THEOREM FailsOnlyWhenDisturbed == SeedSpec => []AloneNeverFails
<1>1. SeedSpec => []AloneInv
  BY AloneInit, AloneNext, PTL DEF SeedSpec
<1>2. AloneInv => AloneNeverFails
  BY DEF AloneInv
<1>. QED  BY <1>1, <1>2, PTL

-------------------------------------------------------------------------------
(* What an undisturbed run counts.                                             *)

\* The rows of the items before each, and those run r has counted where it is.
RowsBefore == <<0, 1, 2, 3, 4, 5, 6, 8>>
CountedSoFar(r) ==
    CASE r.at \in {"look", "create"} -> RowsBefore[r.step]
      [] r.at = "listTags" -> RowsBefore[r.step] + 1
      [] r.at = "write" /\ r.step \in {1, 2} -> RowsBefore[r.step]
      [] r.at = "write" /\ r.step \in {3, 4} -> RowsBefore[r.step] + 1
      [] r.at = "write" /\ r.step = 7 -> IF r.todo = {1, 2} THEN 6 ELSE 7
      [] OTHER -> 9
SumFits(p) == torn = {} => run[p].inserted + run[p].skipped = CountedSoFar(run[p])
\* A run that began with everything there has found everything so far.
FindsAll(p) ==
    ~ run[p].fresh => /\ Whole /\ run[p].inserted = 0
                      /\ run[p].at \notin {"create", "write"}

CountsInv ==
    /\ KeptInv /\ AloneInv
    /\ \A p \in Runs \ overlapped :
          /\ Active(p) => SumFits(p) /\ FindsAll(p)
          /\ run[p].at = "done" => SumFits(p) /\ (~ run[p].fresh => run[p].inserted = 0)

\* How many rows of the seed come before each entry.
LEMMA RowsBeforeAre ==
    /\ RowsBefore[1] = 0 /\ RowsBefore[2] = 1 /\ RowsBefore[3] = 2 /\ RowsBefore[4] = 3
    /\ RowsBefore[5] = 4 /\ RowsBefore[6] = 5 /\ RowsBefore[7] = 6 /\ RowsBefore[8] = 8
  BY DEF RowsBefore

\* And how many there are.
LEMMA AllRowsAre == AllRows = 9
<1>1. Len(CATEGORIES) = 1 /\ Len(TAGS) = 1 /\ Len(COURSE.quiz.questions) = 2
  BY DEF CATEGORIES, TAGS, COURSE
<1>2. Cardinality(RowItems) = 5
  <2>1. PICK a, b, c, d, e : /\ a = Work[3] /\ b = Work[4] /\ c = Work[5] /\ d = Work[6] /\ e = Work[8]
    OBVIOUS
  <2>2. /\ a # b /\ a # c /\ a # d /\ a # e /\ b # c /\ b # d /\ b # e
        /\ c # d /\ c # e /\ d # e
    BY <2>1, WorkIs
  <2>3. RowItems = {a, b, c, d, e}
    BY <2>1, RowItemsAre
  <2>4. IsFiniteSet({a}) /\ Cardinality({a}) = 1
    BY FS_Singleton
  <2>5. IsFiniteSet({a, b}) /\ Cardinality({a, b}) = 2
    <3>1. b \notin {a} /\ {a} \cup {b} = {a, b}
      BY <2>2
    <3>. QED  BY <2>4, <3>1, FS_AddElement
  <2>6. IsFiniteSet({a, b, c}) /\ Cardinality({a, b, c}) = 3
    <3>1. c \notin {a, b} /\ {a, b} \cup {c} = {a, b, c}
      BY <2>2
    <3>. QED  BY <2>5, <3>1, FS_AddElement
  <2>7. IsFiniteSet({a, b, c, d}) /\ Cardinality({a, b, c, d}) = 4
    <3>1. d \notin {a, b, c} /\ {a, b, c} \cup {d} = {a, b, c, d}
      BY <2>2
    <3>. QED  BY <2>6, <3>1, FS_AddElement
  <2>8. Cardinality({a, b, c, d, e}) = 5
    <3>1. e \notin {a, b, c, d} /\ {a, b, c, d} \cup {e} = {a, b, c, d, e}
      BY <2>2
    <3>. QED  BY <2>7, <3>1, FS_AddElement
  <2>. QED  BY <2>3, <2>8
<1>. QED  BY <1>1, <1>2 DEF AllRows

\* A run that is past every entry has counted every row.
LEMMA CountsInvCounts == CountsInv => CountsAddUp
<1> SUFFICES ASSUME CountsInv, NEW p \in Runs \ overlapped, run[p].at = "done"
             PROVE  /\ torn = {} => run[p].inserted + run[p].skipped = AllRows
                    /\ ~ run[p].fresh => run[p].inserted = 0
  BY DEF CountsAddUp
<1>1. CountedSoFar(run[p]) = 9
  BY DEF CountedSoFar
<1>2. ~ run[p].fresh => run[p].inserted = 0
  BY Zenon DEF CountsInv
<1>3. torn = {} => run[p].inserted + run[p].skipped = CountedSoFar(run[p])
  BY DEF CountsInv, SumFits
<1>. QED  BY <1>1, <1>2, <1>3, AllRowsAre

\* What p's own step has to show, as long as nobody disturbs it.
CountsOn(p) ==
    /\ Active(p)' => SumFits(p)' /\ FindsAll(p)'
    /\ run'[p].at = "done" => SumFits(p)' /\ (~ run'[p].fresh => run'[p].inserted = 0)

\* A step of one run leaves the counts of the others, as long as its own are right.
LEMMA CountsStep ==
    ASSUME CountsInv, KeptInv', AloneInv', NEW p \in Runs, Active(p), OthersStay(p),
           UNCHANGED overlapped, torn \subseteq torn',
           p \notin overlapped /\ Undisturbed(p) /\ SumFits(p) /\ FindsAll(p) => CountsOn(p)
    PROVE  CountsInv'
<1>1. ASSUME p \notin overlapped PROVE CountsOn(p)
  BY <1>1 DEF CountsInv, AloneInv
<1>2. ASSUME NEW q \in Runs, q # p, q \notin overlapped
      PROVE  ~ Active(q)' /\ (run'[q].at = "done" =>
                                  SumFits(q)' /\ (~ run'[q].fresh => run'[q].inserted = 0))
  <2>1. run'[q] = run[q]
    BY <1>2 DEF OthersStay
  <2>2. ~ Active(q)
    BY <1>2 DEF CountsInv, AloneInv, OverlapsNoted
  <2>3. ~ Active(q)'
    BY <2>1, <2>2 DEF Active
  <2>4. ASSUME run[q].at = "done" PROVE SumFits(q) /\ (~ run[q].fresh => run[q].inserted = 0)
    BY <1>2, <2>4, Zenon DEF CountsInv
  <2>5. run[q].at = "done" => SumFits(q)'
    BY <2>1, <2>4 DEF SumFits
  <2>. QED  BY <2>1, <2>3, <2>4, <2>5, Zenon
<1>. QED  BY <1>1, <1>2 DEF CountsInv, CountsOn

\* A seed that is whole stays so while the tables do not change.
LEMMA WholeStays == UNCHANGED tables /\ Whole => Whole'
<1> SUFFICES ASSUME UNCHANGED tables, Whole PROVE Whole'
  OBVIOUS
<1>1. UNCHANGED <<categories, tags, rows, questions, contentTags>>
  BY DEF tables
<1>2. \A item \in RowItems : HasRow(item)' /\ HasTags(item)'
  BY <1>1 DEF Whole, HasRow, HasTags, Called, TagsOf
<1>3. \A id \in DOMAIN rows' : TypeOf[id.name] = "quiz" => HasQuestions(id)'
  BY <1>1 DEF Whole, HasQuestions, QuestionsIn
<1>. QED  BY <1>1, <1>2, <1>3 DEF Whole

\* The rows counted once todo is left of the list of the item at step.
ListCounted(step, todo) ==
    IF todo = {} THEN RowsBefore[step + 1]
    ELSE IF step \in {1, 2} THEN RowsBefore[step]
    ELSE IF step \in {3, 4} THEN RowsBefore[step] + 1
    ELSE IF todo = {1, 2} THEN 6 ELSE 7

\* The counts of a run that goes on within an entry, or to the next.
LEMMA OnToCounts ==
    ASSUME NEW p \in Runs, run[p].step \in {1, 2, 3, 4, 7},
           NEW inserted, NEW skipped, NEW todo, OnTo(p, inserted, skipped, todo),
           torn' = {} => inserted + skipped = ListCounted(run[p].step, todo),
           ~ run[p].fresh => Whole' /\ inserted = 0 /\ todo = {}
    PROVE  CountsOn(p)
<1>1. PICK step : step = run[p].step /\ step \in {1, 2, 3, 4, 7}
  OBVIOUS
<1>2. /\ run'[p].inserted = inserted /\ run'[p].skipped = skipped /\ run'[p].fresh = run[p].fresh
      /\ todo # {} => run'[p].at = "write" /\ run'[p].todo = todo /\ run'[p].step = step
      /\ todo = {} => run'[p].at = "look" /\ run'[p].step = step + 1
  BY <1>1 DEF OnTo
<1>3. CountedSoFar(run'[p]) = ListCounted(step, todo)
  <2>1. CASE todo = {}
    BY <1>2, <2>1 DEF CountedSoFar, ListCounted
  <2>2. CASE todo # {}
    BY <1>1, <1>2, <2>2 DEF CountedSoFar, ListCounted
  <2>. QED  BY <2>1, <2>2
<1>4. SumFits(p)'
  BY <1>1, <1>2, <1>3 DEF SumFits
<1>5. run'[p].at # "done"
  BY <1>2
<1>6. ~ run[p].fresh => Whole' /\ run'[p].inserted = 0 /\ run'[p].at \notin {"create", "write"}
  BY <1>2
<1>7. FindsAll(p)'
  BY <1>2, <1>6, Zenon DEF FindsAll
<1>. QED  BY <1>4, <1>5, <1>7, Zenon DEF CountsOn

\* The counts of a run that knows its row: one more.
LEMMA RowKnownCounts ==
    ASSUME NEW p \in Runs, run[p].step \in {3, 4, 5, 6, 8},
           NEW id, NEW inserted, NEW skipped, RowKnown(p, id, inserted, skipped),
           torn' = {} => inserted + skipped = RowsBefore[run[p].step] + 1,
           ~ run[p].fresh => Whole' /\ inserted = 0
    PROVE  CountsOn(p)
<1>1. PICK step : step = run[p].step /\ step \in {3, 4, 5, 6, 8}
  OBVIOUS
<1>2. /\ run'[p].inserted = inserted /\ run'[p].skipped = skipped /\ run'[p].fresh = run[p].fresh
      /\ step \in {3, 4} => run'[p].at = "listTags" /\ run'[p].step = step
      /\ step \in {5, 6} => run'[p].at = "look" /\ run'[p].step = step + 1
      /\ step = 8 => run'[p].at = "done"
  BY <1>1 DEF RowKnown
<1>3. CountedSoFar(run'[p]) = RowsBefore[step] + 1
  BY <1>1, <1>2, RowsBeforeAre DEF CountedSoFar
<1>4. SumFits(p)'
  BY <1>1, <1>2, <1>3 DEF SumFits
<1>5. ~ run[p].fresh => Whole' /\ run'[p].inserted = 0 /\ run'[p].at \notin {"create", "write"}
  BY <1>1, <1>2
<1>6. FindsAll(p)' /\ (~ run'[p].fresh => run'[p].inserted = 0)
  BY <1>2, <1>5, Zenon DEF FindsAll
<1>. QED  BY <1>4, <1>6, Zenon DEF CountsOn

\* Nothing is said of the counts of a run that failed.
LEMMA FailedCounts ==
    ASSUME NEW p \in Runs, run'[p].at = "failed"
    PROVE  CountsOn(p)
  BY DEF CountsOn, Active, Over

\* Where a run has come to nothing is missing that a run that found everything looks for.
LEMMA WholeFinds ==
    ASSUME SeedShape, NEW p \in Runs, Active(p), Undisturbed(p), Whole
    PROVE  /\ run[p].step = 1 => Here(p).list[1] \in categories
           /\ run[p].step = 2 => Here(p).list[1] \in tags
           /\ run[p].step \in {3, 4, 5, 6, 8} => Found(p) # {}
           /\ run[p].step \in {3, 4} /\ run[p].at = "listTags" => "charting" \in TagsOf(run[p].row)
           /\ run[p].step = 7 => QuestionsIn(run[p].row) # {}
<1>1. /\ run[p].step = 1 => Here(p).list[1] \in categories
      /\ run[p].step = 2 => Here(p).list[1] \in tags
  BY ListsHere, ListsAre DEF Whole
<1>2. ASSUME run[p].step \in {3, 4, 5, 6, 8} PROVE Found(p) # {}
  <2>1. Here(p) \in RowItems /\ (Here(p).type = "lesson" <=> run[p].step = 5)
    BY <1>2, RunAt, WorkIs DEF Here
  <2>2. PICK id : id \in Called(Here(p).slug)
    BY <2>1 DEF Whole, HasRow
  <2>3. CASE run[p].step # 5
    BY <2>1, <2>2, <2>3 DEF Found
  <2>4. CASE run[p].step = 5
    <3>1. id \in DOMAIN rows /\ id.name = "candlesticks"
      BY <2>2, <2>4, WorkIs DEF Called, Here
    <3>2. rows[id] \in DOMAIN rows /\ rows[id].name = "intro"
      BY <3>1 DEF SeedShape, TablesFit, NoOrphans
    <3>3. run[p].course # NoRow /\ run[p].course.name = "intro"
      BY <2>4, RunAt DEF Fits, NeedsCourse
    <3>4. run[p].course \in DOMAIN rows
      BY <3>3 DEF Undisturbed
    <3>5. rows[id] = run[p].course
      BY <3>2, <3>3, <3>4, UniqueNow DEF UniqueNames
    <3>. QED  BY <2>2, <3>5 DEF Found
  <2>. QED  BY <2>3, <2>4
<1>3. ASSUME run[p].step \in {3, 4}, run[p].at = "listTags" PROVE "charting" \in TagsOf(run[p].row)
  <2>1. Here(p) \in RowItems /\ Here(p).kind = "row" /\ Range(Here(p).list) = {"charting"}
    BY <1>3, RunAt, WorkIs, ListsAre DEF Here
  <2>2. HoldsRow(run[p])
    BY <1>3, <2>1 DEF HoldsRow, Here
  <2>3. run[p].row \in DOMAIN rows /\ run[p].row.name = Here(p).slug
    BY <1>3, <2>2, RunAt DEF Undisturbed, Fits, Here
  <2>. QED  BY <2>1, <2>3 DEF Whole, HasTags, Called
<1>4. ASSUME run[p].step = 7 PROVE QuestionsIn(run[p].row) # {}
  <2>1. HoldsRow(run[p])
    BY <1>4, RunAt DEF HoldsRow
  <2>2. run[p].row \in DOMAIN rows /\ run[p].row.name = "intro-quiz"
    BY <1>4, <2>1, RunAt DEF Undisturbed, Fits
  <2>3. HasQuestions(run[p].row)
    BY <2>2, Types DEF Whole
  <2>. QED  BY <2>3, ListsAre DEF HasQuestions
<1>. QED  BY <1>1, <1>2, <1>3, <1>4

\* What the counts rest on.
LEMMA CountsFacts == CountsInv => SeedShape /\ QuizzesSettled /\ AloneInv /\ KeptInv
  BY DEF CountsInv, KeptInv

\* Categories and tags are counted as found or created.
LEMMA ReferenceCounts ==
    ASSUME CountsInv, KeptInv', AloneInv', NEW p \in Runs, ListReference(p) \/ CreateReference(p)
    PROVE  CountsInv'
<1>1. SeedShape /\ Active(p) /\ UNCHANGED overlapped
  BY CountsFacts DEF ListReference, CreateReference, At
<1>2. PICK step, ins, skip : step = run[p].step /\ ins = run[p].inserted /\ skip = run[p].skipped
  OBVIOUS
<1>3. ins \in Nat /\ skip \in Nat
  BY <1>1, <1>2, RunAt DEF RunTyped, RunStates
<1>4. CASE ListReference(p)
  <2>1. /\ OthersStay(p) /\ step \in {1, 2} /\ run[p].at = "look"
        /\ \/ OnTo(p, ins, skip + 1, {})
           \/ /\ Here(p).list[1] \notin (IF step = 1 THEN categories ELSE tags)
              /\ OnTo(p, ins, skip, {1})
    BY <1>1, <1>2, <1>4, ListReferenceDoes
  <2>2. UNCHANGED tables /\ torn' = torn
    BY <1>4 DEF ListReference
  <2>3. ASSUME Undisturbed(p), SumFits(p), FindsAll(p) PROVE CountsOn(p)
    <3>1. torn = {} => ins + skip = RowsBefore[step]
      BY <1>2, <2>1, <2>3 DEF SumFits, CountedSoFar
    <3>2. ~ run[p].fresh => Whole /\ ins = 0
      BY <1>2, <2>3, Zenon DEF FindsAll
    <3>3. Whole => Whole'
      BY <2>2, WholeStays
    <3>4. PICK skipped, todo :
             /\ OnTo(p, ins, skipped, todo)
             /\ \/ skipped = skip + 1 /\ todo = {}
                \/ /\ skipped = skip /\ todo = {1}
                   /\ Here(p).list[1] \notin (IF step = 1 THEN categories ELSE tags)
      BY <2>1
    <3>5. torn' = {} => ins + skipped = ListCounted(step, todo)
      <4>1. CASE skipped = skip + 1 /\ todo = {}
        <5>1. ListCounted(step, todo) = RowsBefore[step] + 1
          BY <2>1, <4>1, RowsBeforeAre DEF ListCounted
        <5>. QED  BY <1>3, <2>2, <3>1, <4>1, <5>1
      <4>2. CASE skipped = skip /\ todo = {1}
        <5>1. ListCounted(step, todo) = RowsBefore[step]
          BY <2>1, <4>2 DEF ListCounted
        <5>. QED  BY <2>2, <3>1, <4>2, <5>1
      <4>. QED  BY <3>4, <4>1, <4>2
    <3>6. ~ run[p].fresh => todo = {}
      BY <1>1, <1>2, <2>1, <2>3, <3>2, <3>4, WholeFinds
    <3>. QED  BY <1>2, <2>1, <3>2, <3>3, <3>4, <3>5, <3>6, OnToCounts
  <2>. QED  BY <1>1, <2>1, <2>2, <2>3, CountsStep
<1>5. CASE CreateReference(p)
  <2>1. /\ OthersStay(p) /\ step \in {1, 2} /\ run[p].at = "write"
        /\ \/ /\ run'[p] = [NotStarted EXCEPT !.at = "failed"]
              /\ torn' = torn \cup Halfway(p)
           \/ OnTo(p, ins + 1, skip, {}) /\ UNCHANGED torn
    BY <1>1, <1>2, <1>5, CreateReferenceDoes
  <2>2. torn \subseteq torn'
    BY <2>1
  <2>3. ASSUME Undisturbed(p), SumFits(p), FindsAll(p) PROVE CountsOn(p)
    <3>1. torn = {} => ins + skip = RowsBefore[step]
      BY <1>2, <2>1, <2>3 DEF SumFits, CountedSoFar
    <3>2. run[p].fresh
      BY <2>1, <2>3 DEF FindsAll
    <3>3. CASE run'[p] = [NotStarted EXCEPT !.at = "failed"]
      BY <3>3, FailedCounts DEF NotStarted
    <3>4. CASE OnTo(p, ins + 1, skip, {})
      <4>1. PICK inserted, todo : OnTo(p, inserted, skip, todo) /\ inserted = ins + 1 /\ todo = {}
        BY <3>4
      <4>2. torn' = {} => inserted + skip = ListCounted(step, todo)
        BY <1>3, <2>1, <2>2, <3>1, <4>1, RowsBeforeAre DEF ListCounted
      <4>. QED  BY <1>2, <2>1, <3>2, <4>1, <4>2, OnToCounts
    <3>. QED  BY <2>1, <3>3, <3>4
  <2>. QED  BY <1>1, <2>1, <2>2, <2>3, CountsStep
<1>. QED  BY <1>4, <1>5

\* Rows are counted as found or created.
LEMMA RowCounts ==
    ASSUME CountsInv, KeptInv', AloneInv', NEW p \in Runs, LookForRow(p) \/ CreateRow(p)
    PROVE  CountsInv'
<1>1. SeedShape /\ Active(p) /\ UNCHANGED overlapped
  BY CountsFacts DEF LookForRow, CreateRow, At
<1>2. PICK step, ins, skip : step = run[p].step /\ ins = run[p].inserted /\ skip = run[p].skipped
  OBVIOUS
<1>3. ins \in Nat /\ skip \in Nat
  BY <1>1, <1>2, RunAt DEF RunTyped, RunStates
<1>4. CASE LookForRow(p)
  <2>1. /\ OthersStay(p) /\ run[p].at = "look" /\ step \in {3, 4, 5, 6, 8}
        /\ \/ Found(p) = {} /\ run'[p] = [run[p] EXCEPT !.at = "create"]
           \/ \E id \in Found(p) : RowKnown(p, id, ins, skip + 1)
    BY <1>1, <1>2, <1>4, LookForRowDoes
  <2>2. UNCHANGED tables /\ torn' = torn
    BY <1>4 DEF LookForRow
  <2>3. ASSUME Undisturbed(p), SumFits(p), FindsAll(p) PROVE CountsOn(p)
    <3>1. torn = {} => ins + skip = RowsBefore[step]
      BY <1>2, <2>1, <2>3 DEF SumFits, CountedSoFar
    <3>2. ~ run[p].fresh => Whole /\ ins = 0
      BY <1>2, <2>3, Zenon DEF FindsAll
    <3>3. Whole => Whole'
      BY <2>2, WholeStays
    <3>4. CASE Found(p) = {} /\ run'[p] = [run[p] EXCEPT !.at = "create"]
      <4>1. /\ run'[p].at = "create" /\ run'[p].step = step /\ run'[p].inserted = ins
            /\ run'[p].skipped = skip /\ run'[p].fresh = run[p].fresh
        BY <1>1, <1>2, <3>4, RunAt DEF RunTyped, RunStates
      <4>2. run[p].fresh
        BY <1>1, <1>2, <2>1, <2>3, <3>2, <3>4, WholeFinds
      <4>3. SumFits(p)'
        BY <2>2, <3>1, <4>1 DEF SumFits, CountedSoFar
      <4>4. FindsAll(p)'
        BY <4>1, <4>2, Zenon DEF FindsAll
      <4>5. run'[p].at # "done"
        BY <4>1
      <4>. QED  BY <4>3, <4>4, <4>5, Zenon DEF CountsOn
    <3>5. CASE \E id \in Found(p) : RowKnown(p, id, ins, skip + 1)
      <4>1. PICK id, skipped : RowKnown(p, id, ins, skipped) /\ skipped = skip + 1
        BY <3>5
      <4>2. torn' = {} => ins + skipped = RowsBefore[step] + 1
        BY <1>3, <2>2, <3>1, <4>1
      <4>. QED  BY <1>2, <2>1, <3>2, <3>3, <4>1, <4>2, RowKnownCounts
    <3>. QED  BY <2>1, <3>4, <3>5
  <2>. QED  BY <1>1, <2>1, <2>2, <2>3, CountsStep
<1>5. CASE CreateRow(p)
  <2>1. /\ OthersStay(p) /\ run[p].at = "create" /\ step \in {3, 4, 5, 6, 8}
        /\ \/ /\ run'[p] = [NotStarted EXCEPT !.at = "failed"]
              /\ torn' = torn \cup Halfway(p)
           \/ /\ \E id \in RowIds : RowKnown(p, id, ins + 1, skip)
              /\ UNCHANGED torn
    BY <1>1, <1>2, <1>5, CreateRowDoes
  <2>2. torn \subseteq torn'
    BY <2>1
  <2>3. ASSUME Undisturbed(p), SumFits(p), FindsAll(p) PROVE CountsOn(p)
    <3>1. torn = {} => ins + skip = RowsBefore[step]
      BY <1>2, <2>1, <2>3 DEF SumFits, CountedSoFar
    <3>2. run[p].fresh
      BY <2>1, <2>3 DEF FindsAll
    <3>3. CASE run'[p] = [NotStarted EXCEPT !.at = "failed"]
      BY <3>3, FailedCounts DEF NotStarted
    <3>4. CASE \E id \in RowIds : RowKnown(p, id, ins + 1, skip)
      <4>1. PICK id, inserted : RowKnown(p, id, inserted, skip) /\ inserted = ins + 1
        BY <3>4
      <4>2. torn' = {} => inserted + skip = RowsBefore[step] + 1
        BY <1>3, <2>2, <3>1, <4>1, <2>1, RowsBeforeAre
      <4>. QED  BY <1>2, <2>1, <3>2, <4>1, <4>2, RowKnownCounts
    <3>. QED  BY <2>1, <3>3, <3>4
  <2>. QED  BY <1>1, <2>1, <2>2, <2>3, CountsStep
<1>. QED  BY <1>4, <1>5

\* Tags of a row are not counted.
LEMMA TagsCounts ==
    ASSUME CountsInv, KeptInv', AloneInv', NEW p \in Runs, ListTags(p) \/ Attach(p)
    PROVE  CountsInv'
<1>1. SeedShape /\ Active(p) /\ UNCHANGED overlapped
  BY CountsFacts DEF ListTags, Attach, At
<1>2. PICK step, ins, skip : step = run[p].step /\ ins = run[p].inserted /\ skip = run[p].skipped
  OBVIOUS
<1>3. ins \in Nat /\ skip \in Nat
  BY <1>1, <1>2, RunAt DEF RunTyped, RunStates
<1>4. CASE ListTags(p)
  <2>1. /\ OthersStay(p) /\ run[p].at = "listTags" /\ step \in {3, 4}
        /\ OnTo(p, ins, skip, IF "charting" \in TagsOf(run[p].row) THEN {} ELSE {1})
    BY <1>1, <1>2, <1>4, ListTagsDoes
  <2>2. UNCHANGED tables /\ torn' = torn
    BY <1>4 DEF ListTags
  <2>3. ASSUME Undisturbed(p), SumFits(p), FindsAll(p) PROVE CountsOn(p)
    <3>1. torn = {} => ins + skip = RowsBefore[step] + 1
      BY <1>2, <2>1, <2>3 DEF SumFits, CountedSoFar
    <3>2. ~ run[p].fresh => Whole /\ ins = 0
      BY <1>2, <2>3, Zenon DEF FindsAll
    <3>3. Whole => Whole'
      BY <2>2, WholeStays
    <3>4. PICK todo : /\ OnTo(p, ins, skip, todo)
                      /\ todo = IF "charting" \in TagsOf(run[p].row) THEN {} ELSE {1}
      BY <2>1
    <3>5. torn' = {} => ins + skip = ListCounted(step, todo)
      BY <1>3, <2>1, <2>2, <3>1, <3>4, RowsBeforeAre DEF ListCounted
    <3>6. ~ run[p].fresh => todo = {}
      BY <1>1, <1>2, <2>1, <2>3, <3>2, <3>4, WholeFinds
    <3>. QED  BY <1>2, <2>1, <3>2, <3>3, <3>4, <3>5, <3>6, OnToCounts
  <2>. QED  BY <1>1, <2>1, <2>2, <2>3, CountsStep
<1>5. CASE Attach(p)
  <2>1. /\ OthersStay(p) /\ run[p].at = "write" /\ step \in {3, 4}
        /\ \/ /\ run'[p] = [NotStarted EXCEPT !.at = "failed"]
              /\ torn' = torn \cup Halfway(p)
           \/ OnTo(p, ins, skip, {}) /\ UNCHANGED torn
    BY <1>1, <1>2, <1>5, AttachDoes
  <2>2. torn \subseteq torn'
    BY <2>1
  <2>3. ASSUME Undisturbed(p), SumFits(p), FindsAll(p) PROVE CountsOn(p)
    <3>1. torn = {} => ins + skip = RowsBefore[step] + 1
      BY <1>2, <2>1, <2>3 DEF SumFits, CountedSoFar
    <3>2. run[p].fresh
      BY <2>1, <2>3 DEF FindsAll
    <3>3. CASE run'[p] = [NotStarted EXCEPT !.at = "failed"]
      BY <3>3, FailedCounts DEF NotStarted
    <3>4. CASE OnTo(p, ins, skip, {})
      <4>1. PICK todo : OnTo(p, ins, skip, todo) /\ todo = {}
        BY <3>4
      <4>2. torn' = {} => ins + skip = ListCounted(step, todo)
        BY <1>3, <2>1, <2>2, <3>1, <4>1, RowsBeforeAre DEF ListCounted
      <4>. QED  BY <1>2, <2>1, <3>2, <4>1, <4>2, OnToCounts
    <3>. QED  BY <2>1, <3>3, <3>4
  <2>. QED  BY <1>1, <2>1, <2>2, <2>3, CountsStep
<1>. QED  BY <1>4, <1>5

\* Questions are counted as found, all at once, or created, one by one.
LEMMA QuestionsCounts ==
    ASSUME CountsInv, KeptInv', AloneInv', NEW p \in Runs, ListQuestions(p) \/ CreateQuestion(p)
    PROVE  CountsInv'
<1>1. SeedShape /\ Active(p) /\ UNCHANGED overlapped
  BY CountsFacts DEF ListQuestions, CreateQuestion, At
<1>2. PICK ins, skip, id : ins = run[p].inserted /\ skip = run[p].skipped /\ id = run[p].row
  OBVIOUS
<1>3. ins \in Nat /\ skip \in Nat
  BY <1>1, <1>2, RunAt DEF RunTyped, RunStates
<1>4. CASE ListQuestions(p)
  <2>1. /\ OthersStay(p) /\ run[p].at = "look" /\ run[p].step = 7
        /\ \/ /\ QuestionsIn(id) # {}
              /\ OnTo(p, ins, skip + Cardinality(QuestionsIn(id)), {})
           \/ QuestionsIn(id) = {} /\ OnTo(p, ins, skip, {1, 2})
    BY <1>1, <1>2, <1>4, ListQuestionsDoes
  <2>2. UNCHANGED tables /\ torn' = torn
    BY <1>4 DEF ListQuestions
  <2>3. ASSUME p \notin overlapped, Undisturbed(p), SumFits(p), FindsAll(p) PROVE CountsOn(p)
    <3>1. torn = {} => ins + skip = 6
      BY <1>2, <2>1, <2>3, RowsBeforeAre DEF SumFits, CountedSoFar
    <3>2. ~ run[p].fresh => Whole /\ ins = 0
      BY <1>2, <2>3, Zenon DEF FindsAll
    <3>3. Whole => Whole'
      BY <2>2, WholeStays
    <3>4. Whole => QuestionsIn(id) # {}
      BY <1>1, <1>2, <2>1, <2>3, WholeFinds
    <3>5. ASSUME torn = {}, QuestionsIn(id) # {} PROVE Cardinality(QuestionsIn(id)) = 2
      <4>1. HoldsRow(run[p])
        BY <2>1 DEF HoldsRow, RunPhases
      <4>2. id \in DOMAIN rows /\ id.name = "intro-quiz"
        BY <1>1, <1>2, <2>1, <2>3, <4>1, RunAt DEF Undisturbed, Fits
      <4>3. QuizSettled(id)
        BY <3>5, <4>2, CountsFacts DEF QuizzesSettled
      <4>4. \A q \in Runs : Active(q) => q = p
        BY <1>1, <2>3, CountsFacts DEF AloneInv, OverlapsNoted
      <4>5. Halfway(p) = {}
        BY <1>1, <2>1, NotHalfway
      <4>6. HasQuestions(id)
        BY <3>5, <4>3, <4>4, <4>5 DEF QuizSettled
      <4>. QED  BY <1>1, <4>6, QuestionsAre
    <3>6. CASE QuestionsIn(id) # {} /\ OnTo(p, ins, skip + Cardinality(QuestionsIn(id)), {})
      <4>1. PICK skipped, todo : /\ OnTo(p, ins, skipped, todo) /\ todo = {}
                                 /\ skipped = skip + Cardinality(QuestionsIn(id))
        BY <3>6
      <4>2. ListCounted(7, todo) = 8
        BY <4>1, RowsBeforeAre DEF ListCounted
      <4>3. torn' = {} => ins + skipped = ListCounted(run[p].step, todo)
        BY <1>3, <2>1, <2>2, <3>1, <3>5, <3>6, <4>1, <4>2
      <4>. QED  BY <2>1, <3>2, <3>3, <4>1, <4>3, OnToCounts
    <3>7. CASE QuestionsIn(id) = {} /\ OnTo(p, ins, skip, {1, 2})
      <4>1. PICK todo : OnTo(p, ins, skip, todo) /\ todo = {1, 2}
        BY <3>7
      <4>2. ListCounted(7, todo) = 6
        BY <4>1 DEF ListCounted
      <4>3. torn' = {} => ins + skip = ListCounted(run[p].step, todo)
        BY <2>1, <2>2, <3>1, <4>2
      <4>4. ~ run[p].fresh => FALSE
        BY <3>2, <3>4, <3>7
      <4>. QED  BY <2>1, <4>1, <4>3, <4>4, OnToCounts
    <3>. QED  BY <2>1, <3>6, <3>7
  <2>. QED  BY <1>1, <2>1, <2>2, <2>3, CountsStep
<1>5. CASE CreateQuestion(p)
  <2>1. /\ OthersStay(p) /\ run[p].at = "write" /\ run[p].step = 7
        /\ \/ /\ run'[p] = [NotStarted EXCEPT !.at = "failed"]
              /\ torn' = torn \cup Halfway(p)
           \/ /\ \E i \in run[p].todo : OnTo(p, ins + 1, skip, run[p].todo \ {i})
              /\ UNCHANGED torn
    BY <1>1, <1>2, <1>5, CreateQuestionDoes
  <2>2. torn \subseteq torn'
    BY <2>1
  <2>3. ASSUME Undisturbed(p), SumFits(p), FindsAll(p) PROVE CountsOn(p)
    <3>1. torn = {} => ins + skip = IF run[p].todo = {1, 2} THEN 6 ELSE 7
      BY <1>2, <2>1, <2>3 DEF SumFits, CountedSoFar
    <3>2. run[p].fresh
      BY <2>1, <2>3 DEF FindsAll
    <3>3. CASE run'[p] = [NotStarted EXCEPT !.at = "failed"]
      BY <3>3, FailedCounts DEF NotStarted
    <3>4. CASE \E i \in run[p].todo : OnTo(p, ins + 1, skip, run[p].todo \ {i})
      <4>1. PICK i, inserted, todo :
                i \in run[p].todo /\ OnTo(p, inserted, skip, todo) /\ inserted = ins + 1 /\ todo = run[p].todo \ {i}
        BY <3>4
      <4>2. run[p].todo \subseteq {1, 2}
        BY <1>1, <2>1, ListsHere
      <4>3. ListCounted(7, todo) = (IF run[p].todo = {1, 2} THEN 6 ELSE 7) + 1
        <5>1. CASE run[p].todo = {1, 2}
          <6>1. todo # {} /\ todo # {1, 2}
            BY <4>1, <5>1
          <6>. QED  BY <5>1, <6>1 DEF ListCounted
        <5>2. CASE run[p].todo # {1, 2}
          <6>1. todo = {}
            BY <4>1, <4>2, <5>2
          <6>. QED  BY <5>2, <6>1, RowsBeforeAre DEF ListCounted
        <5>. QED  BY <5>1, <5>2
      <4>4. torn' = {} => inserted + skip = ListCounted(run[p].step, todo)
        BY <1>3, <2>1, <2>2, <3>1, <4>1, <4>3
      <4>. QED  BY <2>1, <3>2, <4>1, <4>4, OnToCounts
    <3>. QED  BY <2>1, <3>3, <3>4
  <2>. QED  BY <1>1, <2>1, <2>2, <2>3, CountsStep
<1>. QED  BY <1>4, <1>5

\* A run that is over keeps its counts.
LEMMA OverCounts ==
    ASSUME CountsInv, NEW q \in Runs, q \notin overlapped, ~ Active(q), run'[q] = run[q],
           torn \subseteq torn'
    PROVE  CountsOn(q)
<1>1. ~ Active(q)'
  BY DEF Active
<1>2. ASSUME run[q].at = "done" PROVE SumFits(q) /\ (~ run[q].fresh => run[q].inserted = 0)
  BY <1>2, Zenon DEF CountsInv
<1>3. run[q].at = "done" => SumFits(q)'
  BY <1>2 DEF SumFits
<1>. QED  BY <1>1, <1>2, <1>3, Zenon DEF CountsOn

\* The invariant holds if every undisturbed run counts right.
LEMMA AllCount ==
    ASSUME KeptInv', AloneInv', \A q \in Runs \ overlapped' : CountsOn(q)
    PROVE  CountsInv'
  BY Zenon DEF CountsInv, CountsOn

\* A run that starts has counted nothing, which is right.
LEMMA StartCounts ==
    ASSUME CountsInv, KeptInv', AloneInv', NEW p \in Runs, Start(p)
    PROVE  CountsInv'
<1>1. /\ run'[p].at = "look" /\ run'[p].step = 1 /\ run'[p].fresh = ~ Whole
      /\ run'[p].inserted = 0 /\ run'[p].skipped = 0 /\ \A q \in Runs \ {p} : run'[q] = run[q]
  BY CountsFacts, StartDoes
<1>2. UNCHANGED tables /\ torn' = torn
  BY DEF Start
<1>3. PICK others : /\ others = {q \in Runs \ {p} : Active(q)}
                    /\ overlapped' = (overlapped \ {p}) \cup others \cup (IF others # {} THEN {p} ELSE {})
  BY DEF Start
<1>4. CountsOn(p)
  <2>1. SumFits(p)'
    BY <1>1, RowsBeforeAre DEF SumFits, CountedSoFar
  <2>2. ~ run'[p].fresh => Whole'
    BY <1>1, <1>2, WholeStays, Zenon
  <2>3. run'[p].at \notin {"create", "write"} /\ run'[p].at # "done"
    BY <1>1
  <2>4. FindsAll(p)'
    BY <1>1, <2>2, <2>3, Zenon DEF FindsAll
  <2>. QED  BY <2>1, <2>3, <2>4, Zenon DEF CountsOn
<1>5. ASSUME NEW q \in Runs \ overlapped', q # p PROVE CountsOn(q)
  <2>1. q \in Runs /\ q \notin overlapped /\ ~ Active(q) /\ run'[q] = run[q]
    BY <1>1, <1>3, <1>5
  <2>. QED  BY <1>2, <2>1, OverCounts
<1>. QED  BY <1>4, <1>5, AllCount

\* A run that is stopped has counted nothing, which is right.
LEMMA StopCounts ==
    ASSUME CountsInv, KeptInv', AloneInv', NEW p \in Runs, Stop(p)
    PROVE  CountsInv'
<1>1. run'[p].at = "idle" /\ \A q \in Runs \ {p} : run'[q] = run[q]
  BY CountsFacts, StopDoes DEF NotStarted
<1>2. Active(p) /\ overlapped' = overlapped \ {p} /\ torn \subseteq torn'
  BY DEF Stop
<1>3. CountsOn(p)
  BY <1>1 DEF CountsOn, Active, Over
<1>4. ASSUME NEW q \in Runs \ overlapped', q # p PROVE CountsOn(q)
  <2>1. q \in Runs /\ q \notin overlapped /\ run'[q] = run[q]
    BY <1>1, <1>2, <1>4
  <2>2. ~ Active(q)
    BY <1>2, <1>4, <2>1, CountsFacts DEF AloneInv, OverlapsNoted
  <2>. QED  BY <1>2, <2>1, <2>2, OverCounts
<1>. QED  BY <1>3, <1>4, AllCount

\* An admin leaves no active run undisturbed.
LEMMA AdminCounts ==
    ASSUME CountsInv, KeptInv', AloneInv', Admin
    PROVE  CountsInv'
<1>1. run' = run /\ overlapped' = overlapped \cup {p \in Runs : Active(p)}
  BY AdminKeepsShape DEF CountsInv, AloneInv
<1>2. torn \subseteq torn'
  BY DEF Admin, AdminAddsReference, AdminCreates, AdminRemoves, AdminAddsQuestion, AdminTags,
         AdminRemovesQuestion, AdminUntags
<1>3. ASSUME NEW q \in Runs \ overlapped' PROVE CountsOn(q)
  <2>1. q \in Runs /\ q \notin overlapped /\ ~ Active(q) /\ run'[q] = run[q]
    BY <1>1, <1>3
  <2>. QED  BY <1>2, <2>1, OverCounts
<1>. QED  BY <1>3, AllCount

\* At first no run has counted anything.
LEMMA CountsInit == SeedInit => CountsInv
<1> SUFFICES ASSUME SeedInit PROVE CountsInv
  OBVIOUS
<1>1. \A p \in Runs : run[p].at = "idle" /\ ~ Active(p)
  BY DEF SeedInit, NotStarted, Active, Over
<1>. QED  BY <1>1, KeptInit, AloneInit DEF CountsInv

\* Every step keeps the counts.
LEMMA CountsNext == CountsInv /\ [SeedNext]_seedVars => CountsInv'
<1> SUFFICES ASSUME CountsInv, [SeedNext]_seedVars PROVE CountsInv'
  OBVIOUS
<1>1. KeptInv' /\ AloneInv'
  BY KeptStep, AloneNext DEF CountsInv
<1>2. CASE UNCHANGED seedVars
  <2>1. UNCHANGED tables /\ torn' = torn /\ run' = run /\ overlapped' = overlapped
    BY <1>2 DEF seedVars
  <2>2. ASSUME NEW q \in Runs \ overlapped PROVE CountsOn(q)
    <3>1. Active(q)' = Active(q) /\ (SumFits(q) => SumFits(q)')
      BY <2>1 DEF Active, SumFits
    <3>2. FindsAll(q) => FindsAll(q)'
      BY <2>1, WholeStays, Zenon DEF FindsAll
    <3>. QED  BY <2>1, <2>2, <3>1, <3>2, Zenon DEF CountsInv, CountsOn
  <2>. QED  BY <1>1, <2>1, <2>2, AllCount
<1>3. CASE Admin
  BY <1>1, <1>3, AdminCounts
<1>4. ASSUME NEW p \in Runs, SeedStep(p) PROVE CountsInv'
  BY <1>1, <1>4, StartCounts, ReferenceCounts, RowCounts, TagsCounts, QuestionsCounts, StopCounts
     DEF SeedStep
<1>. QED  BY <1>2, <1>3, <1>4 DEF SeedNext

\* The SeedCounts of a run nobody disturbs add up, and a re-run inserts nothing.
THEOREM CountsAlwaysAddUp == SeedSpec => []CountsAddUp
<1>1. SeedSpec => []CountsInv
  BY CountsInit, CountsNext, PTL DEF SeedSpec
<1>. QED  BY <1>1, CountsInvCounts, PTL

===============================================================================
