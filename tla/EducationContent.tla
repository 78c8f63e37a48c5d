--------------------------- MODULE EducationContent ---------------------------
(***************************************************************************)
(* services/education: the create, update and remove that the glossary,    *)
(* course, strategy and quiz repositories repeat, of one content type, with *)
(* the revision history (education_content_revisions) that updates write.  *)
(*                                                                         *)
(* update() reads the row, merges the patch into what it read, and then in *)
(* one transaction inserts the revision of that version and updates the    *)
(* row.  PostgreSQL makes a transaction wait that inserts a key which an   *)
(* open one has inserted; nothing else of an open transaction shows, so    *)
(* its UPDATE and COMMIT are one step.                                     *)
(***************************************************************************)
EXTENDS Integers, Tables

CONSTANTS
    ContentIds, Slugs, Fields, Values,
    MaxVersion,  \* bound on versions
    Requests,    \* the requests of a behaviour, each served once
    NULL         \* nothing: an absent field of a patch, no row

ASSUME MaxVersionAssumption == MaxVersion \in Nat
ASSUME NullAssumption == NULL \notin Values \cup ContentIds

VARIABLES
    content,     \* the content table: id -> row
    usedIds,     \* every id ever generated, removed content included
    revisions,   \* table education_content_revisions: <<id, version>> -> snapshot
    request,     \* what each admin sent
    found,       \* the row each update read, and its id
    pc           \* where each handler is, or the reply it gave

vars == <<content, usedIds, revisions, request, found, pc>>

-------------------------------------------------------------------------------

Body  == [Fields -> Values]
Patch == [Fields -> Values \cup {NULL}]
Row   == [slug : Slugs, version : Nat, body : Body]

CreateRequest == [op : {"create"}, slug : Slugs, body : Body]
UpdateRequest == [op : {"update"}, slug : Slugs, patch : Patch]
NoRequest     == [op |-> "none"]

Phases  == {"insert", "find", "txInsert", "txUpdate"}
\* 2xx, 404, 409, the 500 of a revision that is there, and every other failure.
Replies == {"ok", "notFound", "conflict", "error", "lost"}

TypeOK ==
    /\ IsTable(content, ContentIds, Row)
    /\ usedIds \subseteq ContentIds
    /\ IsTable(revisions, ContentIds \X Nat, Row)
    /\ request \in [Requests -> CreateRequest \cup UpdateRequest \cup {NoRequest}]
    /\ found \in [Requests -> [id : ContentIds, row : Row] \cup {[id |-> NULL]}]
    /\ pc \in [Requests -> {"idle"} \cup Phases \cup Replies]

Init ==
    /\ content = EmptyTable
    /\ usedIds = {}
    /\ revisions = EmptyTable
    /\ request = [r \in Requests |-> NoRequest]
    /\ found = [r \in Requests |-> [id |-> NULL]]
    /\ pc = [r \in Requests |-> "idle"]

Goto(r, where) == pc' = [pc EXCEPT ![r] = where]

Arrive(r, req, where) ==
    /\ pc[r] = "idle"
    /\ request' = [request EXCEPT ![r] = req]
    /\ Goto(r, where)
    /\ UNCHANGED <<content, usedIds, revisions, found>>

Named(slug) == {id \in DOMAIN content : content[id].slug = slug}

-------------------------------------------------------------------------------
(* create *)

CreateArrives(r) ==
    \E slug \in Slugs, body \in Body :
        Arrive(r, [op |-> "create", slug |-> slug, body |-> body], "insert")

\* await insert: SlugInUseError when the unique index on slug rejects it.
InsertContent(r) ==
    LET req == request[r]
    IN  /\ pc[r] = "insert"
        /\ \/ /\ Named(req.slug) = {}
              /\ \E id \in ContentIds \ usedIds :
                    /\ content' = Put(content, id, [slug |-> req.slug, version |-> 1,
                                                    body |-> req.body])
                    /\ usedIds' = usedIds \cup {id}
              /\ Goto(r, "ok")
           \/ /\ Named(req.slug) # {}
              /\ Goto(r, "conflict")
              /\ UNCHANGED <<content, usedIds>>
        /\ UNCHANGED <<revisions, request, found>>

-------------------------------------------------------------------------------
(* update *)

UpdateArrives(r) ==
    \E slug \in Slugs, patch \in Patch :
        Arrive(r, [op |-> "update", slug |-> slug, patch |-> patch], "find")

\* await getBySlug: NotFoundError, or the row the patch is merged into.
FindContent(r) ==
    /\ pc[r] = "find"
    /\ \/ \E id \in Named(request[r].slug) :
             /\ content[id].version < MaxVersion
             /\ found' = [found EXCEPT ![r] = [id |-> id, row |-> content[id]]]
             /\ Goto(r, "txInsert")
       \/ /\ Named(request[r].slug) = {}
          /\ Goto(r, "notFound")
          /\ UNCHANGED found
    /\ UNCHANGED <<content, usedIds, revisions, request>>

\* The row the update would leave, decided by what it read.
Merged(r) ==
    LET row   == found[r].row
        patch == request[r].patch
    IN  [row EXCEPT !.version = @ + 1,
                    !.body = [f \in Fields |-> IF patch[f] = NULL THEN row.body[f] ELSE patch[f]]]

Key(r) == <<found[r].id, found[r].row.version>>

\* The revision an open transaction has inserted.
Locked(k) == \E q \in Requests : pc[q] = "txUpdate" /\ Key(q) = k

\* await tx.insert(revision): waits for an open transaction on the same key; a unique
\* violation is not mapped and becomes a 500.
InsertRevision_NoIndex(r) ==
    /\ pc[r] = "txInsert"
    /\ Goto(r, "txUpdate")
    /\ UNCHANGED <<content, usedIds, revisions, request, found>>
InsertRevision(r) ==
    /\ pc[r] = "txInsert"
    /\ ~ Locked(Key(r))
    /\ Goto(r, IF Key(r) \in DOMAIN revisions THEN "error" ELSE "txUpdate")
    /\ UNCHANGED <<content, usedIds, revisions, request, found>>

\* await tx.update ... where id, and the commit.  Content removed meanwhile stays removed;
\* its revision is stored all the same.
UpdateContent_Upsert(r) ==
    /\ pc[r] = "txUpdate"
    /\ revisions' = Put(revisions, Key(r), found[r].row)
    /\ content' = Put(content, found[r].id, Merged(r))
    /\ Goto(r, "ok")
    /\ UNCHANGED <<usedIds, request, found>>
UpdateContent(r) ==
    /\ pc[r] = "txUpdate"
    /\ revisions' = Put(revisions, Key(r), found[r].row)
    /\ content' = IF found[r].id \in DOMAIN content
                  THEN Put(content, found[r].id, Merged(r))
                  ELSE content
    /\ Goto(r, "ok")
    /\ UNCHANGED <<usedIds, request, found>>

-------------------------------------------------------------------------------

\* remove: one DELETE; the revisions, which reference no table, stay.
RemoveContent(slug) ==
    /\ Named(slug) # {}
    /\ content' = Drop(content, Named(slug))
    /\ UNCHANGED <<usedIds, revisions, request, found, pc>>

\* A query fails (a category or course that does not exist, a lost connection) or the service
\* dies: an open transaction rolls back.
Abort(r) ==
    /\ pc[r] \in Phases
    /\ Goto(r, "lost")
    /\ UNCHANGED <<content, usedIds, revisions, request, found>>

Step(r) ==
    \/ CreateArrives(r) \/ InsertContent(r)
    \/ UpdateArrives(r) \/ FindContent(r) \/ InsertRevision(r) \/ UpdateContent(r)
    \/ Abort(r)

Next ==
    \/ \E r \in Requests : Step(r)
    \/ \E slug \in Slugs : RemoveContent(slug)

Spec == Init /\ [][Next]_vars

-------------------------------------------------------------------------------
(* Correctness *)

Updated(r) == request[r].op = "update" /\ pc[r] = "ok"

\* The history of existing content has exactly the versions its counter has left behind:
\* "must never end up missing the row a version bump implies, or (worse) contain one the
\* content table's own version counter doesn't agree with" (repository.ts, update).
HistoryComplete ==
    \A id \in DOMAIN content :
        /\ \A v \in 1..(content[id].version - 1) : <<id, v>> \in DOMAIN revisions
        /\ \A k \in DOMAIN revisions : k[1] = id => k[2] \in 1..(content[id].version - 1)

\* No accepted edit is lost: what the update returned is the current row, or the revision
\* of its version, while the content exists, whatever other edits read before it.
EditsLast ==
    \A r \in Requests :
        Updated(r) /\ found[r].id \in DOMAIN content =>
            LET id == found[r].id
                v  == Merged(r).version
            IN  \/ content[id] = Merged(r)
                \/ <<id, v>> \in DOMAIN revisions /\ revisions[<<id, v>>] = Merged(r)

\* An update meets the revisions' unique index, a 500, only because another edit of the
\* version it read was accepted: the content, if it exists, has moved past that version, and
\* reading it again helps.
LosersLostARace ==
    \A r \in Requests :
        pc[r] = "error" =>
            /\ \E q \in Requests : Updated(q) /\ Key(q) = Key(r)
            /\ found[r].id \in DOMAIN content =>
                   content[found[r].id].version > found[r].row.version

\* The tables implement atomic edits: a merge into a stale read never takes effect.
History   == [k \in {x \in DOMAIN revisions : x[1] \in DOMAIN content} |-> revisions[k]]
Versioned == INSTANCE VersionedContent WITH history <- History
ImplementsVersioned == Versioned!Spec

-------------------------------------------------------------------------------
(* The inductive invariant.                                                    *)

\* Ids are never reused, slugs are unique.
TablesOK ==
    /\ DOMAIN content \subseteq usedIds
    /\ \A id, other \in DOMAIN content : content[id].slug = content[other].slug => id = other
    /\ \A id \in DOMAIN content : content[id].version >= 1

\* Which request a handler serves, by where it is, and the age of the row it has read.
HandlersOK ==
    \A r \in Requests :
        /\ pc[r] = "insert" => request[r].op = "create"
        /\ pc[r] \in {"find", "txInsert", "txUpdate", "error"} => request[r].op = "update"
        /\ pc[r] \in {"txInsert", "txUpdate", "error"} \/ Updated(r) =>
               /\ found[r].id \in usedIds
               /\ found[r].row.version >= 1
               /\ found[r].id \in DOMAIN content =>
                      LET row == content[found[r].id]
                      IN  /\ row.version >= found[r].row.version
                          /\ row.version = found[r].row.version => row = found[r].row

\* One open transaction per revision, of a revision that is not stored yet.
LocksOK ==
    \A r \in Requests :
        pc[r] = "txUpdate" =>
            /\ Key(r) \notin DOMAIN revisions
            /\ \A q \in Requests \ {r} : pc[q] = "txUpdate" => Key(q) # Key(r)

\* Every revision was stored by an accepted update.
RevisionsOK ==
    \A k \in DOMAIN revisions :
        /\ k[1] \in usedIds
        /\ \E q \in Requests : Updated(q) /\ Key(q) = k

ContentInv ==
    /\ TypeOK
    /\ TablesOK
    /\ HandlersOK
    /\ LocksOK
    /\ RevisionsOK
    /\ HistoryComplete
    /\ EditsLast
    /\ LosersLostARace

===============================================================================
