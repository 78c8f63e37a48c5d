--------------------------- MODULE VersionedContent ---------------------------
(***************************************************************************)
(* What the education store promises of its content, as one atomic object: *)
(* an edit is applied to the very version it replaces, which goes to the   *)
(* history as it was.                                                      *)
(***************************************************************************)
EXTENDS Naturals, Tables

CONSTANTS
    ContentIds, Slugs, Fields, Values,
    NULL         \* a field a patch leaves alone

VARIABLES
    content,     \* id -> [slug, version, body]
    history      \* <<id, version>> -> the row of that version, of content that exists

Body  == [Fields -> Values]
Patch == [Fields -> Values \cup {NULL}]

\* patch.field ?? current.field
Edited(row, patch) ==
    [row EXCEPT !.version = @ + 1,
                !.body = [f \in Fields |-> IF patch[f] = NULL THEN row.body[f] ELSE patch[f]]]

Init == content = EmptyTable /\ history = EmptyTable

Create(id, slug, body) ==
    /\ id \notin DOMAIN content
    /\ \A x \in DOMAIN content : content[x].slug # slug
    /\ content' = Put(content, id, [slug |-> slug, version |-> 1, body |-> body])
    /\ UNCHANGED history

Edit(id, patch) ==
    /\ id \in DOMAIN content
    /\ content' = Put(content, id, Edited(content[id], patch))
    /\ history' = Put(history, <<id, content[id].version>>, content[id])

\* The history of removed content is of no interest.
Remove(id) ==
    /\ content' = Drop(content, {id})
    /\ history' = Drop(history, {k \in DOMAIN history : k[1] = id})

Next ==
    \/ \E id \in ContentIds, slug \in Slugs, body \in Body : Create(id, slug, body)
    \/ \E id \in ContentIds, patch \in Patch : Edit(id, patch)
    \/ \E id \in ContentIds : Remove(id)

Spec == Init /\ [][Next]_<<content, history>>

===============================================================================
