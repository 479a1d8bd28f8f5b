----------------------------- MODULE DraftStoreProps -----------------------------
(***************************************************************************)
(* What students are shown and what the author gets back.                  *)
(***************************************************************************)
EXTENDS DraftStore

Versions == Doc \cup {None}

\* Every document of f has the children that a block of its category may have.
WellBuilt(f) == \A b \in Existing(f) : f[b].kids \subseteq Holds(b)

\* f is documents of some of the blocks S.
Writes(f, S, versions) == DOMAIN f \subseteq S /\ f \in [DOMAIN f -> versions] /\ WellBuilt(f)

\* The course keeps its levels, whatever is created, moved and published: both
\* versions of every block, and all that the request at work has yet to write, list
\* only children that a block of that category may have.
TypeOK ==
    /\ published \in [Blocks -> Versions] /\ WellBuilt(published)
    /\ draft \in [Drafted -> Versions] /\ WellBuilt(draft)
    /\ fresh \subseteq Fresh
    /\ job.op \in {"idle", "save", "refused", "publish"}
    /\ job.op \in {"save", "refused"} =>
          /\ job.op = "save" => job.calls # <<>>
          /\ \A n \in DOMAIN job.calls : /\ Writes(job.calls[n].draft, Drafted, Versions)
                                        /\ Writes(job.calls[n].published, Sections, Doc)
    /\ job.op = "publish" => /\ job.root \in Sections \cup Units
                             /\ job.left \subseteq job.drafts /\ job.drafts \subseteq Drafted
    /\ died \in {"no", "yes", "torn"} /\ lost \subseteq {"publish", "orphans"}

\* Nothing is promised once a block is in two published parents, or was deleted with
\* a parent it had moved from, or with an orphan, or a publish has died when it had
\* deleted a child, or a move or a deletion has died, or the move was refused half way,
\* when a group that students or the author are shown was out of the course as the
\* author sees it and had a draft, or was listed by a draft that was out of it.
Promised == died # "torn" /\ lost = {} /\ \A b \in Blocks : ~Twice(b)

\* Students are never shown a unit, or a group, whose child is missing, but while a
\* publish is at work on it, whatever is moved, refused half way, discarded or deleted:
\* publish deletes the children an author has dropped and saves every block after its
\* children (mongo/draft.py:publish).  Not said of sections: they list units that were
\* never published.
WholeForStudents ==
    Promised => \A b \in Drafted \cap Below(published, Sections) :
        published[b].kids \subseteq Existing(published) \/ b \in Tearing

\* What an author saves, adds or moves stays out of the students' sight: a unit
\* looks to them as before unless it is published, or deleted in Studio, or the
\* deletion of an orphan took blocks that it lists
\* (mongo/draft.py:update_item, delete_item, _convert_to_draft).
StudentsSeeOnlyPublished ==
    []["orphans" \notin lost' /\ job.op # "publish" =>
          \A b \in Units \cap Below(published, Sections) \cap Below(published', Sections) :
              Tree(published', b) = Tree(published, b)]_published

\* When a publish has ended, whatever requests died before it and whatever drafts
\* they left behind, students are shown what the author was, and no draft is left
\* in it, if it has deleted nothing of what the author was shown (mongo/draft.py:publish).
PublishShowsDraft ==
    [][job.op = "publish" /\ PublishEnds /\ "publish" \notin lost =>
          /\ Tree(published', job.root) = Tree(Working(draft), job.root)
          /\ Below(published', {job.root}) \cap Existing(draft') = {}]_vars

\* A discard of an author's changes never trips over a block that has a draft and
\* no published version: "if there is only 1 version, it must be the published
\* one" is asserted of each it comes to (mongo/draft.py:revert_to_published).
AssertionHolds ==
    Promised => \A b \in Units \cap Existing(published) :
        Reverted(b) \cap Existing(draft) \subseteq Existing(published)

\* A publish deletes no block that is still in the course as its author sees it:
\* of a child that was moved to another parent, "do not delete the child.  It will
\* be published when the new parent is published" (mongo/draft.py:publish).
MovedIsKept == "publish" \notin lost

=============================================================================
