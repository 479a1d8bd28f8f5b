------------------------------- MODULE DraftStore -------------------------------
(***************************************************************************)
(* One course in the draft modulestore: the published documents, which     *)
(* students are shown, and the drafts, which Studio's author works on and  *)
(* sees in their place.  An author's request is a list of database calls,  *)
(* one step each, and may die between two of them.                         *)
(***************************************************************************)
EXTENDS Integers, SequencesExt

CONSTANTS
    Sections,     \* the blocks of a direct-only category: they have no drafts
    Units, Groups, Components,
    Contents,     \* what a component may say
    Blank,        \* what a new block says
    InitialTree,  \* the course at first: the children of every block, all published
    Fresh,        \* the blocks that may still be created
    Crashes,      \* whether requests may die
    None          \* no document

Drafted == Units \cup Groups \cup Components
Blocks == Sections \cup Drafted

\* What may be put into a block.
Holds(parent) == CASE parent \in Sections   -> Units
                   [] parent \in Units      -> Groups \cup Components
                   [] parent \in Groups     -> Components
                   [] parent \in Components -> {}

Doc == [kids : SUBSET Blocks, data : Contents]

\* A block has one category, and the course is built of them as Studio builds it.
ASSUME CategoriesAssumption ==
    /\ Sections \cap Drafted = {} /\ Units \cap Groups = {}
    /\ (Units \cup Groups) \cap Components = {}
ASSUME ContentsAssumption == Blank \in Contents /\ None \notin Doc
ASSUME TreeAssumption == /\ Fresh \subseteq Drafted
                         /\ InitialTree \in [Blocks \ Fresh -> SUBSET (Blocks \ Fresh)]
                         /\ \A b \in Blocks \ Fresh : InitialTree[b] \subseteq Holds(b)

VARIABLES
    published,  \* the document of every block with the revision None
    draft,      \* and with the revision "draft"
    fresh,      \* block ids not given out yet
    job,        \* the request at work and what it has yet to do
    died,       \* history: "yes" once a request has died or was refused half way,
                \* "torn" if a publish had deleted a child and not saved its parent yet,
                \* or a group of the course had a draft, or a lister, that was out of it
    lost        \* history: "publish" if one has deleted, with a parent it had moved from,
                \* a block that is still in the course, "orphans" if a deletion of an
                \* orphan took blocks that documents elsewhere list

vars == <<published, draft, fresh, job, died, lost>>

history == <<died, lost>>

-----------------------------------------------------------------------------
\* The existing documents of f, and those among them from the blocks S down: a
\* course has four levels.
Existing(f) == {b \in DOMAIN f : f[b] # None}

Kids(f, S) == UNION {f[b].kids : b \in S \cap Existing(f)}

Tiers(f, S) == LET two == Kids(f, S)  three == Kids(f, two) IN <<S, two, three, Kids(f, three)>>

Below(f, S) == (UNION Range(Tiers(f, S))) \cap Existing(f)

Tree(f, b) == [c \in Below(f, {b}) |-> f[c]]

\* get_item of the draft_preferred branch, with the drafts d.
Working(d) == [b \in Blocks |-> IF b \in Existing(d) THEN d[b] ELSE published[b]]

DraftParents(d, b) == {p \in Existing(d) : b \in d[p].kids}
PublishedParents(b) == {p \in Existing(published) : b \in published[p].kids}

\* get_parent_location: the draft parent, of several any.
FoundParents(d, b) ==
    IF DraftParents(d, b) # {} THEN DraftParents(d, b) ELSE PublishedParents(b)

\* Then it asserts, or looks for orphans among the parents.
Twice(b) == \E p, q \in PublishedParents(b) : p # q

Idle == [op |-> "idle"]

Init ==
    /\ published = [b \in Blocks |-> IF b \in Fresh THEN None
                                     ELSE [kids |-> InitialTree[b], data |-> Blank]]
    /\ draft = [b \in Drafted |-> None]
    /\ fresh = Fresh
    /\ job = Idle
    /\ died = "no" /\ lost = {}

-----------------------------------------------------------------------------
(***************************************************************************)
(* Database calls: each writes some documents of either revision.          *)
(***************************************************************************)
Nothing == <<>>

Drafts(f) == [draft |-> f, published |-> Nothing]

Removal(S) == Drafts([b \in S |-> None])

Put_Live(b, doc) == [draft |-> Nothing, published |-> [c \in {b} |-> doc]]

Put(b, doc) == IF b \in Drafted THEN Drafts([c \in {b} |-> doc])
               ELSE [draft |-> Nothing, published |-> [c \in {b} |-> doc]]

\* The documents f with what a call writes.
Written(f, new) == [b \in DOMAIN f |-> IF b \in DOMAIN new THEN new[b] ELSE f[b]]

\* _convert_to_draft: copies for the published subtree, tier by tier, where there
\* are none.
Copies(d, tier) ==
    LET S == (tier \cap Existing(published)) \ Existing(d) IN
    IF S = {} THEN <<>> ELSE <<Drafts([c \in S |-> published[c]])>>

Convert(d, b) ==
    LET tiers == Tiers(published, {b}) IN
    Copies(d, tiers[1]) \o Copies(d, tiers[2]) \o Copies(d, tiers[3]) \o Copies(d, tiers[4])

Converted(d, b) == Written(d, [c \in Below(published, {b}) \ Existing(d) |-> published[c]])

Save_Live(d, b, doc) == <<Put_Live(b, doc)>>

\* update_item
Save(d, b, doc) ==
    (IF b \in Drafted \ Existing(d) THEN Convert(d, b) ELSE <<>>) \o <<Put(b, doc)>>

\* The drafts it leaves.
Saved(d, b, doc) ==
    Written(IF b \in Drafted \ Existing(d) THEN Converted(d, b) ELSE d, Put(b, doc).draft)

New == [kids |-> {}, data |-> Blank]

Without(doc, b) == [doc EXCEPT !.kids = @ \ {b}]
With(doc, b) == [doc EXCEPT !.kids = @ \cup {b}]

Start(calls) == job' = [op |-> "save", calls |-> calls]

-----------------------------------------------------------------------------
(***************************************************************************)
(* What the author asks for: changes to the blocks of the course, as it is *)
(* now but for what a move says of the children of its target.             *)
(***************************************************************************)
Shown == Below(Working(draft), Sections)

Edit(b, v) ==
    /\ Start(Save(draft, b, [Working(draft)[b] EXCEPT !.data = v]))
    /\ UNCHANGED <<published, draft, fresh, history>>

\* create_child
Create(b, parent) ==
    /\ b \in Holds(parent)
    /\ LET d == [draft EXCEPT ![b] = New] IN
          Start(<<Put(b, New)>> \o Save(d, parent, With(Working(d)[parent], b)))
    /\ fresh' = fresh \ {b}
    /\ UNCHANGED <<published, draft, history>>

\* _save_xblock with a new list of children: b is taken from its parent, then put
\* into t, a group, a unit or a section.  If the list lacks a child that t still has,
\* the author's page being old, the request is refused after b was taken.
Move(b, t) ==
    /\ b \in Holds(t) \ Working(draft)[t].kids
    /\ \E p \in FoundParents(draft, b),
          gone \in {{}} \cup {{c} : c \in Working(draft)[t].kids} :
          /\ ~Twice(b) /\ b \in Working(draft)[p].kids
          /\ LET doc == Without(Working(draft)[p], b)
                 taken == Save(draft, p, doc)
                 d == Saved(draft, p, doc)
                 kids == (Working(draft)[t].kids \ gone) \cup {b} IN
             \/ /\ \E c \in gone : t \in FoundParents(d, c)
                /\ job' = [op |-> "refused", calls |-> taken]
             \/ /\ \A c \in gone : FoundParents(d, c) # {t}
                /\ Start(taken \o Save(d, t, [Working(draft)[t] EXCEPT !.kids = kids]))
    /\ UNCHANGED <<published, draft, fresh, history>>

\* _delete_subtree: the drafts that go with the block.
DraftsOf_Below(d, b) == Below(d, {b}) \ {b}

DraftsOf(d, b) == Below(d, {b})

\* delete_item of the draft: out of its parents' drafts, of the published one
\* made a draft if there is none, and out of a section only with its last version.
Delete(b) ==
    /\ LET sections == PublishedParents(b) \cap Sections
           drafts == DraftParents(draft, b)
           both == b \in Existing(draft) \cap Existing(published)
           outOf(d, ps) == [p \in ps |-> Without(d[p], b)]
           end(d) == <<Removal(DraftsOf(d, b))>> IN
       IF sections \cup drafts # {}
       THEN Start(<<[draft |-> outOf(draft, drafts),
                     published |-> outOf(published, IF both THEN {} ELSE sections)]>>
                  \o end(Written(draft, outOf(draft, drafts))))
       ELSE IF PublishedParents(b) = {} THEN Start(end(draft))
       ELSE \E p \in PublishedParents(b) :
               LET d == Converted(draft, p)
                   doc == Without(d[p], b) IN
               /\ b \in d[p].kids
               /\ Start(Convert(draft, p) \o <<Put(p, doc)>> \o end([d EXCEPT ![p] = doc]))
    /\ UNCHANGED <<published, draft, fresh, history>>

\* The blocks revert_to_published comes to, below those that have no draft.
Reverted(b) ==
    UNION Range(Tiers([c \in Blocks \ Existing(draft) |-> published[c]], {b}))

\* It asserts that a block with one version is published.
Discard(b) ==
    /\ b \in Existing(published)
    /\ Reverted(b) \cap Existing(draft) \subseteq Existing(published)
    /\ Start(<<Removal(Below(draft, Reverted(b)))>>)
    /\ UNCHANGED <<published, draft, fresh, history>>

\* orphan_handler: both versions of a block that no document lists, and of all
\* below them.
DeleteOrphan(b) ==
    /\ b \in Existing(Working(draft)) /\ DraftParents(draft, b) \cup PublishedParents(b) = {}
    /\ LET both == [c \in Blocks |-> [kids |-> Kids(draft, {c}) \cup Kids(published, {c})]]
           S == UNION Range(Tiers(both, {b})) IN
          /\ draft' = [c \in Drafted |-> IF c \in S THEN None ELSE draft[c]]
          /\ published' = [c \in Blocks |-> IF c \in S THEN None ELSE published[c]]
          /\ lost' = IF \E c \in S : ~(DraftParents(draft, c) \cup PublishedParents(c) \subseteq S)
                     THEN lost \cup {"orphans"} ELSE lost
    /\ UNCHANGED <<fresh, job, died>>

-----------------------------------------------------------------------------
(***************************************************************************)
(* Publishing: the drafts of a subtree, children first.                    *)
(***************************************************************************)
Publish(b) ==
    /\ LET drafts == Below(Working(draft), {b}) \cap Existing(draft) IN
          job' = [op |-> "publish", root |-> b, left |-> drafts, drafts |-> drafts]
    /\ UNCHANGED <<published, draft, fresh, history>>

NextToPublish_Unordered == job.left

NextToPublish == {b \in job.left : Below(Working(draft), draft[b].kids) \cap job.left = {}}

\* The children of the published version that the draft has no more.
Dropped(b) == IF b \in Existing(published) THEN published[b].kids \ draft[b].kids ELSE {}

\* Those that have not moved to another parent are deleted with all below them.
Deleted(b) == {c \in Dropped(b) \cap Existing(published) : b \in FoundParents(draft, c)}

PublishDeletes(b) ==
    /\ b \in NextToPublish /\ \A c \in Dropped(b) : ~Twice(c)
    /\ \E c \in Deleted(b) :
          LET S == Below(published, {c}) IN
             /\ published' = [k \in Blocks |-> IF k \in S THEN None ELSE published[k]]
             /\ lost' = IF S \cap Shown # {} THEN lost \cup {"publish"} ELSE lost
    /\ UNCHANGED <<draft, fresh, job, died>>

PublishBlock(b) ==
    /\ b \in NextToPublish /\ Deleted(b) = {} /\ \A c \in Dropped(b) : ~Twice(c)
    /\ published' = [published EXCEPT ![b] = draft[b]]
    /\ job' = [job EXCEPT !.left = @ \ {b}]
    /\ UNCHANGED <<draft, fresh, history>>

\* The blocks a publish has yet to save, whose dropped children are deleted.
Tearing == IF job.op = "publish"
           THEN {b \in job.left : Dropped(b) \ Existing(published) # {}} ELSE {}

\* The groups that a request has taken out of the course, alone or with their unit,
\* and has yet to put back, or whose drafts it has yet to remove: students are shown
\* them and the author is not, or a draft out of the course lists them.
Loose ==
    {g \in Groups \cap (Shown \cup Below(published, Sections)) :
        (g \in Existing(draft) /\ g \notin Shown) \/ ~(DraftParents(draft, g) \subseteq Shown)}

Dies ==
    /\ job' = Idle
    /\ died' = IF Tearing \cup Loose # {} \/ died = "torn" THEN "torn" ELSE "yes"

\* The lookup of the parent fails.
PublishFails(b) ==
    /\ b \in NextToPublish /\ \E c \in Dropped(b) : Twice(c)
    /\ Dies
    /\ UNCHANGED <<published, draft, fresh, lost>>

PublishEnds_KeepsDrafts ==
    /\ job.left = {}
    /\ draft' = [b \in Drafted |-> IF b = job.root THEN None ELSE draft[b]]
    /\ job' = Idle
    /\ UNCHANGED <<published, fresh, history>>

PublishEnds ==
    /\ job.left = {}
    /\ draft' = [b \in Drafted |-> IF b \in job.drafts THEN None ELSE draft[b]]
    /\ job' = Idle
    /\ UNCHANGED <<published, fresh, history>>

-----------------------------------------------------------------------------
\* The next database call of a request.
Call ==
    /\ LET call == Head(job.calls) IN
          /\ draft' = Written(draft, call.draft)
          /\ published' = Written(published, call.published)
    /\ job' = IF Len(job.calls) = 1 /\ job.op = "save"
              THEN Idle ELSE [job EXCEPT !.calls = Tail(@)]
    /\ UNCHANGED <<fresh, history>>

\* The answer to a move that is refused after b was taken.
Refuse ==
    /\ job.calls = <<>>
    /\ Dies
    /\ UNCHANGED <<published, draft, fresh, lost>>

\* A request dies: once, to bound the state.
Crash ==
    /\ Crashes /\ died = "no" /\ job # Idle
    /\ Dies
    /\ UNCHANGED <<published, draft, fresh, lost>>

Request ==
    /\ job = Idle
    /\ \/ \E b \in Shown \cap Components, v \in Contents : Edit(b, v)
       \/ \E b \in fresh, p \in Shown : Create(b, p)
       \/ \E b \in Shown \cap Drafted, t \in Shown : Move(b, t)
       \/ \E b \in Shown \cap Drafted : Delete(b)
       \/ \E b \in Drafted : DeleteOrphan(b)
       \/ \E b \in Shown \cap Units : Discard(b)
       \/ \E b \in Shown \cap (Sections \cup Units) : Publish(b)

Next ==
    \/ Request
    \/ job.op \in {"save", "refused"} /\ job.calls # <<>> /\ Call
    \/ job.op = "refused" /\ Refuse
    \/ job.op = "publish" /\ PublishEnds
    \/ job.op = "publish" /\ \E b \in job.left :
          PublishDeletes(b) \/ PublishBlock(b) \/ PublishFails(b)
    \/ Crash

Spec == Init /\ [][Next]_vars

=============================================================================
