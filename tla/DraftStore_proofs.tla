---------------------------- MODULE DraftStore_proofs ----------------------------
(***************************************************************************)
(* Theorems of DraftStore for every course: its levels are kept, students  *)
(* see units only as published and find every child of what they are       *)
(* shown, and a publish shows what the author saw.                         *)
(***************************************************************************)
EXTENDS DraftStoreProps, TLAPS

\* The calls of requests: what they may write; only deletions write None.
SomeOf(S, versions) == {f \in UNION {[T -> versions] : T \in SUBSET S} : WellBuilt(f)}

Calls(versions) == [draft : SomeOf(Drafted, versions), published : SomeOf(Sections, Doc)]

-----------------------------------------------------------------------------
(***************************************************************************)
(* The blocks of a tree.                                                   *)
(***************************************************************************)
LEMMA HoldsIs ==
    ASSUME NEW b \in Blocks
    PROVE  /\ b \in Sections => Holds(b) = Units
           /\ b \in Units => Holds(b) = Groups \cup Components
           /\ b \in Groups => Holds(b) = Components
           /\ b \in Components => Holds(b) = {}
           /\ Holds(b) \subseteq Drafted
  BY CategoriesAssumption DEF Holds, Blocks, Drafted

\* The four tiers in one set.
Reach(f, S) == UNION Range(Tiers(f, S))

\* Two stores have the same documents for the blocks S.
Agree(f, g, S) == \A c \in S : (c \in Existing(f) <=> c \in Existing(g)) /\ f[c] = g[c]

LEMMA TiersIs ==
    ASSUME NEW f, NEW S
    PROVE  /\ Tiers(f, S)[1] = S
           /\ Tiers(f, S)[2] = Kids(f, S)
           /\ Tiers(f, S)[3] = Kids(f, Kids(f, S))
           /\ Tiers(f, S)[4] = Kids(f, Kids(f, Kids(f, S)))
           /\ Reach(f, S) = S \cup Kids(f, S) \cup Kids(f, Kids(f, S))
                                           \cup Kids(f, Kids(f, Kids(f, S)))
  <1> DEFINE A == Kids(f, S)  B == Kids(f, A)  C == Kids(f, B)
  <1>1. Tiers(f, S) = <<S, A, B, C>>
    BY DEF Tiers
  <1> HIDE DEF A, B, C
  <1>2. DOMAIN <<S, A, B, C>> = 1..4
    OBVIOUS
  <1>3. Range(<<S, A, B, C>>) = {S, A, B, C}
    BY <1>2 DEF Range
  <1> QED
    BY <1>1, <1>3 DEF A, B, C, Reach

LEMMA BelowExists ==
    ASSUME NEW f, NEW S
    PROVE  Below(f, S) \subseteq Existing(f)
  BY DEF Below

LEMMA ExistingIn ==
    ASSUME NEW f
    PROVE  Existing(f) \subseteq DOMAIN f
  BY DEF Existing

LEMMA KidsSame ==
    ASSUME NEW f, NEW g, NEW S, Agree(f, g, S)
    PROVE  Kids(f, S) = Kids(g, S)
  BY DEF Kids, Agree

LEMMA KidsMonotone ==
    ASSUME NEW f, NEW S, NEW T, S \subseteq T
    PROVE  Kids(f, S) \subseteq Kids(f, T)
  BY DEF Kids

\* Two stores that agree on the blocks of a tree show the same tree.
LEMMA SameTrees ==
    ASSUME NEW f, NEW g, NEW S, Agree(f, g, Reach(f, S))
    PROVE  /\ Reach(g, S) = Reach(f, S)
           /\ Below(g, S) = Below(f, S)
           /\ \A c \in Below(f, S) : f[c] = g[c]
  <1> DEFINE A == Kids(f, S)  B == Kids(f, A)  C == Kids(f, B)
  <1>1. Reach(f, S) = S \cup A \cup B \cup C
    BY TiersIs
  <1>2. Reach(g, S) = S \cup Kids(g, S) \cup Kids(g, Kids(g, S))
                                           \cup Kids(g, Kids(g, Kids(g, S)))
    BY TiersIs
  <1>0. Agree(f, g, S) /\ Agree(f, g, A) /\ Agree(f, g, B)
    BY <1>1 DEF Agree
  <1>3. Kids(g, S) = A
    BY <1>0, KidsSame
  <1>4. Kids(g, A) = B
    <2> HIDE DEF A
    <2> QED
      BY <1>0, KidsSame
  <1>5. Kids(g, B) = C
    <2> HIDE DEF B
    <2> QED
      BY <1>0, KidsSame
  <1>6. Reach(g, S) = Reach(f, S)
    BY <1>1, <1>2, <1>3, <1>4, <1>5
  <1>7. Below(g, S) = Below(f, S)
    BY <1>6 DEF Below, Agree, Reach
  <1>8. \A c \in Below(f, S) : f[c] = g[c]
    BY DEF Below, Agree, Reach
  <1> QED
    BY <1>6, <1>7, <1>8

\* A set that has the children of its blocks has the trees of its blocks.
LEMMA ClosedTiers ==
    ASSUME NEW f, NEW S, NEW C, S \subseteq C,
           \A c \in C \cap Existing(f) : f[c].kids \subseteq C
    PROVE  Reach(f, S) \subseteq C
  <1>1. \A T \in SUBSET C : Kids(f, T) \subseteq C
    BY DEF Kids
  <1> QED
    BY <1>1, TiersIs

-----------------------------------------------------------------------------
(***************************************************************************)
(* The levels of the course.                                               *)
(***************************************************************************)
Built(f, S, versions) == f \in [S -> versions] /\ WellBuilt(f)

DocOf(b) == {doc \in Doc : doc.kids \subseteq Holds(b)}

Stored == Built(published, Blocks, Versions) /\ Built(draft, Drafted, Versions)

LEMMA DocIs ==
    ASSUME NEW doc \in Doc
    PROVE  doc # None /\ doc.kids \subseteq Blocks /\ doc.data \in Contents
  BY ContentsAssumption DEF Doc

\* A block that exists has a document of its level.
LEMMA BuiltIs ==
    ASSUME NEW f, NEW S, S \subseteq Blocks, Built(f, S, Versions), NEW b \in Existing(f)
    PROVE  b \in S /\ f[b] \in DocOf(b)
  BY DEF Built, WellBuilt, Versions, Existing, DocOf

LEMMA SomeOfIs ==
    ASSUME NEW S, NEW versions
    PROVE  \A f : f \in SomeOf(S, versions) <=>
                     WellBuilt(f) /\ \E T \in SUBSET S : f \in [T -> versions]
  <1>1. ASSUME NEW f
        PROVE  f \in UNION {[T -> versions] : T \in SUBSET S} <=>
                  \E T \in SUBSET S : f \in [T -> versions]
    BY Zenon
  <1> QED
    BY <1>1 DEF SomeOf

LEMMA WrittenIs ==
    ASSUME NEW f, NEW S, S \subseteq Blocks, NEW versions, NEW T \in SUBSET S,
           f \in [T -> versions], \A b \in T : f[b] = None \/ f[b] \in DocOf(b)
    PROVE  f \in SomeOf(S, versions)
  BY SomeOfIs DEF WellBuilt, Existing, DocOf

LEMMA NothingWritten ==
    ASSUME NEW S, NEW versions
    PROVE  Nothing \in SomeOf(S, versions)
  <1>1. Nothing \in [{} -> versions]
    BY DEF Nothing
  <1>2. WellBuilt(Nothing)
    BY DEF Nothing, WellBuilt, Existing
  <1> QED
    BY <1>1, <1>2, SomeOfIs, {} \in SUBSET S

LEMMA DraftsCall ==
    ASSUME NEW versions, NEW f \in SomeOf(Drafted, versions)
    PROVE  Drafts(f) \in Calls(versions)
  BY NothingWritten DEF Drafts, Calls

LEMMA PutCall ==
    ASSUME NEW b \in Blocks, NEW doc \in DocOf(b)
    PROVE  Put(b, doc) \in Calls(Doc)
  <1>1. doc \in Doc
    BY DEF DocOf
  <1>3. ASSUME NEW S \in SUBSET Blocks, b \in S
        PROVE  [c \in {b} |-> doc] \in SomeOf(S, Doc)
    BY <1>1, <1>3, WrittenIs, {b} \in SUBSET S
  <1>4. CASE b \in Drafted
    BY <1>3, <1>4, DraftsCall DEF Put, Blocks
  <1>5. CASE b \notin Drafted
    <2>1. [c \in {b} |-> doc] \in SomeOf(Sections, Doc)
      BY <1>3, <1>5 DEF Blocks
    <2> QED
      BY <1>5, <2>1, NothingWritten DEF Put, Calls
  <1> QED
    BY <1>4, <1>5

\* Calls that save are calls.
LEMMA SavesAreCalls == Calls(Doc) \subseteq Calls(Versions)
  <1>1. ASSUME NEW S PROVE SomeOf(S, Doc) \subseteq SomeOf(S, Versions)
    <2> SUFFICES ASSUME NEW f \in SomeOf(S, Doc) PROVE f \in SomeOf(S, Versions)
      OBVIOUS
    <2>1. PICK T \in SUBSET S : WellBuilt(f) /\ f \in [T -> Doc]
      BY SomeOfIs
    <2>2. f \in [T -> Versions]
      BY <2>1 DEF Versions
    <2> QED
      BY <2>1, <2>2, SomeOfIs
  <1> QED
    BY <1>1 DEF Calls

\* The copies of a tier are a call, or none.
LEMMA CopiesAreSaves ==
    ASSUME Stored, NEW d, NEW tier
    PROVE  (tier \cap Existing(published)) \cap Sections = {} =>
              Copies(d, tier) \in Seq(Calls(Doc))
  <1> DEFINE S == (tier \cap Existing(published)) \ Existing(d)
             f == [c \in S |-> published[c]]
  <1> SUFFICES ASSUME (tier \cap Existing(published)) \cap Sections = {}
               PROVE  Copies(d, tier) \in Seq(Calls(Doc))
    OBVIOUS
  <1>1. \A c \in S : c \in Drafted /\ published[c] \in DocOf(c)
    BY BuiltIs DEF Stored, Blocks
  <1>2. f \in [S -> Doc]
    BY <1>1 DEF DocOf
  <1>3. f \in SomeOf(Drafted, Doc)
    <2>1. S \in SUBSET Drafted /\ Drafted \subseteq Blocks
      BY <1>1 DEF Blocks
    <2>2. \A b \in S : f[b] \in DocOf(b)
      BY <1>1
    <2> HIDE DEF f, S
    <2> QED
      BY <1>2, <2>1, <2>2, WrittenIs
  <1>4. Drafts(f) \in Calls(Doc)
    <2> HIDE DEF f
    <2> QED
      BY <1>3, DraftsCall
  <1>5. Copies(d, tier) = IF S = {} THEN <<>> ELSE <<Drafts(f)>>
    BY DEF Copies
  <1> HIDE DEF f, S
  <1> QED
    BY <1>4, <1>5

\* Below a drafted block there are drafted blocks.
LEMMA DraftedTiers ==
    ASSUME NEW f, NEW S, S \subseteq Blocks, Built(f, S, Versions), NEW b \in Drafted
    PROVE  Reach(f, {b}) \subseteq Drafted
  <1>1. \A c \in Drafted \cap Existing(f) : f[c].kids \subseteq Drafted
    BY BuiltIs, HoldsIs DEF DocOf
  <1> QED
    BY <1>1, ClosedTiers, {b} \subseteq Drafted

LEMMA ConvertSaves ==
    ASSUME Stored, NEW d, NEW b \in Drafted
    PROVE  Convert(d, b) \in Seq(Calls(Doc))
  <1> DEFINE t == Tiers(published, {b})
  <1>1. UNION Range(t) \subseteq Drafted
    BY DraftedTiers DEF Stored, Reach
  <1>2. t[1] \subseteq Drafted /\ t[2] \subseteq Drafted /\ t[3] \subseteq Drafted
        /\ t[4] \subseteq Drafted
    <2> DEFINE B == {b}
    <2>1. t = Tiers(published, B)
      OBVIOUS
    <2> HIDE DEF B, t
    <2>2. UNION Range(t) = t[1] \cup t[2] \cup t[3] \cup t[4]
      BY <2>1, TiersIs DEF Reach
    <2> QED
      BY <1>1, <2>2
  <1>3. \A n \in 1..4 : (t[n] \cap Existing(published)) \cap Sections = {}
    <2> HIDE DEF t
    <2> QED
      BY <1>2, CategoriesAssumption
  <1>4. \A n \in 1..4 : Copies(d, t[n]) \in Seq(Calls(Doc))
    <2> HIDE DEF t
    <2> QED
      BY <1>3, CopiesAreSaves
  <1>5. Convert(d, b) = Copies(d, t[1]) \o Copies(d, t[2]) \o Copies(d, t[3]) \o Copies(d, t[4])
    BY DEF Convert
  <1> HIDE DEF t
  <1> QED
    BY <1>4, <1>5

\* A save is calls that save, at least one.
LEMMA SaveSaves ==
    ASSUME Stored, NEW d, NEW b \in Blocks, NEW doc \in DocOf(b)
    PROVE  Save(d, b, doc) \in Seq(Calls(Doc)) /\ Save(d, b, doc) # <<>>
  <1> DEFINE c == IF b \in Drafted \ Existing(d) THEN Convert(d, b) ELSE <<>>
  <1>1. c \in Seq(Calls(Doc))
    BY ConvertSaves
  <1>2. <<Put(b, doc)>> \in Seq(Calls(Doc)) /\ Len(<<Put(b, doc)>>) = 1
    BY PutCall
  <1>3. Save(d, b, doc) = c \o <<Put(b, doc)>>
    BY DEF Save
  <1> HIDE DEF c
  <1>4. Save(d, b, doc) \in Seq(Calls(Doc)) /\ Len(Save(d, b, doc)) = Len(c) + 1
    BY <1>1, <1>2, <1>3
  <1> QED
    BY <1>1, <1>4

-----------------------------------------------------------------------------
(***************************************************************************)
(* What calls leave behind.                                                *)
(***************************************************************************)
\* What a call writes.
LEMMA CallIs ==
    ASSUME NEW versions \in {Doc, Versions}, NEW call \in Calls(versions)
    PROVE  /\ DOMAIN call.draft \subseteq Drafted /\ DOMAIN call.published \subseteq Sections
           /\ \A b \in DOMAIN call.draft :
                 /\ call.draft[b] \in versions
                 /\ call.draft[b] # None => call.draft[b].kids \subseteq Holds(b)
           /\ \A b \in DOMAIN call.published :
                 /\ call.published[b] \in Doc
                 /\ call.published[b].kids \subseteq Holds(b)
  <1>1. call.draft \in SomeOf(Drafted, versions) /\ call.published \in SomeOf(Sections, Doc)
    BY DEF Calls
  <1>2. PICK D \in SUBSET Drafted : WellBuilt(call.draft) /\ call.draft \in [D -> versions]
    BY <1>1, SomeOfIs
  <1>3. PICK P \in SUBSET Sections : WellBuilt(call.published) /\ call.published \in [P -> Doc]
    BY <1>1, SomeOfIs
  <1> QED
    BY <1>2, <1>3, DocIs DEF WellBuilt, Existing

\* A call that is written leaves the levels as they are.
LEMMA WrittenBuilt ==
    ASSUME NEW f, NEW S, Built(f, S, Versions), NEW new,
           \A b \in DOMAIN new : /\ new[b] \in Versions
                                 /\ new[b] # None => new[b].kids \subseteq Holds(b)
    PROVE  Built(Written(f, new), S, Versions)
  BY DEF Built, WellBuilt, Existing, Written

\* A call that saves removes no document.
LEMMA WrittenKeeps ==
    ASSUME NEW f, NEW S, Built(f, S, Versions), NEW new, \A b \in DOMAIN new : new[b] \in Doc
    PROVE  Existing(f) \subseteq Existing(Written(f, new))
  BY DocIs DEF Built, Existing, Written

\* A conversion and a save leave drafts of their levels, and remove none.
LEMMA ConvertedBuilt ==
    ASSUME Stored, NEW d, Built(d, Drafted, Versions), NEW b
    PROVE  /\ Built(Converted(d, b), Drafted, Versions)
           /\ Existing(d) \subseteq Existing(Converted(d, b))
  <1> DEFINE S == Below(published, {b}) \ Existing(d)
             new == [c \in S |-> published[c]]
  <1>1. \A c \in S : published[c] \in DocOf(c)
    BY BelowExists, BuiltIs DEF Stored
  <1>2. \A c \in DOMAIN new : new[c] \in Doc /\ new[c].kids \subseteq Holds(c)
    <2> HIDE DEF S
    <2> SUFFICES ASSUME NEW c \in S PROVE published[c] \in Doc /\ published[c].kids \subseteq Holds(c)
      OBVIOUS
    <2> QED
      BY <1>1 DEF DocOf
  <1>3. Converted(d, b) = Written(d, new)
    BY DEF Converted
  <1> HIDE DEF new
  <1> QED
    BY <1>2, <1>3, WrittenBuilt, WrittenKeeps DEF Versions

\* The author sees a document of its level for every block that exists.
LEMMA WorkingBuilt ==
    ASSUME Stored, NEW d, Built(d, Drafted, Versions)
    PROVE  Built(Working(d), Blocks, Versions)
  BY DEF Stored, Built, WellBuilt, Working, Existing, Blocks

LEMMA WorkingExists ==
    ASSUME Stored, NEW d, Built(d, Drafted, Versions)
    PROVE  Existing(Working(d)) = Existing(d) \cup Existing(published)
  BY DEF Stored, Built, Working, Existing, Blocks

-----------------------------------------------------------------------------
(***************************************************************************)
(* The levels are kept.                                                    *)
(***************************************************************************)
Jobs == {Idle}
        \cup [op : {"save"}, calls : Seq(Calls(Versions)) \ {<<>>}]
        \cup [op : {"refused"}, calls : Seq(Calls(Versions))]
        \cup [op : {"publish"}, root : Sections \cup Units,
              left : SUBSET Drafted, drafts : SUBSET Drafted]

TypeInv ==
    /\ Stored
    /\ fresh \subseteq Fresh
    /\ job \in Jobs
    /\ job.op = "publish" => job.left \subseteq job.drafts
    /\ died \in {"no", "yes", "torn"} /\ lost \subseteq {"publish", "orphans"}

\* What the four kinds of jobs are.
LEMMA JobIs ==
    ASSUME job \in Jobs
    PROVE  /\ job.op \in {"idle", "save", "refused", "publish"}
           /\ job.op = "save" =>
                 /\ job = [op |-> "save", calls |-> job.calls]
                 /\ job.calls \in Seq(Calls(Versions)) /\ job.calls # <<>>
           /\ job.op = "refused" =>
                 /\ job = [op |-> "refused", calls |-> job.calls]
                 /\ job.calls \in Seq(Calls(Versions))
           /\ job.op = "publish" =>
                 /\ job = [op |-> "publish", root |-> job.root, left |-> job.left,
                           drafts |-> job.drafts]
                 /\ job.root \in Sections \cup Units
                 /\ job.left \subseteq Drafted /\ job.drafts \subseteq Drafted
  <1>1. CASE job = Idle
    BY <1>1 DEF Idle
  <1>2. CASE job \in [op : {"save"}, calls : Seq(Calls(Versions)) \ {<<>>}]
    <2> DEFINE C == Seq(Calls(Versions)) \ {<<>>}
    <2>1. job \in [op : {"save"}, calls : C]
      BY <1>2
    <2>2. job.op = "save" /\ job = [op |-> "save", calls |-> job.calls] /\ job.calls \in C
      <3> HIDE DEF C
      <3> QED
        BY <2>1
    <2> QED
      BY <2>2
  <1>3. CASE job \in [op : {"publish"}, root : Sections \cup Units,
                      left : SUBSET Drafted, drafts : SUBSET Drafted]
    BY <1>3
  <1>4. CASE job \in [op : {"refused"}, calls : Seq(Calls(Versions))]
    <2> DEFINE C == Seq(Calls(Versions))
    <2>1. job \in [op : {"refused"}, calls : C]
      BY <1>4
    <2>2. job.op = "refused" /\ job = [op |-> "refused", calls |-> job.calls] /\ job.calls \in C
      <3> HIDE DEF C
      <3> QED
        BY <2>1
    <2> QED
      BY <2>2
  <1> QED
    BY <1>1, <1>2, <1>3, <1>4 DEF Jobs

LEMMA TypeInvGivesTypeOK == TypeInv => TypeOK
  <1> SUFFICES ASSUME TypeInv PROVE TypeOK
    OBVIOUS
  <1>1. ASSUME job.op \in {"save", "refused"}, NEW n \in DOMAIN job.calls
        PROVE  /\ Writes(job.calls[n].draft, Drafted, Versions)
               /\ Writes(job.calls[n].published, Sections, Doc)
    <2>1. job.calls \in Seq(Calls(Versions))
      BY <1>1, JobIs DEF TypeInv
    <2>2. job.calls[n] \in Calls(Versions)
      BY <1>1, <2>1
    <2>3. /\ job.calls[n].draft \in SomeOf(Drafted, Versions)
          /\ job.calls[n].published \in SomeOf(Sections, Doc)
      BY <2>2 DEF Calls
    <2>4. ASSUME NEW f, NEW S, NEW versions, f \in SomeOf(S, versions)
          PROVE  Writes(f, S, versions)
      <3>1. PICK T \in SUBSET S : WellBuilt(f) /\ f \in [T -> versions]
        BY <2>4, SomeOfIs
      <3> QED
        BY <3>1 DEF Writes
    <2> QED
      BY <2>3, <2>4
  <1> QED
    BY <1>1, JobIs DEF TypeInv, TypeOK, Stored, Built

LEMMA TypeInit == Init => TypeInv
  <1> SUFFICES ASSUME Init PROVE TypeInv
    OBVIOUS
  <1>1. \A b \in Blocks \ Fresh : InitialTree[b] \subseteq Holds(b) /\ InitialTree[b] \subseteq Blocks
    BY TreeAssumption
  <1>2. \A b \in Blocks : /\ published[b] \in Versions
                          /\ published[b] # None => published[b].kids \subseteq Holds(b)
    <2> SUFFICES ASSUME NEW b \in Blocks
                 PROVE  /\ published[b] \in Versions
                        /\ published[b] # None => published[b].kids \subseteq Holds(b)
      OBVIOUS
    <2>1. CASE b \in Fresh
      BY <2>1 DEF Init, Versions
    <2>2. CASE b \notin Fresh
      <3>1. published[b] = [kids |-> InitialTree[b], data |-> Blank]
        BY <2>2 DEF Init
      <3> QED
        BY <1>1, <2>2, <3>1, ContentsAssumption DEF Versions, Doc
    <2> QED
      BY <2>1, <2>2
  <1>3. Built(published, Blocks, Versions)
    BY <1>2 DEF Built, WellBuilt, Existing, Init
  <1>4. Built(draft, Drafted, Versions)
    BY DEF Built, WellBuilt, Existing, Init, Versions
  <1> QED
    BY <1>3, <1>4 DEF TypeInv, Init, Stored, Jobs, Idle

\* A request that saves is a job.
LEMMA StartIsJob ==
    ASSUME NEW calls, calls \in Seq(Calls(Versions)), calls # <<>>, Start(calls)
    PROVE  job' \in Jobs /\ job'.op = "save"
  <1> DEFINE C == Seq(Calls(Versions)) \ {<<>>}
  <1>1. calls \in C
    OBVIOUS
  <1>2. job' \in [op : {"save"}, calls : C] /\ job'.op = "save"
    <2> HIDE DEF C
    <2> QED
      BY <1>1 DEF Start
  <1> QED
    BY <1>2 DEF Jobs

LEMMA SavesInSeq == Seq(Calls(Doc)) \subseteq Seq(Calls(Versions))
  <1> DEFINE C == Calls(Doc)  V == Calls(Versions)
  <1>1. C \subseteq V
    BY SavesAreCalls
  <1>2. Seq(C) \subseteq Seq(V)
    <2> HIDE DEF C, V
    <2> QED
      BY <1>1
  <1> QED
    BY <1>2

\* A request that only sets out keeps the types.
LEMMA StartTyped ==
    ASSUME TypeInv, NEW calls \in Seq(Calls(Versions)), calls # <<>>,
           Start(calls) \/ job' = [op |-> "refused", calls |-> calls],
           UNCHANGED <<published, draft, history>>, fresh' \subseteq fresh
    PROVE  TypeInv'
  <1>1. job' \in Jobs /\ job'.op # "publish"
    <2> DEFINE C == Seq(Calls(Versions))
    <2>1. CASE Start(calls)
      BY <2>1, StartIsJob
    <2>2. CASE job' = [op |-> "refused", calls |-> calls]
      <3>1. job' \in [op : {"refused"}, calls : C] /\ job'.op = "refused"
        <4>1. calls \in C
          OBVIOUS
        <4> HIDE DEF C
        <4> QED
          BY <2>2, <4>1
      <3> QED
        BY <3>1 DEF Jobs
    <2> QED
      BY <2>1, <2>2
  <1> QED
    BY <1>1 DEF TypeInv, Stored, Built, WellBuilt, Existing, history

\* What is shown to the author exists, and is a block.
LEMMA ShownIs ==
    ASSUME Stored, NEW b \in Shown
    PROVE  b \in Blocks /\ b \in Existing(Working(draft)) /\ Working(draft)[b] \in DocOf(b)
  <1>1. Built(Working(draft), Blocks, Versions)
    BY WorkingBuilt DEF Stored
  <1>2. b \in Existing(Working(draft))
    BY BelowExists DEF Shown
  <1> QED
    BY <1>1, <1>2, BuiltIs

LEMMA EditTyped ==
    ASSUME TypeInv, NEW b \in Shown \cap Components, NEW v \in Contents, Edit(b, v)
    PROVE  TypeInv'
  <1> DEFINE doc == [Working(draft)[b] EXCEPT !.data = v]
  <1>1. b \in Blocks /\ Working(draft)[b] \in DocOf(b)
    BY ShownIs DEF TypeInv
  <1>2. doc \in DocOf(b)
    BY <1>1 DEF DocOf, Doc
  <1>3. Save(draft, b, doc) \in Seq(Calls(Doc)) /\ Save(draft, b, doc) # <<>>
    <2> HIDE DEF doc
    <2> QED
      BY <1>1, <1>2, SaveSaves DEF TypeInv
  <1>4. Start(Save(draft, b, doc))
    BY DEF Edit
  <1> HIDE DEF doc
  <1> QED
    BY <1>3, <1>4, SavesInSeq, StartTyped DEF Edit, history

\* Two lists of calls are one.
LEMMA BothLists ==
    ASSUME NEW C, NEW s \in Seq(C), NEW t \in Seq(C), s # <<>> \/ t # <<>>
    PROVE  s \o t \in Seq(C) /\ s \o t # <<>>
  <1>1. Len(s) \in Nat /\ Len(t) \in Nat /\ (s # <<>> => Len(s) > 0) /\ (t # <<>> => Len(t) > 0)
    OBVIOUS
  <1>2. s \o t \in Seq(C) /\ Len(s \o t) = Len(s) + Len(t)
    OBVIOUS
  <1> QED
    BY <1>1, <1>2

\* A parent gets a child of its level.
LEMMA WithDoc ==
    ASSUME NEW p \in Blocks, NEW doc \in DocOf(p), NEW b
    PROVE  /\ b \in Holds(p) => With(doc, b) \in DocOf(p)
           /\ Without(doc, b) \in DocOf(p)
  <1>1. Holds(p) \subseteq Blocks
    BY HoldsIs DEF Blocks
  <1> QED
    BY <1>1 DEF With, Without, DocOf, Doc

LEMMA CreateTyped ==
    ASSUME TypeInv, NEW b \in fresh, NEW p \in Shown, Create(b, p)
    PROVE  TypeInv'
  <1> DEFINE put == Put(b, New)
             d == [draft EXCEPT ![b] = New]
             doc == With(Working(d)[p], b)
  <1>1. b \in Blocks /\ b \in Drafted /\ b \in Holds(p) /\ New \in DocOf(b)
    BY TreeAssumption, ContentsAssumption DEF TypeInv, Create, Blocks, DocOf, Doc, New
  <1>2. <<put>> \in Seq(Calls(Doc)) /\ <<put>> # <<>>
    <2>1. put \in Calls(Doc)
      BY <1>1, PutCall
    <2> HIDE DEF put
    <2> QED
      BY <2>1
  <1>3. Built(draft, Drafted, Versions)
    BY DEF TypeInv, Stored
  <1>4. Built(d, Drafted, Versions) /\ Existing(draft) \subseteq Existing(d)
    BY <1>1, <1>3, DocIs DEF Built, WellBuilt, Existing, DocOf, Versions
  <1>5. p \in Blocks /\ p \in Existing(draft) \cup Existing(published)
    BY <1>3, ShownIs, WorkingExists DEF TypeInv
  <1>6. Working(d)[p] \in DocOf(p)
    <2> HIDE DEF d
    <2>1. p \in Existing(Working(d))
      BY <1>4, <1>5, WorkingExists DEF TypeInv
    <2> QED
      BY <1>4, <2>1, WorkingBuilt, BuiltIs DEF TypeInv
  <1>7. doc \in DocOf(p)
    <2> HIDE DEF d
    <2> QED
      BY <1>1, <1>5, <1>6, WithDoc
  <1>8. Save(d, p, doc) \in Seq(Calls(Doc))
    <2> HIDE DEF d, doc
    <2> QED
      BY <1>5, <1>7, SaveSaves DEF TypeInv
  <1>9. <<put>> \o Save(d, p, doc) \in Seq(Calls(Doc)) /\ <<put>> \o Save(d, p, doc) # <<>>
    <2> HIDE DEF put, d, doc
    <2> QED
      BY <1>2, <1>8, BothLists
  <1>10. Start(<<put>> \o Save(d, p, doc)) /\ fresh' \subseteq fresh
    BY DEF Create
  <1> HIDE DEF put, d, doc
  <1> QED
    BY <1>9, <1>10, SavesInSeq, StartTyped DEF Create, history

LEMMA ParentsFound ==
    ASSUME Stored, NEW b, NEW p \in FoundParents(draft, b)
    PROVE  p \in Blocks /\ p \in Existing(Working(draft)) /\ Working(draft)[p] \in DocOf(p)
  <1>1. p \in Existing(draft) \cup Existing(published)
    BY DEF FoundParents, DraftParents, PublishedParents
  <1>2. p \in Existing(Working(draft))
    BY <1>1, WorkingExists DEF Stored
  <1> QED
    BY <1>2, WorkingBuilt, BuiltIs DEF Stored

LEMMA MoveTyped ==
    ASSUME TypeInv, NEW b \in Shown \cap Drafted, NEW t \in Shown, Move(b, t)
    PROVE  TypeInv'
  <1>1. PICK p \in FoundParents(draft, b),
             gone \in {{}} \cup {{c} : c \in Working(draft)[t].kids} :
          /\ ~Twice(b) /\ b \in Working(draft)[p].kids
          /\ LET taken == Save(draft, p, Without(Working(draft)[p], b))
                 d == Saved(draft, p, Without(Working(draft)[p], b))
                 kids == (Working(draft)[t].kids \ gone) \cup {b} IN
             \/ /\ \E c \in gone : t \in FoundParents(d, c)
                /\ job' = [op |-> "refused", calls |-> taken]
             \/ /\ \A c \in gone : FoundParents(d, c) # {t}
                /\ Start(taken \o Save(d, t, [Working(draft)[t] EXCEPT !.kids = kids]))
    BY DEF Move
  <1> DEFINE taken == Save(draft, p, Without(Working(draft)[p], b))
             d == Saved(draft, p, Without(Working(draft)[p], b))
             kids == (Working(draft)[t].kids \ gone) \cup {b}
             doc == [Working(draft)[t] EXCEPT !.kids = kids]
  <1>2. p \in Blocks /\ Working(draft)[p] \in DocOf(p)
    BY ParentsFound DEF TypeInv
  <1>3. taken \in Seq(Calls(Doc)) /\ taken # <<>>
    BY <1>2, WithDoc, SaveSaves DEF TypeInv
  <1>4. t \in Blocks /\ Working(draft)[t] \in DocOf(t) /\ b \in Holds(t)
    BY ShownIs DEF TypeInv, Move
  <1>5. doc \in DocOf(t)
    <2>1. Holds(t) \subseteq Blocks
      BY <1>4, HoldsIs DEF Blocks
    <2> QED
      BY <1>4, <2>1 DEF DocOf, Doc
  <1>6. Save(d, t, doc) \in Seq(Calls(Doc))
    <2> HIDE DEF d, doc
    <2> QED
      BY <1>4, <1>5, SaveSaves DEF TypeInv
  <1>7. taken \o Save(d, t, doc) \in Seq(Calls(Doc)) /\ taken \o Save(d, t, doc) # <<>>
    <2> HIDE DEF taken, d, doc
    <2> QED
      BY <1>3, <1>6, BothLists
  <1>8. \/ job' = [op |-> "refused", calls |-> taken]
        \/ Start(taken \o Save(d, t, doc))
    BY <1>1
  <1>9. UNCHANGED <<published, draft, history>> /\ fresh' \subseteq fresh
    BY DEF Move
  <1> HIDE DEF taken, d, doc
  <1> QED
    BY <1>3, <1>7, <1>8, <1>9, SavesInSeq, StartTyped

\* A removal is a call.
LEMMA RemovalCall ==
    ASSUME NEW S, S \subseteq Drafted
    PROVE  /\ Removal(S) \in Calls(Versions)
           /\ <<Removal(S)>> \in Seq(Calls(Versions)) /\ <<Removal(S)>> # <<>>
  <1> DEFINE f == [b \in S |-> None]
  <1>1. f \in [S -> Versions] /\ \A b \in S : f[b] = None
    BY DEF Versions
  <1>2. f \in SomeOf(Drafted, Versions)
    <2> HIDE DEF f
    <2> QED
      BY <1>1, WrittenIs DEF Blocks
  <1>3. Removal(S) \in Calls(Versions)
    BY <1>2, DraftsCall DEF Removal
  <1> QED
    BY <1>3

\* Parents without a child.
LEMMA OutOfSome ==
    ASSUME NEW f, NEW S, S \subseteq Blocks, Built(f, S, Versions), NEW b,
           NEW ps, ps \subseteq Existing(f)
    PROVE  [p \in ps |-> Without(f[p], b)] \in SomeOf(S, Doc)
  <1> DEFINE g == [p \in ps |-> Without(f[p], b)]
  <1>1. \A p \in ps : p \in S /\ f[p] \in DocOf(p)
    BY BuiltIs
  <1>2. \A p \in ps : g[p] \in DocOf(p)
    BY <1>1, WithDoc
  <1>3. g \in [ps -> Doc] /\ ps \in SUBSET S
    BY <1>1, <1>2 DEF DocOf
  <1>4. g \in SomeOf(S, Doc)
    <2> HIDE DEF g
    <2> QED
      BY <1>2, <1>3, WrittenIs
  <1> QED
    BY <1>4

LEMMA DeleteTyped ==
    ASSUME TypeInv, NEW b \in Shown \cap Drafted, Delete(b)
    PROVE  TypeInv'
  <1> DEFINE sections == PublishedParents(b) \cap Sections
             drafts == DraftParents(draft, b)
             both == b \in Existing(draft) \cap Existing(published)
             outOf(f, ps) == [p \in ps |-> Without(f[p], b)]
             end(d) == <<Removal(DraftsOf(d, b))>>
             outD == outOf(draft, drafts)
             outP == outOf(published, IF both THEN {} ELSE sections)
             first == <<[draft |-> outD, published |-> outP]>>
             d1 == Written(draft, outD)
  <1>1. Built(draft, Drafted, Versions) /\ Built(published, Blocks, Versions)
    BY DEF TypeInv, Stored
  <1>2. outD \in SomeOf(Drafted, Doc)
    BY <1>1, OutOfSome, Drafted \subseteq Blocks DEF DraftParents, Blocks
  <1>3. outP \in SomeOf(Sections, Doc)
    <2> DEFINE ps == IF both THEN {} ELSE sections
    <2>1. \A p \in ps : p \in Sections /\ p \in Existing(published)
      BY DEF PublishedParents
    <2>2. \A p \in ps : p \in Blocks /\ published[p] \in DocOf(p)
      BY <1>1, <2>1, BuiltIs
    <2>3. \A p \in ps : outP[p] \in DocOf(p)
      BY <2>2, WithDoc
    <2>4. outP \in [ps -> Doc] /\ ps \in SUBSET Sections
      BY <2>1, <2>3 DEF DocOf
    <2> HIDE DEF outP, ps
    <2> QED
      BY <2>3, <2>4, WrittenIs DEF Blocks
  <1>4. first \in Seq(Calls(Doc)) /\ first # <<>>
    <2> HIDE DEF outD, outP
    <2> QED
      BY <1>2, <1>3 DEF Calls
  <1>5. Built(d1, Drafted, Versions)
    <2>1. \A c \in DOMAIN outD : outD[c] \in Doc /\ outD[c].kids \subseteq Holds(c)
      <3>1. Drafts(outD) \in Calls(Doc)
        <4> HIDE DEF outD
        <4> QED
          BY <1>2, DraftsCall
      <3>2. Drafts(outD).draft = outD
        BY DEF Drafts
      <3> HIDE DEF outD
      <3>3. \A c \in DOMAIN Drafts(outD).draft :
               /\ Drafts(outD).draft[c] \in Doc
               /\ Drafts(outD).draft[c] # None => Drafts(outD).draft[c].kids \subseteq Holds(c)
        BY <3>1, CallIs
      <3> QED
        BY <3>2, <3>3, DocIs
    <2> HIDE DEF outD
    <2> QED
      BY <1>1, <2>1, WrittenBuilt DEF Versions
  <1>6. ASSUME NEW d, Built(d, Drafted, Versions)
        PROVE  end(d) \in Seq(Calls(Versions)) /\ end(d) # <<>>
    <2>1. DraftsOf(d, b) \subseteq Drafted
      BY <1>6, BelowExists, ExistingIn DEF Built, DraftsOf
    <2> QED
      BY <2>1, RemovalCall
  <1>7. CASE sections \cup drafts # {}
    <2>1. Start(first \o end(d1))
      BY <1>7 DEF Delete
    <2>2. first \o end(d1) \in Seq(Calls(Versions)) /\ first \o end(d1) # <<>>
      <3>1. first \in Seq(Calls(Versions))
        BY <1>4, SavesInSeq
      <3>2. end(d1) \in Seq(Calls(Versions))
        BY <1>5, <1>6
      <3> HIDE DEF first, end, d1
      <3> QED
        BY <1>4, <3>1, <3>2, BothLists
    <2> HIDE DEF first, end, d1
    <2> QED
      BY <2>1, <2>2, StartTyped DEF Delete, history
  <1>8. CASE sections \cup drafts = {} /\ PublishedParents(b) = {}
    <2>1. Start(end(draft))
      BY <1>8 DEF Delete
    <2>2. end(draft) \in Seq(Calls(Versions)) /\ end(draft) # <<>>
      BY <1>1, <1>6
    <2> HIDE DEF end
    <2> QED
      BY <2>1, <2>2, StartTyped DEF Delete, history
  <1>9. CASE sections \cup drafts = {} /\ PublishedParents(b) # {}
    <2>1. PICK p \in PublishedParents(b) :
             LET d == Converted(draft, p)
                 doc == Without(d[p], b) IN
             Start(Convert(draft, p) \o <<Put(p, doc)>> \o end([d EXCEPT ![p] = doc]))
      BY <1>9 DEF Delete
    <2> DEFINE d == Converted(draft, p)
               doc == Without(d[p], b)
               put == Put(p, doc)
               e == [d EXCEPT ![p] = doc]
               calls == Convert(draft, p) \o <<put>>
    <2>2. p \in Drafted /\ p \in Existing(published)
      BY <1>1, <1>9, BuiltIs DEF PublishedParents, Blocks
    <2>3. Convert(draft, p) \in Seq(Calls(Doc))
      BY <2>2, ConvertSaves DEF TypeInv
    <2>4. Built(d, Drafted, Versions)
      BY <1>1, ConvertedBuilt DEF TypeInv
    <2>5. p \in Existing(d)
      <3>1. p \in Below(published, {p})
        BY <2>2, TiersIs DEF Below, Reach
      <3> QED
        BY <1>1, <2>2, <3>1, BuiltIs, DocIs DEF Converted, Written, Existing, Built, DocOf, Versions
    <2>6. doc \in DocOf(p)
      <3> HIDE DEF d
      <3>1. d[p] \in DocOf(p)
        BY <2>4, <2>5, BuiltIs, Drafted \subseteq Blocks DEF Blocks
      <3> QED
        BY <2>2, <3>1, WithDoc DEF Blocks
    <2>7. Built(e, Drafted, Versions)
      <3> HIDE DEF d, doc
      <3> QED
        BY <2>2, <2>4, <2>6 DEF Built, WellBuilt, Existing, DocOf, Versions
    <2>8. calls \in Seq(Calls(Doc)) /\ calls # <<>>
      <3>1. put \in Calls(Doc)
        <4> HIDE DEF doc
        <4> QED
          BY <2>2, <2>6, PutCall DEF Blocks
      <3>2. <<put>> \in Seq(Calls(Doc)) /\ <<put>> # <<>>
        <4> HIDE DEF put
        <4> QED
          BY <3>1
      <3> HIDE DEF put
      <3> QED
        BY <2>3, <3>2, BothLists
    <2>9. calls \in Seq(Calls(Versions)) /\ end(e) \in Seq(Calls(Versions))
      <3> HIDE DEF calls, e
      <3> QED
        BY <1>6, <2>7, <2>8, SavesInSeq
    <2>10. calls \o end(e) \in Seq(Calls(Versions)) /\ calls \o end(e) # <<>>
      <3> HIDE DEF calls, end, e
      <3> QED
        BY <2>8, <2>9, BothLists
    <2>11. Start(calls \o end(e))
      BY <2>1
    <2> HIDE DEF calls, end, e
    <2> QED
      BY <2>10, <2>11, StartTyped DEF Delete, history
  <1> QED
    BY <1>7, <1>8, <1>9

LEMMA DiscardTyped ==
    ASSUME TypeInv, NEW b, Discard(b)
    PROVE  TypeInv'
  <1> DEFINE S == Below(draft, Reverted(b))
  <1>1. S \subseteq Drafted
    BY BelowExists, ExistingIn DEF TypeInv, Stored, Built
  <1>2. Start(<<Removal(S)>>)
    BY DEF Discard
  <1> HIDE DEF S
  <1> QED
    BY <1>1, <1>2, RemovalCall, StartTyped DEF Discard, history

\* Documents that are removed leave the levels as they are.
LEMMA RemovedBuilt ==
    ASSUME NEW f, NEW S, Built(f, S, Versions), NEW T
    PROVE  Built([c \in S |-> IF c \in T THEN None ELSE f[c]], S, Versions)
  BY DEF Built, WellBuilt, Existing, Versions

LEMMA OrphanTyped ==
    ASSUME TypeInv, NEW b, DeleteOrphan(b)
    PROVE  TypeInv'
  <1>1. PICK S : /\ draft' = [c \in Drafted |-> IF c \in S THEN None ELSE draft[c]]
                 /\ published' = [c \in Blocks |-> IF c \in S THEN None ELSE published[c]]
                 /\ lost' = lost \/ lost' = lost \cup {"orphans"}
    BY DEF DeleteOrphan
  <1>2. Built(draft', Drafted, Versions) /\ Built(published', Blocks, Versions)
    BY <1>1, RemovedBuilt DEF TypeInv, Stored
  <1>3. Stored'
    BY <1>2 DEF Stored, Built, WellBuilt, Existing, Versions
  <1> QED
    BY <1>1, <1>3 DEF TypeInv, DeleteOrphan

LEMMA PublishTyped ==
    ASSUME TypeInv, NEW b \in Sections \cup Units, Publish(b)
    PROVE  TypeInv'
  <1> DEFINE drafts == Below(Working(draft), {b}) \cap Existing(draft)
  <1>1. drafts \subseteq Drafted
    BY ExistingIn DEF TypeInv, Stored, Built
  <1>2. job' = [op |-> "publish", root |-> b, left |-> drafts, drafts |-> drafts]
    BY DEF Publish
  <1> HIDE DEF drafts
  <1>3. job' \in Jobs /\ job'.left \subseteq job'.drafts
    BY <1>1, <1>2 DEF Jobs
  <1> QED
    BY <1>3 DEF TypeInv, Publish, Stored, Built, WellBuilt, Existing, history

LEMMA PublishDeletesTyped ==
    ASSUME TypeInv, NEW b, PublishDeletes(b)
    PROVE  TypeInv'
  <1>1. PICK S : /\ published' = [c \in Blocks |-> IF c \in S THEN None ELSE published[c]]
                 /\ lost' = lost \/ lost' = lost \cup {"publish"}
    BY DEF PublishDeletes
  <1>2. Built(published', Blocks, Versions)
    BY <1>1, RemovedBuilt DEF TypeInv, Stored
  <1>3. Stored'
    BY <1>2 DEF Stored, Built, WellBuilt, Existing, Versions, PublishDeletes, TypeInv
  <1> QED
    BY <1>1, <1>3 DEF TypeInv, PublishDeletes

LEMMA PublishBlockTyped ==
    ASSUME TypeInv, job.op = "publish", NEW b \in job.left, PublishBlock(b)
    PROVE  TypeInv'
  <1>1. b \in Drafted /\ job' \in Jobs /\ job'.left \subseteq job'.drafts
    <2>1. /\ job = [op |-> "publish", root |-> job.root, left |-> job.left, drafts |-> job.drafts]
          /\ job.root \in Sections \cup Units
          /\ job.left \subseteq Drafted /\ job.drafts \subseteq Drafted
          /\ job.left \subseteq job.drafts
      BY JobIs DEF TypeInv
    <2>2. job' = [op |-> "publish", root |-> job.root, left |-> job.left \ {b},
                  drafts |-> job.drafts]
      BY <2>1 DEF PublishBlock
    <2> QED
      BY <2>1, <2>2 DEF Jobs
  <1>2. Built(published', Blocks, Versions)
    BY <1>1 DEF PublishBlock, TypeInv, Stored, Built, WellBuilt, Existing
  <1>3. Stored'
    BY <1>2 DEF Stored, Built, WellBuilt, Existing, Versions, PublishBlock, TypeInv
  <1> QED
    BY <1>1, <1>3 DEF TypeInv, PublishBlock, history

LEMMA PublishEndsTyped ==
    ASSUME TypeInv, PublishEnds
    PROVE  TypeInv'
  <1>1. Built(draft', Drafted, Versions)
    BY RemovedBuilt DEF TypeInv, Stored, PublishEnds
  <1>2. Stored'
    BY <1>1 DEF Stored, Built, WellBuilt, Existing, Versions, PublishEnds, TypeInv
  <1> QED
    BY <1>2 DEF TypeInv, PublishEnds, history, Jobs, Idle

LEMMA CallTyped ==
    ASSUME TypeInv, job.op \in {"save", "refused"}, job.calls # <<>>, Call
    PROVE  TypeInv'
  <1> DEFINE C == Calls(Versions)
             call == Head(job.calls)
  <1>1. job = [op |-> job.op, calls |-> job.calls] /\ job.calls \in Seq(C) /\ job.calls # <<>>
    BY JobIs DEF TypeInv
  <1>2. call \in C /\ Tail(job.calls) \in Seq(C)
        /\ (Len(job.calls) # 1 => Tail(job.calls) # <<>>)
    <2>1. /\ Len(job.calls) \in Nat \ {0} /\ Tail(job.calls) \in Seq(C)
          /\ Len(Tail(job.calls)) = Len(job.calls) - 1
      <3> HIDE DEF C
      <3> QED
        BY <1>1
    <2>2. call \in C
      <3> HIDE DEF C
      <3> QED
        BY <1>1
    <2>3. Len(job.calls) # 1 => Tail(job.calls) # <<>>
      <3> SUFFICES ASSUME Tail(job.calls) = <<>> PROVE Len(job.calls) = 1
        OBVIOUS
      <3>1. Len(Tail(job.calls)) = Len(<<>>)
        OBVIOUS
      <3>2. Len(<<>>) = 0
        OBVIOUS
      <3> QED
        BY <2>1, <3>1, <3>2
    <2> QED
      BY <2>1, <2>2, <2>3
  <1>3. job' \in Jobs /\ job'.op # "publish"
    <2>1. CASE Len(job.calls) = 1 /\ job.op = "save"
      BY <2>1 DEF Call, Jobs, Idle
    <2>2. CASE Len(job.calls) # 1 /\ job.op = "save"
      <3>1. job' = [op |-> "save", calls |-> Tail(job.calls)]
        BY <1>1, <2>2 DEF Call
      <3> DEFINE N == Seq(C) \ {<<>>}
      <3>2. Tail(job.calls) \in N
        BY <1>2, <2>2
      <3>3. job' \in [op : {"save"}, calls : N] /\ job'.op = "save"
        <4> HIDE DEF N
        <4> QED
          BY <3>1, <3>2
      <3> QED
        BY <3>3 DEF Jobs
    <2>3. CASE job.op = "refused"
      <3>1. job' = [op |-> "refused", calls |-> Tail(job.calls)]
        BY <1>1, <2>3 DEF Call
      <3> DEFINE N == Seq(C)
      <3>2. Tail(job.calls) \in N
        BY <1>2
      <3>3. job' \in [op : {"refused"}, calls : N] /\ job'.op = "refused"
        <4> HIDE DEF N
        <4> QED
          BY <3>1, <3>2
      <3> QED
        BY <3>3 DEF Jobs
    <2> QED
      BY <2>1, <2>2, <2>3
  <1>4. /\ draft' = Written(draft, call.draft)
        /\ published' = Written(published, call.published)
    BY DEF Call
  <1>5. /\ \A b \in DOMAIN call.draft :
              call.draft[b] \in Versions
              /\ (call.draft[b] # None => call.draft[b].kids \subseteq Holds(b))
        /\ \A b \in DOMAIN call.published :
              call.published[b] \in Versions
              /\ (call.published[b] # None => call.published[b].kids \subseteq Holds(b))
    <2> HIDE DEF call
    <2> QED
      BY <1>2, CallIs DEF Versions
  <1> HIDE DEF call
  <1>6. Built(draft', Drafted, Versions)
    BY <1>4, <1>5, WrittenBuilt DEF TypeInv, Stored
  <1>7. Built(published', Blocks, Versions)
    BY <1>4, <1>5, WrittenBuilt DEF TypeInv, Stored
  <1>8. Stored'
    BY <1>6, <1>7 DEF Stored, Built, WellBuilt, Existing, Versions
  <1> QED
    BY <1>3, <1>8 DEF TypeInv, Call, history

LEMMA DiesTyped ==
    ASSUME TypeInv, Dies, UNCHANGED <<published, draft, fresh, lost>>
    PROVE  TypeInv'
  BY DEF TypeInv, Dies, Stored, Built, WellBuilt, Existing, Jobs, Idle

\* The steps, one by one: what a step of Next is.
LEMMA Steps ==
    ASSUME Next
    PROVE  \/ job = Idle /\ \E b \in Shown \cap Components, v \in Contents : Edit(b, v)
           \/ job = Idle /\ \E b \in fresh, p \in Shown : Create(b, p)
           \/ job = Idle /\ \E b \in Shown \cap Drafted, t \in Shown : Move(b, t)
           \/ job = Idle /\ \E b \in Shown \cap Drafted : Delete(b)
           \/ job = Idle /\ \E b \in Drafted : DeleteOrphan(b)
           \/ job = Idle /\ \E b \in Shown \cap Units : Discard(b)
           \/ job = Idle /\ \E b \in Shown \cap (Sections \cup Units) : Publish(b)
           \/ job.op \in {"save", "refused"} /\ job.calls # <<>> /\ Call
           \/ job.op = "publish" /\ PublishEnds
           \/ job.op = "publish" /\ \E b \in job.left : PublishDeletes(b)
           \/ job.op = "publish" /\ \E b \in job.left : PublishBlock(b)
           \/ Dies /\ UNCHANGED <<published, draft, fresh, lost>>
  BY DEF Next, Request, PublishFails, Crash, Refuse

LEMMA TypeNext == TypeInv /\ [Next]_vars => TypeInv'
  <1> SUFFICES ASSUME TypeInv, [Next]_vars PROVE TypeInv'
    OBVIOUS
  <1>1. CASE Next
    BY <1>1, Steps, EditTyped, CreateTyped, MoveTyped, DeleteTyped, OrphanTyped, DiscardTyped,
       PublishTyped, CallTyped, PublishEndsTyped, PublishDeletesTyped, PublishBlockTyped, DiesTyped
  <1>2. CASE UNCHANGED vars
    BY <1>2 DEF vars, TypeInv, Stored, Built, WellBuilt, Existing
  <1> QED
    BY <1>1, <1>2

LEMMA Typed == Spec => []TypeInv
  BY TypeInit, TypeNext, PTL DEF Spec

\* Both versions of every block, and all that a request has yet to write, keep to
\* the levels of a course (mongo/draft.py, views/item.py).
THEOREM TypeCorrect == Spec => []TypeOK
  BY Typed, TypeInvGivesTypeOK, PTL

-----------------------------------------------------------------------------
(***************************************************************************)
(* Students see units as published.                                        *)
(***************************************************************************)
\* A unit that has lost none of the blocks below it looks as before.
LEMMA SameUnit ==
    ASSUME NEW f, NEW g, NEW C, NEW b \in C, Agree(f, g, C),
           \A c \in C \cap Existing(f) : f[c].kids \subseteq C
    PROVE  Tree(g, b) = Tree(f, b)
  <1> DEFINE S == {b}
  <1>1. S \subseteq C
    OBVIOUS
  <1>2. Reach(f, S) \subseteq C
    <2> HIDE DEF S
    <2> QED
      BY <1>1, ClosedTiers
  <1>3. Agree(f, g, Reach(f, S))
    <2> HIDE DEF S
    <2> QED
      BY <1>2 DEF Agree
  <1>4. Below(g, S) = Below(f, S) /\ \A c \in Below(f, S) : f[c] = g[c]
    <2> HIDE DEF S
    <2> QED
      BY <1>3, SameTrees
  <1> QED
    BY <1>4 DEF Tree

\* A call of a request writes nothing published but sections.
LEMMA CallsShowSections ==
    ASSUME TypeInv, job.op \in {"save", "refused"}, job.calls # <<>>, Call, NEW b \in Units
    PROVE  Tree(published', b) = Tree(published, b)
  <1> DEFINE C == Calls(Versions)
             call == Head(job.calls)
  <1>1. job.calls \in Seq(C) /\ job.calls # <<>>
    BY JobIs DEF TypeInv
  <1>2. call \in C
    <2> HIDE DEF C
    <2> QED
      BY <1>1
  <1>3. published' = Written(published, call.published)
    BY DEF Call
  <1> HIDE DEF call
  <1>4. DOMAIN call.published \cap Drafted = {}
    BY <1>2, CallIs, CategoriesAssumption
  <1>5. DOMAIN published = Blocks
    BY DEF TypeInv, Stored, Built
  <1>6. Agree(published, published', Drafted)
    BY <1>3, <1>4, <1>5 DEF Existing, Written, Blocks, Agree
  <1>7. \A c \in Drafted \cap Existing(published) : published[c].kids \subseteq Drafted
    BY BuiltIs, HoldsIs DEF TypeInv, Stored, DocOf
  <1>8. b \in Drafted
    BY DEF Drafted
  <1> QED
    BY <1>6, <1>7, <1>8, SameUnit

\* The deletion of an orphan takes nothing that a published block lists.
LEMMA OrphansAreNotShown ==
    ASSUME TypeInv, NEW o, DeleteOrphan(o), "orphans" \notin lost', NEW b \in Existing(published')
    PROVE  Tree(published', b) = Tree(published, b)
  <1>1. PICK S : /\ published' = [c \in Blocks |-> IF c \in S THEN None ELSE published[c]]
                 /\ lost' = IF \E c \in S : ~(DraftParents(draft, c) \cup PublishedParents(c) \subseteq S)
                            THEN lost \cup {"orphans"} ELSE lost
    BY DEF DeleteOrphan
  <1>2. \A c \in S : PublishedParents(c) \subseteq S
    BY <1>1
  <1>3. DOMAIN published = Blocks
    BY DEF TypeInv, Stored, Built
  <1> DEFINE C == Blocks \ S
  <1>4. Agree(published, published', C)
    BY <1>1, <1>3 DEF Existing, Agree
  <1>5. ASSUME NEW c \in C \cap Existing(published), NEW k \in published[c].kids
        PROVE  k \in C
    <2>1. c \in PublishedParents(k)
      BY DEF PublishedParents
    <2>2. published[c] \in DocOf(c)
      BY BuiltIs DEF TypeInv, Stored
    <2> QED
      BY <1>2, <2>1, <2>2 DEF DocOf, Doc
  <1>6. b \in C
    BY <1>1 DEF Existing
  <1> HIDE DEF C
  <1> QED
    BY <1>4, <1>5, <1>6, SameUnit

\* What an author saves, adds or moves, call by call and whatever dies half way,
\* leaves every unit as the students saw it, unless it is published or deleted.
THEOREM StudentsSeePublished == Spec => StudentsSeeOnlyPublished
  <1> DEFINE A == "orphans" \notin lost' /\ job.op # "publish" =>
                    \A b \in Units \cap Below(published, Sections) \cap Below(published', Sections) :
                        Tree(published', b) = Tree(published, b)
  <1>1. TypeInv /\ [Next]_vars => [A]_published
    <2> SUFFICES ASSUME TypeInv, [Next]_vars, published' # published,
                        "orphans" \notin lost', job.op # "publish",
                        NEW b \in Units, b \in Below(published', Sections)
                 PROVE  Tree(published', b) = Tree(published, b)
      OBVIOUS
    <2>1. Next
      BY DEF vars
    <2>2. b \in Existing(published')
      BY BelowExists
    <2>3. \/ \E o \in Drafted : DeleteOrphan(o)
          \/ job.op \in {"save", "refused"} /\ job.calls # <<>> /\ Call
      BY <2>1, Steps DEF Edit, Create, Move, Delete, Discard, Publish
    <2> QED
      BY <2>2, <2>3, CallsShowSections, OrphansAreNotShown
  <1> QED
    BY <1>1, Typed, PTL DEF Spec, StudentsSeeOnlyPublished

-----------------------------------------------------------------------------
(***************************************************************************)
(* A publish shows what the author saw.  Nobody else writes meanwhile, and *)
(* it deletes nothing that is shown to the author, so the tree it started  *)
(* from is the author's to the end; it has saved the drafts in it that it  *)
(* has no more left.                                                       *)
(***************************************************************************)
PublishState ==
    job.op = "publish" /\ "publish" \notin lost =>
        /\ job.root \in Shown
        /\ job.drafts = Below(Working(draft), {job.root}) \cap Existing(draft)
        /\ \A b \in job.drafts \ job.left : published[b] = draft[b]

\* The tiers of a course hold sections, units, groups or components, components.
LEMMA Levels ==
    ASSUME NEW f, Built(f, Blocks, Versions)
    PROVE  /\ Kids(f, Sections) \subseteq Units
           /\ \A S \in SUBSET Units : Kids(f, S) \subseteq Groups \cup Components
           /\ \A S \in SUBSET (Groups \cup Components) : Kids(f, S) \subseteq Components
           /\ \A S \in SUBSET Components : Kids(f, S) = {}
  <1>1. \A b \in Existing(f) : b \in Blocks /\ f[b].kids \subseteq Holds(b)
    BY BuiltIs DEF DocOf
  <1>2. \A b \in Existing(f) : /\ b \in Sections => f[b].kids \subseteq Units
                               /\ b \in Units => f[b].kids \subseteq Groups \cup Components
                               /\ b \in Groups => f[b].kids \subseteq Components
                               /\ b \in Components => f[b].kids = {}
    BY <1>1, HoldsIs
  <1> QED
    BY <1>2 DEF Kids

\* A section or unit of the course has its tree in the course.
LEMMA RootReach ==
    ASSUME NEW f, Built(f, Blocks, Versions), NEW r \in Below(f, Sections),
           r \in Sections \cup Units
    PROVE  Reach(f, {r}) \subseteq Reach(f, Sections)
  <1> DEFINE A == Kids(f, Sections)  B == Kids(f, A)  C == Kids(f, B)
             R == {r}  A1 == Kids(f, R)  B1 == Kids(f, A1)  C1 == Kids(f, B1)
  <1>1. Reach(f, Sections) = Sections \cup A \cup B \cup C
    BY TiersIs
  <1>2. Reach(f, R) = R \cup A1 \cup B1 \cup C1
    <2> HIDE DEF R
    <2> QED
      BY TiersIs
  <1>3. A \subseteq Units /\ B \subseteq Groups \cup Components /\ C \subseteq Components
    <2>1. A \subseteq Units
      BY Levels
    <2>2. B \subseteq Groups \cup Components
      <3> HIDE DEF A
      <3> QED
        BY <2>1, Levels
    <2>3. C \subseteq Components
      <3> HIDE DEF B
      <3> QED
        BY <2>2, Levels
    <2> QED
      BY <2>1, <2>2, <2>3
  <1>4. CASE r \in Sections
    <2>1. A1 \subseteq A
      BY <1>4, KidsMonotone, R \subseteq Sections
    <2>2. B1 \subseteq B
      <3> HIDE DEF A, A1
      <3> QED
        BY <2>1, KidsMonotone
    <2>3. C1 \subseteq C
      <3> HIDE DEF B, B1
      <3> QED
        BY <2>2, KidsMonotone
    <2> HIDE DEF A1, B1, C1, A, B, C
    <2> QED
      BY <1>1, <1>2, <1>4, <2>1, <2>2, <2>3
  <1>5. CASE r \in Units
    <2>1. r \in A
      <3>1. r \in Reach(f, Sections)
        BY DEF Below, Reach
      <3> HIDE DEF A, B, C
      <3> QED
        BY <1>1, <1>3, <1>5, <3>1, CategoriesAssumption DEF Drafted
    <2>2. A1 \subseteq B
      <3> HIDE DEF A
      <3> QED
        BY <2>1, KidsMonotone, R \subseteq A
    <2>3. B1 \subseteq C
      <3> HIDE DEF A1, B
      <3> QED
        BY <2>2, KidsMonotone
    <2>4. C1 = {}
      <3> HIDE DEF B1, C
      <3> QED
        BY <1>3, <2>3, Levels
    <2> HIDE DEF A1, B1, C1, A, B, C
    <2> QED
      BY <1>1, <1>2, <2>1, <2>2, <2>3, <2>4
  <1> QED
    BY <1>4, <1>5

\* Nothing but blocks is in the course.
LEMMA ReachBlocks ==
    ASSUME NEW f, Built(f, Blocks, Versions), NEW S, S \subseteq Blocks
    PROVE  Reach(f, S) \subseteq Blocks
  <1>1. \A c \in Blocks \cap Existing(f) : f[c].kids \subseteq Blocks
    BY BuiltIs, HoldsIs DEF DocOf, Blocks
  <1> QED
    BY <1>1, ClosedTiers

\* The author sees what is there.
LEMMA WorkingIs ==
    ASSUME Stored
    PROVE  Built(Working(draft), Blocks, Versions)
  BY WorkingBuilt DEF Stored

\* A course that the author sees as before has the same tree of a publish's root.
LEMMA SameCourse ==
    ASSUME NEW f, NEW g, Built(f, Blocks, Versions), Agree(f, g, Reach(f, Sections)),
           NEW r \in Below(f, Sections), r \in Sections \cup Units
    PROVE  Below(g, Sections) = Below(f, Sections) /\ Below(g, {r}) = Below(f, {r})
  <1>1. Agree(f, g, Reach(f, {r}))
    BY RootReach DEF Agree
  <1>2. Below(g, Sections) = Below(f, Sections)
    BY SameTrees
  <1> DEFINE R == {r}
  <1>3. Below(g, R) = Below(f, R)
    <2>1. Agree(f, g, Reach(f, R))
      BY <1>1
    <2> HIDE DEF R
    <2> QED
      BY <2>1, SameTrees
  <1> QED
    BY <1>2, <1>3

\* It begins with what the author is shown.
LEMMA PublishBegins ==
    ASSUME NEW b \in Shown, Publish(b)
    PROVE  PublishState'
  <1> DEFINE drafts == Below(Working(draft), {b}) \cap Existing(draft)
  <1>1. job' = [op |-> "publish", root |-> b, left |-> drafts, drafts |-> drafts]
    BY DEF Publish
  <1>2. job'.root = b /\ job'.drafts = drafts /\ job'.left = drafts
    BY <1>1
  <1>3. UNCHANGED <<published, draft>>
    BY DEF Publish
  <1>4. Working(draft)' = Working(draft) /\ Shown' = Shown /\ Existing(draft)' = Existing(draft)
    BY <1>3 DEF Working, Shown, Existing
  <1>5. Below(Working(draft), {job.root})' = Below(Working(draft), {b})
    BY <1>2, <1>4
  <1> QED
    BY <1>2, <1>4, <1>5 DEF PublishState

\* It saves a draft that the author already sees.
LEMMA PublishBlockKeeps ==
    ASSUME TypeInv, PublishState, job.op = "publish", NEW b \in job.left, PublishBlock(b)
    PROVE  PublishState'
  <1> SUFFICES ASSUME "publish" \notin lost PROVE PublishState'
    BY DEF PublishState, PublishBlock, history
  <1>1. /\ job = [op |-> "publish", root |-> job.root, left |-> job.left, drafts |-> job.drafts]
        /\ b \in job.drafts /\ job.left \subseteq Drafted
    BY JobIs DEF TypeInv
  <1>2. /\ job.root \in Shown
        /\ job.drafts = Below(Working(draft), {job.root}) \cap Existing(draft)
        /\ \A c \in job.drafts \ job.left : published[c] = draft[c]
    BY DEF PublishState
  <1>3. job'.root = job.root /\ job'.drafts = job.drafts /\ job'.left = job.left \ {b}
        /\ draft' = draft
    BY <1>1 DEF PublishBlock
  <1>4. published' = [published EXCEPT ![b] = draft[b]] /\ DOMAIN published = Blocks
    BY DEF PublishBlock, TypeInv, Stored, Built
  <1>5. Working(draft)' = Working(draft) /\ Existing(draft)' = Existing(draft)
    BY <1>1, <1>2, <1>3, <1>4 DEF Working, Existing
  <1>6. Shown' = Shown /\ Below(Working(draft), {job.root})' = Below(Working(draft), {job.root})
    BY <1>3, <1>5 DEF Shown
  <1>7. \A c \in job'.drafts \ job'.left : published'[c] = draft'[c]
    BY <1>1, <1>2, <1>3, <1>4 DEF Blocks
  <1> QED
    BY <1>2, <1>3, <1>5, <1>6, <1>7 DEF PublishState

\* It deletes nothing the author sees.
LEMMA PublishDeletesKeeps ==
    ASSUME TypeInv, PublishState, job.op = "publish", NEW b \in job.left, PublishDeletes(b)
    PROVE  PublishState'
  <1> SUFFICES ASSUME "publish" \notin lost' PROVE PublishState'
    BY DEF PublishState
  <1>1. PICK S : /\ published' = [k \in Blocks |-> IF k \in S THEN None ELSE published[k]]
                 /\ lost' = IF S \cap Shown # {} THEN lost \cup {"publish"} ELSE lost
    BY DEF PublishDeletes
  <1>2. S \cap Shown = {} /\ "publish" \notin lost
    BY <1>1
  <1>3. /\ job.root \in Shown
        /\ job.drafts = Below(Working(draft), {job.root}) \cap Existing(draft)
        /\ \A c \in job.drafts \ job.left : published[c] = draft[c]
    BY <1>2 DEF PublishState
  <1>4. job' = job /\ draft' = draft /\ job.root \in Sections \cup Units
    BY JobIs DEF PublishDeletes, TypeInv
  <1> DEFINE f == Working(draft)  g == Working(draft)'
  <1>5. Built(f, Blocks, Versions)
    BY WorkingIs DEF TypeInv
  <1>6. Reach(f, Sections) \subseteq Blocks
    <2> HIDE DEF f
    <2> QED
      BY <1>5, ReachBlocks DEF Blocks
  <1>7. Agree(f, g, Reach(f, Sections))
    <2> SUFFICES ASSUME NEW c \in Reach(f, Sections)
                 PROVE  (c \in Existing(f) <=> c \in Existing(g)) /\ f[c] = g[c]
      BY DEF Agree
    <2>1. c \in Blocks /\ (c \in S => c \notin Existing(f))
      BY <1>2, <1>6 DEF Shown, Below, Reach
    <2>2. f[c] = IF c \in Existing(draft) THEN draft[c] ELSE published[c]
      BY <2>1 DEF Working
    <2>3. g[c] = IF c \in Existing(draft) THEN draft[c] ELSE published'[c]
      BY <1>4, <2>1 DEF Working
    <2>4. DOMAIN f = Blocks /\ DOMAIN g = Blocks
      BY DEF Working
    <2>5. f[c] = g[c]
      BY <1>1, <2>1, <2>2, <2>3, <2>4 DEF Existing
    <2> QED
      BY <2>1, <2>4, <2>5 DEF Existing
  <1>8. /\ Below(g, Sections) = Below(f, Sections)
        /\ Below(g, {job.root}) = Below(f, {job.root})
    <2>1. job.root \in Below(f, Sections)
      BY <1>3 DEF Shown
    <2> HIDE DEF f, g
    <2> QED
      BY <1>4, <1>5, <1>7, <2>1, SameCourse
  <1>9. Below(f, {job.root}) \subseteq Shown
    <2>1. Reach(f, {job.root}) \subseteq Reach(f, Sections)
      <3>1. job.root \in Below(f, Sections)
        BY <1>3 DEF Shown
      <3> HIDE DEF f
      <3> QED
        BY <1>4, <1>5, <3>1, RootReach
    <2> QED
      BY <2>1 DEF Below, Reach, Shown
  <1>10. \A c \in job.drafts : c \in Blocks /\ c \notin S
    BY <1>2, <1>3, <1>9, JobIs DEF TypeInv, Blocks
  <1>11. \A c \in job'.drafts \ job'.left : published'[c] = draft'[c]
    BY <1>1, <1>3, <1>4, <1>10
  <1>12. Shown' = Shown /\ Below(Working(draft), {job.root})' = Below(Working(draft), {job.root})
         /\ Existing(draft)' = Existing(draft)
    BY <1>4, <1>8 DEF Shown, Existing
  <1> QED
    BY <1>3, <1>4, <1>11, <1>12 DEF PublishState

LEMMA PublishInvariant == TypeInv /\ PublishState /\ [Next]_vars => PublishState'
  <1> SUFFICES ASSUME TypeInv, PublishState, [Next]_vars PROVE PublishState'
    OBVIOUS
  <1>1. CASE UNCHANGED vars
    <2>1. UNCHANGED <<published, draft, job, lost>>
      BY <1>1 DEF vars
    <2>2. Working(draft)' = Working(draft) /\ Existing(draft)' = Existing(draft)
      BY <2>1 DEF Working, Existing
    <2>3. Shown' = Shown /\ Below(Working(draft), {job.root})' = Below(Working(draft), {job.root})
      BY <2>1, <2>2 DEF Shown
    <2> QED
      BY <2>1, <2>2, <2>3 DEF PublishState
  <1>2. ASSUME job'.op # "publish" PROVE PublishState'
    BY <1>2 DEF PublishState
  <1>3. ASSUME NEW calls, Start(calls) \/ job' = [op |-> "refused", calls |-> calls]
        PROVE  job'.op # "publish"
    BY <1>3 DEF Start
  <1>4. CASE Next
    <2>1. ASSUME NEW b, NEW v, Edit(b, v) \/ Create(b, v) \/ Move(b, v) PROVE PublishState'
      BY <1>2, <1>3, <2>1 DEF Edit, Create, Move
    <2>2. ASSUME NEW b, Delete(b) \/ Discard(b) PROVE PublishState'
      BY <1>2, <1>3, <2>2 DEF Delete, Discard
    <2>3. ASSUME NEW b, DeleteOrphan(b), job = Idle PROVE PublishState'
      BY <1>2, <2>3 DEF DeleteOrphan, Idle
    <2>4. CASE job.op \in {"save", "refused"} /\ Call
      <3>1. job = [op |-> job.op, calls |-> job.calls]
        BY <2>4, JobIs DEF TypeInv
      <3>2. job'.op # "publish"
        BY <2>4, <3>1 DEF Call, Idle
      <3> QED
        BY <1>2, <3>2
    <2>5. CASE PublishEnds \/ Dies
      BY <1>2, <2>5 DEF PublishEnds, Dies, Idle
    <2> QED
      BY <1>4, <2>1, <2>2, <2>3, <2>4, <2>5, Steps, PublishBegins, PublishBlockKeeps,
         PublishDeletesKeeps
  <1> QED
    BY <1>1, <1>4

LEMMA Published == Spec => [](TypeInv /\ PublishState)
  <1>1. Init => PublishState
    BY DEF Init, PublishState, Idle
  <1> QED
    BY <1>1, TypeInit, TypeNext, PublishInvariant, PTL DEF Spec

\* When it ends the published tree is the author's, and no draft is in it.
LEMMA PublishEndsShow ==
    ASSUME TypeInv, PublishState, "publish" \notin lost, job.op = "publish", PublishEnds
    PROVE  /\ Tree(published', job.root) = Tree(Working(draft), job.root)
           /\ Below(published', {job.root}) \cap Existing(draft') = {}
  <1> DEFINE f == Working(draft)
             R == {job.root}
  <1>1. /\ job.root \in Shown
        /\ job.drafts = Below(f, R) \cap Existing(draft)
        /\ \A c \in job.drafts : published[c] = draft[c]
    BY DEF PublishState, PublishEnds
  <1>2. Built(f, Blocks, Versions) /\ job.root \in Blocks /\ DOMAIN published = Blocks
    BY WorkingIs, JobIs DEF TypeInv, Blocks, Drafted, Stored, Built
  <1>3. Reach(f, R) \subseteq Blocks
    <2>1. R \subseteq Blocks
      BY <1>2
    <2> HIDE DEF f, R
    <2> QED
      BY <1>2, <2>1, ReachBlocks
  <1>4. Agree(f, published, Reach(f, R))
    <2> SUFFICES ASSUME NEW c \in Reach(f, R)
                 PROVE  (c \in Existing(f) <=> c \in Existing(published)) /\ f[c] = published[c]
      BY DEF Agree
    <2>1. c \in Blocks /\ f[c] = IF c \in Existing(draft) THEN draft[c] ELSE published[c]
      BY <1>3 DEF Working
    <2>2. c \in Existing(draft) => c \in job.drafts
      <3>1. c \in Existing(draft) => c \in Existing(f)
        BY <2>1 DEF Working, Existing
      <3>2. c \in Existing(f) => c \in Below(f, R)
        BY DEF Below, Reach
      <3> QED
        BY <1>1, <3>1, <3>2
    <2>3. f[c] = published[c]
      BY <1>1, <2>1, <2>2
    <2>4. DOMAIN f = Blocks
      BY DEF Working
    <2> QED
      BY <1>2, <2>1, <2>3, <2>4 DEF Existing
  <1>5. Below(published, R) = Below(f, R) /\ \A c \in Below(f, R) : f[c] = published[c]
    <2> HIDE DEF f, R
    <2> QED
      BY <1>4, SameTrees
  <1>6. Tree(published, job.root) = Tree(f, job.root)
    BY <1>5 DEF Tree
  <1>7. published' = published
        /\ draft' = [b \in Drafted |-> IF b \in job.drafts THEN None ELSE draft[b]]
    BY DEF PublishEnds
  <1>8. Existing(draft') = Existing(draft) \ job.drafts
    BY <1>7 DEF Existing, TypeInv, Stored, Built
  <1> HIDE DEF f, R
  <1>9. Below(published', R) \cap Existing(draft') = {}
    BY <1>1, <1>5, <1>7, <1>8
  <1> QED
    BY <1>6, <1>7, <1>9 DEF f, R

\* When a publish has ended students are shown what the author was, and no draft
\* is left in it, whatever died before it (mongo/draft.py:publish).
THEOREM PublishShows == Spec => PublishShowsDraft
  <1> DEFINE A == job.op = "publish" /\ PublishEnds /\ "publish" \notin lost =>
                    /\ Tree(published', job.root) = Tree(Working(draft), job.root)
                    /\ Below(published', {job.root}) \cap Existing(draft') = {}
  <1>1. TypeInv /\ PublishState /\ [Next]_vars => [A]_vars
    BY PublishEndsShow
  <1> QED
    BY <1>1, Published, PTL DEF Spec, PublishShowsDraft

-----------------------------------------------------------------------------
(***************************************************************************)
(* Stores that are sound: P are the published documents, D the drafts.     *)
(***************************************************************************)
\* The author sees k in x.
Sees(P, D, x, k) == \/ x \in Existing(D) /\ k \in D[x].kids
                    \/ x \notin Existing(D) /\ x \in Existing(P) /\ k \in P[x].kids

\* A version of x lists k.
Lists(P, D, x, k) == \/ x \in Existing(P) /\ k \in P[x].kids
                     \/ x \in Existing(D) /\ k \in D[x].kids

\* The units of the course, and the groups in them as the author sees them.
Top(P) == Kids(P, Sections)

\* The blocks above components in the course.
Upper(P, D) == Top(P) \cup {g \in Groups : \E u \in Top(P) : Sees(P, D, u, g)}

\* Published blocks list published blocks.
AllThere(P) == \A b \in Drafted \cap Existing(P) : P[b].kids \subseteq Existing(P)

\* The drafts in the course list blocks that exist.
DraftsThere(P, D) == \A b \in Upper(P, D) \cap Existing(D) :
                        D[b].kids \subseteq Existing(D) \cup Existing(P)

\* A component or group that was never published is listed by one draft, if one in
\* the course lists it.
OneLister(P, D) ==
    \A k \in Existing(D) \ Existing(P) :
        \A b \in Upper(P, D) \cap Existing(D), c \in Existing(D) :
            k \in D[b].kids /\ k \in D[c].kids => b = c

\* The groups of the course, as the author or as students see it.
Known(P, D) == Groups \cap (Upper(P, D) \cup Kids(P, Top(P)))

\* Those that have a draft are in the course as the author sees it, and no draft out of
\* the course lists one of them; but for the drafts R, which are about to be removed.
InPlace(P, D, R) ==
    \A g \in Known(P, D) : /\ g \in Existing(D) \ R => g \in Upper(P, D)
                           /\ \A u \in Existing(D) \ R : g \in D[u].kids => u \in Top(P)

\* The ids not given out are of no block and in no list.
Unused(P, D, F) == \A b \in F : /\ b \notin Existing(P) \cup Existing(D)
                                /\ \A x \in Blocks : ~Lists(P, D, x, b)

\* F: the ids not given out yet.
Tidy(P, D, F) ==
    /\ Built(P, Blocks, Versions) /\ Built(D, Drafted, Versions)
    /\ DraftsThere(P, D) /\ OneLister(P, D) /\ Unused(P, D, F)

\* Stores between two calls of a request.
Fit(P, D, F) == Tidy(P, D, F) /\ AllThere(P)

\* Stores while a publish is at work.
Steady(P, D, F) == Tidy(P, D, F) /\ InPlace(P, D, {})

Sound(P, D, F) == Fit(P, D, F) /\ InPlace(P, D, {})

\* The units of the course are what its sections list.
LEMMA TopIs ==
    ASSUME NEW P, Built(P, Blocks, Versions)
    PROVE  /\ Top(P) \subseteq Units
           /\ \A b : b \in Top(P) <=> \E q \in Sections \cap Existing(P) : b \in P[q].kids
  BY Levels DEF Top, Kids

\* And the groups are what its units are seen to list.
LEMMA UpperIs ==
    ASSUME NEW P, NEW D, Built(P, Blocks, Versions)
    PROVE  /\ Upper(P, D) \subseteq Units \cup Groups
           /\ \A b \in Units : b \in Upper(P, D) <=> b \in Top(P)
           /\ \A b \in Groups : b \in Upper(P, D) <=> \E u \in Top(P) : Sees(P, D, u, b)
  BY TopIs, CategoriesAssumption DEF Upper

\* Documents of the categories.
LEMMA KidsOf ==
    ASSUME NEW f, NEW S, S \subseteq Blocks, Built(f, S, Versions)
    PROVE  /\ DOMAIN f = S /\ Existing(f) \subseteq S
           /\ \A b \in Existing(f) :
                 /\ f[b].kids \subseteq Drafted
                 /\ b \in Sections => f[b].kids \subseteq Units
                 /\ b \in Units => f[b].kids \subseteq Groups \cup Components
                 /\ b \in Groups => f[b].kids \subseteq Components
                 /\ b \in Components => f[b].kids = {}
  <1>1. \A b \in Existing(f) : b \in S /\ f[b].kids \subseteq Holds(b)
    BY BuiltIs DEF DocOf
  <1> QED
    BY <1>1, HoldsIs DEF Built, Existing

-----------------------------------------------------------------------------
\* Copies of published blocks.
Copied(P, D, T) == Written(D, [c \in T |-> P[c]])

\* Copying a published block adds its document to the drafts and changes no other.
LEMMA CopiedIs ==
    ASSUME NEW P, NEW D, Built(P, Blocks, Versions), Built(D, Drafted, Versions),
           NEW T, T \subseteq Existing(P) \cap Drafted
    PROVE  /\ Built(Copied(P, D, T), Drafted, Versions)
           /\ Existing(Copied(P, D, T)) = Existing(D) \cup T
           /\ \A c \in T : Copied(P, D, T)[c] = P[c]
           /\ \A c \in Drafted \ T : Copied(P, D, T)[c] = D[c]
  <1> DEFINE new == [c \in T |-> P[c]]
  <1>1. \A c \in T : P[c] \in Doc /\ P[c].kids \subseteq Holds(c) /\ P[c] # None
    BY BuiltIs, DocIs DEF DocOf
  <1>2. Built(Written(D, new), Drafted, Versions)
    <2>1. \A c \in DOMAIN new : new[c] \in Versions /\ new[c].kids \subseteq Holds(c)
      BY <1>1 DEF Versions
    <2> HIDE DEF new
    <2> QED
      BY <2>1, WrittenBuilt
  <1>3. Existing(Written(D, new)) = Existing(D) \cup T
    BY <1>1 DEF Existing, Written, Built
  <1>4. \A c \in T : Written(D, new)[c] = P[c]
    BY DEF Written, Built
  <1>5. \A c \in Drafted \ T : Written(D, new)[c] = D[c]
    BY DEF Written, Built
  <1> QED
    BY <1>2, <1>3, <1>4, <1>5 DEF Copied

\* A copy changes nothing for the author.
LEMMA CopyFit ==
    ASSUME NEW P, NEW D, NEW F, Fit(P, D, F),
           NEW T, T \subseteq (Existing(P) \ Existing(D)) \cap Drafted
    PROVE  /\ Fit(P, Copied(P, D, T), F)
           /\ Upper(P, Copied(P, D, T)) = Upper(P, D)
           /\ Existing(Copied(P, D, T)) = Existing(D) \cup T
           /\ \A c \in T : Copied(P, D, T)[c] = P[c]
           /\ \A c \in Existing(D) : Copied(P, D, T)[c] = D[c]
  <1> DEFINE E == Copied(P, D, T)
  <1>1. /\ Built(P, Blocks, Versions) /\ Built(D, Drafted, Versions) /\ AllThere(P)
        /\ DraftsThere(P, D) /\ OneLister(P, D) /\ Unused(P, D, F)
    BY DEF Fit, Tidy
  <1>2. /\ Built(E, Drafted, Versions) /\ Existing(E) = Existing(D) \cup T
        /\ \A c \in T : E[c] = P[c]
        /\ \A c \in Existing(D) : E[c] = D[c]
    <2>1. Existing(D) \subseteq Drafted \ T
      BY <1>1, KidsOf, Drafted \subseteq Blocks DEF Blocks
    <2> QED
      BY <1>1, <2>1, CopiedIs
  <1> HIDE DEF E
  <1>3. \A x, k : Sees(P, E, x, k) <=> Sees(P, D, x, k)
    BY <1>2 DEF Sees
  <1>4. Upper(P, E) = Upper(P, D)
    BY <1>3 DEF Upper
  <1>5. \A x, k : Lists(P, E, x, k) <=> Lists(P, D, x, k)
    BY <1>2 DEF Lists
  <1>6. DraftsThere(P, E)
    BY <1>1, <1>2, <1>4 DEF DraftsThere, AllThere
  <1>7. OneLister(P, E)
    BY <1>1, <1>2, <1>4 DEF OneLister, AllThere
  <1>8. Unused(P, E, F)
    BY <1>1, <1>2, <1>5 DEF Unused
  <1> QED
    BY <1>1, <1>2, <1>4, <1>6, <1>7, <1>8 DEF Fit, Tidy, E

\* Copies of groups and units of the course.
LEMMA CopySound ==
    ASSUME NEW P, NEW D, NEW F, Sound(P, D, F),
           NEW T, T \subseteq (Existing(P) \ Existing(D)) \cap Drafted,
           T \cap (Units \cup Groups) \subseteq Upper(P, D)
    PROVE  Sound(P, Copied(P, D, T), F)
  <1> DEFINE E == Copied(P, D, T)
  <1>1. Fit(P, D, F) /\ InPlace(P, D, {}) /\ Built(P, Blocks, Versions)
    BY DEF Sound, Fit, Tidy
  <1>2. /\ Fit(P, E, F) /\ Upper(P, E) = Upper(P, D) /\ Existing(E) = Existing(D) \cup T
        /\ \A c \in T : E[c] = P[c]
        /\ \A c \in Existing(D) : E[c] = D[c]
    BY <1>1, CopyFit
  <1>3. \A u \in T, g \in Groups : g \in P[u].kids => u \in Top(P)
    <2> SUFFICES ASSUME NEW u \in T, NEW g \in Groups, g \in P[u].kids PROVE u \in Top(P)
      OBVIOUS
    <2>1. u \in Units
      BY <1>1, KidsOf, CategoriesAssumption DEF Drafted
    <2> QED
      BY <1>1, <2>1, UpperIs
  <1> HIDE DEF E
  <1>4. InPlace(P, E, {})
    BY <1>1, <1>2, <1>3 DEF InPlace, Known
  <1> QED
    BY <1>2, <1>4 DEF Sound, E

\* Lists that get shorter.
LEMMA FewerFit ==
    ASSUME NEW P, NEW D, NEW F, Fit(P, D, F), NEW Q, NEW E,
           Built(Q, Blocks, Versions), Built(E, Drafted, Versions),
           Existing(Q) = Existing(P), Existing(E) = Existing(D),
           \A c \in Drafted : Q[c] = P[c],
           \A c \in Existing(P) : Q[c].kids \subseteq P[c].kids,
           \A c \in Existing(D) : E[c].kids \subseteq D[c].kids
    PROVE  /\ Fit(Q, E, F)
           /\ Top(Q) \subseteq Top(P) /\ Upper(Q, E) \subseteq Upper(P, D)
           /\ Kids(Q, Top(Q)) \subseteq Kids(P, Top(P))
  <1>1. /\ Built(P, Blocks, Versions) /\ Built(D, Drafted, Versions) /\ AllThere(P)
        /\ DraftsThere(P, D) /\ OneLister(P, D) /\ Unused(P, D, F)
    BY DEF Fit, Tidy
  <1>2. Top(Q) \subseteq Top(P) /\ Top(P) \subseteq Units /\ Units \subseteq Drafted
    BY <1>1, TopIs DEF Drafted
  <1>3. \A x \in Drafted : \A k : Sees(Q, E, x, k) => Sees(P, D, x, k)
    BY DEF Sees
  <1>4. Upper(Q, E) \subseteq Upper(P, D) /\ Kids(Q, Top(Q)) \subseteq Kids(P, Top(P))
    <2>1. Upper(Q, E) \subseteq Upper(P, D)
      BY <1>2, <1>3 DEF Upper
    <2>2. Kids(Q, Top(Q)) \subseteq Kids(P, Top(P))
      BY <1>2 DEF Kids
    <2> QED
      BY <2>1, <2>2
  <1>5. \A x, k : Lists(Q, E, x, k) => Lists(P, D, x, k)
    BY DEF Lists
  <1>6. AllThere(Q)
    BY <1>1 DEF AllThere
  <1>7. DraftsThere(Q, E)
    BY <1>1, <1>4 DEF DraftsThere
  <1>8. OneLister(Q, E)
    BY <1>1, <1>4 DEF OneLister
  <1>9. Unused(Q, E, F)
    BY <1>1, <1>5 DEF Unused
  <1> QED
    BY <1>2, <1>4, <1>6, <1>7, <1>8, <1>9 DEF Fit, Tidy

\* A draft that gets a child that exists: what the child lists exists too, and a
\* draft that was never published, the child or one that it lists, has no other lister.
LEMMA AddedFit ==
    ASSUME NEW P, NEW D, NEW F, Fit(P, D, F), NEW E, NEW t \in Existing(D), NEW b,
           Built(E, Drafted, Versions), Existing(E) = Existing(D),
           \A c \in Existing(D) \ {t} : E[c] = D[c],
           E[t].kids = D[t].kids \cup {b},
           b \notin F, b \in Existing(D) \cup Existing(P),
           b \notin Existing(P) => \A c \in Existing(D) \ {t} : b \notin D[c].kids,
           b \in Groups \cap Existing(D) =>
              /\ D[b].kids \subseteq Existing(D) \cup Existing(P)
              /\ \A k \in D[b].kids \ Existing(P), c \in Existing(D) \ {b} : k \notin D[c].kids
    PROVE  Fit(P, E, F) /\ Upper(P, E) \subseteq Upper(P, D) \cup ({b} \cap Groups)
  <1>1. /\ Built(P, Blocks, Versions) /\ Built(D, Drafted, Versions) /\ AllThere(P)
        /\ DraftsThere(P, D) /\ OneLister(P, D) /\ Unused(P, D, F)
    BY DEF Fit, Tidy
  <1>2. \A x, k : Sees(P, E, x, k) <=> Sees(P, D, x, k) \/ (x = t /\ k = b)
    BY DEF Sees
  <1>3. Upper(P, E) \subseteq Upper(P, D) \cup ({b} \cap Groups)
    BY <1>2 DEF Upper
  <1>4. \A x, k : Lists(P, E, x, k) <=> Lists(P, D, x, k) \/ (x = t /\ k = b)
    BY DEF Lists
  <1>5. b # t
    <2>1. b \in E[t].kids /\ t \in Existing(E) /\ t \in Drafted
      BY <1>1, KidsOf, Drafted \subseteq Blocks DEF Blocks
    <2> QED
      BY <2>1, KidsOf, CategoriesAssumption, Drafted \subseteq Blocks DEF Blocks, Drafted
  <1>6. DraftsThere(P, E)
    <2> SUFFICES ASSUME NEW x \in Upper(P, E) \cap Existing(E), NEW k \in E[x].kids
                 PROVE  k \in Existing(E) \cup Existing(P)
      BY DEF DraftsThere
    <2>1. k = b \/ k \in D[x].kids
      OBVIOUS
    <2>2. x \in Upper(P, D) \/ (x = b /\ b \in Groups)
      BY <1>3
    <2> QED
      BY <1>1, <2>1, <2>2 DEF DraftsThere
  <1>7. OneLister(P, E)
    <2> SUFFICES ASSUME NEW k \in Existing(E) \ Existing(P),
                        NEW x \in Upper(P, E) \cap Existing(E), NEW c \in Existing(E),
                        k \in E[x].kids, k \in E[c].kids
                 PROVE  x = c
      BY DEF OneLister
    <2>1. CASE k = b
      BY <2>1
    <2>2. CASE k # b
      <3>1. k \in D[x].kids /\ k \in D[c].kids
        BY <2>2
      <3>2. x \in Upper(P, D) \/ (x = b /\ b \in Groups)
        BY <1>3
      <3> QED
        BY <1>1, <3>1, <3>2 DEF OneLister
    <2> QED
      BY <2>1, <2>2
  <1>8. Unused(P, E, F)
    BY <1>1, <1>4 DEF Unused
  <1> QED
    BY <1>1, <1>3, <1>6, <1>7, <1>8 DEF Fit, Tidy

\* A section that gets a new unit.
LEMMA UnitAddedSound ==
    ASSUME NEW P, NEW D, NEW F, Sound(P, D, F), NEW Q, NEW t \in Sections \cap Existing(P),
           NEW b \in Units \cap Existing(D), D[b].kids = {}, b \notin F,
           b \notin Existing(P),
           Built(Q, Blocks, Versions), Existing(Q) = Existing(P),
           \A c \in Existing(P) \ {t} : Q[c] = P[c],
           Q[t].kids = P[t].kids \cup {b}
    PROVE  Sound(Q, D, F)
  <1>1. /\ Built(P, Blocks, Versions) /\ Built(D, Drafted, Versions) /\ AllThere(P)
        /\ DraftsThere(P, D) /\ OneLister(P, D) /\ Unused(P, D, F) /\ InPlace(P, D, {})
    BY DEF Sound, Fit, Tidy
  <1>2. t \notin Drafted /\ Top(P) \subseteq Units /\ Units \subseteq Drafted
    BY <1>1, TopIs, CategoriesAssumption DEF Drafted
  <1>3. Top(Q) = Top(P) \cup {b}
    BY <1>1, TopIs
  <1>4. \A x \in Drafted : \A k : Sees(Q, D, x, k) <=> Sees(P, D, x, k)
    BY <1>2 DEF Sees
  <1>5. Upper(Q, D) = Upper(P, D) \cup {b}
    BY <1>2, <1>3, <1>4 DEF Upper, Sees
  <1>6. \A x, k : Lists(Q, D, x, k) <=> Lists(P, D, x, k) \/ (x = t /\ k = b)
    BY DEF Lists
  <1>7. AllThere(Q)
    BY <1>1, <1>2 DEF AllThere
  <1>8. DraftsThere(Q, D)
    BY <1>1, <1>5 DEF DraftsThere
  <1>9. OneLister(Q, D)
    BY <1>1, <1>5 DEF OneLister
  <1>10. Unused(Q, D, F)
    BY <1>1, <1>6 DEF Unused
  <1>11. InPlace(Q, D, {})
    <2>1. Kids(Q, Top(Q)) = Kids(P, Top(P))
      BY <1>2, <1>3 DEF Kids
    <2>2. Known(Q, D) = Known(P, D)
      BY <1>5, <2>1, CategoriesAssumption DEF Known
    <2> QED
      BY <1>1, <1>3, <1>5, <2>2 DEF InPlace
  <1> QED
    BY <1>1, <1>7, <1>8, <1>9, <1>10, <1>11 DEF Sound, Fit, Tidy

\* Sections that list the same units as before.
LEMMA SameTopSound ==
    ASSUME NEW P, NEW D, NEW F, Sound(P, D, F), NEW Q,
           Built(Q, Blocks, Versions), Existing(Q) = Existing(P),
           \A c \in Drafted : Q[c] = P[c], Top(Q) = Top(P)
    PROVE  Sound(Q, D, F)
  <1>1. /\ Built(P, Blocks, Versions) /\ Built(D, Drafted, Versions) /\ AllThere(P)
        /\ DraftsThere(P, D) /\ OneLister(P, D) /\ Unused(P, D, F) /\ InPlace(P, D, {})
        /\ Top(P) \subseteq Drafted
    BY TopIs DEF Sound, Fit, Tidy, Drafted
  <1>2. Upper(Q, D) = Upper(P, D)
    <2>1. \A x \in Drafted : \A k : Sees(Q, D, x, k) <=> Sees(P, D, x, k)
      BY DEF Sees
    <2> QED
      BY <1>1, <2>1 DEF Upper
  <1>3. Kids(Q, Top(Q)) = Kids(P, Top(P))
    BY <1>1 DEF Kids
  <1>4. AllThere(Q)
    BY <1>1 DEF AllThere
  <1>5. DraftsThere(Q, D) /\ OneLister(Q, D)
    BY <1>1, <1>2 DEF DraftsThere, OneLister
  <1>6. InPlace(Q, D, {})
    BY <1>1, <1>2, <1>3 DEF InPlace, Known
  <1>7. Unused(Q, D, F)
    <2> SUFFICES ASSUME NEW b \in F, NEW x \in Blocks, Lists(Q, D, x, b) PROVE FALSE
      BY <1>1 DEF Unused
    <2>1. CASE x \in Drafted \/ (x \in Existing(D) /\ b \in D[x].kids)
      BY <1>1, <2>1 DEF Unused, Lists
    <2>2. CASE x \in Sections /\ x \in Existing(Q) /\ b \in Q[x].kids
      <3>1. b \in Top(P)
        BY <2>2, TopIs
      <3>2. \E q \in Sections \cap Existing(P) : b \in P[q].kids
        BY <1>1, <3>1, TopIs
      <3> QED
        BY <1>1, <3>2 DEF Unused, Lists, Blocks
    <2> QED
      BY <2>1, <2>2 DEF Lists, Blocks
  <1> QED
    BY <1>1, <1>4, <1>5, <1>6, <1>7 DEF Sound, Fit, Tidy

\* A draft of a block whose id was not given out: nothing lists it.
LEMMA CreatedSound ==
    ASSUME NEW P, NEW D, NEW F, NEW b \in Drafted, Sound(P, D, F \cup {b}), b \notin F, NEW E,
           Built(E, Drafted, Versions), Existing(E) = Existing(D) \cup {b},
           \A c \in Existing(D) : E[c] = D[c],
           E[b].kids = {}
    PROVE  Sound(P, E, F) /\ Upper(P, E) = Upper(P, D) /\ \A x \in Blocks : ~Lists(P, E, x, b)
  <1>1. /\ Built(P, Blocks, Versions) /\ Built(D, Drafted, Versions) /\ AllThere(P)
        /\ DraftsThere(P, D) /\ OneLister(P, D) /\ Unused(P, D, F \cup {b}) /\ InPlace(P, D, {})
    BY DEF Sound, Fit, Tidy
  <1>2. /\ b \notin Existing(P) \cup Existing(D) /\ \A x \in Blocks : ~Lists(P, D, x, b)
        /\ Top(P) \subseteq Units /\ Units \subseteq Blocks /\ Groups \subseteq Blocks
    BY <1>1, TopIs DEF Unused, Blocks, Drafted
  <1>3. \A x, k : Sees(P, E, x, k) <=> Sees(P, D, x, k)
    BY <1>2 DEF Sees
  <1>4. Upper(P, E) = Upper(P, D)
    BY <1>3 DEF Upper
  <1>5. \A x, k : Lists(P, E, x, k) <=> Lists(P, D, x, k)
    BY <1>2 DEF Lists
  <1>6. DraftsThere(P, E)
    BY <1>1, <1>2, <1>4 DEF DraftsThere
  <1>7. OneLister(P, E)
    <2>1. \A k, c : c \in Existing(E) /\ k \in E[c].kids =>
             c \in Existing(D) /\ k \in D[c].kids /\ k # b
      <3>1. Existing(D) \subseteq Blocks
        BY <1>1, KidsOf, Drafted \subseteq Blocks DEF Blocks
      <3> QED
        BY <1>2, <3>1 DEF Lists
    <2> QED
      BY <1>1, <1>4, <2>1 DEF OneLister
  <1>8. Unused(P, E, F)
    BY <1>1, <1>2, <1>5 DEF Unused
  <1>9. InPlace(P, E, {})
    <2>1. Known(P, E) = Known(P, D)
      BY <1>4 DEF Known
    <2>2. b \in Groups => b \notin Known(P, D)
      <3> SUFFICES ASSUME b \in Groups PROVE b \notin Upper(P, D) \cup Kids(P, Top(P))
        BY DEF Known
      <3>1. \A x \in Top(P) : ~Sees(P, D, x, b) /\ ~(x \in Existing(P) /\ b \in P[x].kids)
        BY <1>2 DEF Sees, Lists
      <3>2. b \notin Upper(P, D)
        BY <1>1, <3>1, UpperIs
      <3>3. b \notin Kids(P, Top(P))
        BY <3>1 DEF Kids
      <3> QED
        BY <3>2, <3>3
    <2>3. ASSUME NEW g \in Known(P, D), g \in Existing(E) PROVE g \in Upper(P, E)
      BY <1>1, <1>4, <2>2, <2>3 DEF InPlace, Known
    <2>4. ASSUME NEW g \in Known(P, D), NEW u \in Existing(E), g \in E[u].kids PROVE u \in Top(P)
      BY <1>1, <2>4 DEF InPlace
    <2> QED
      BY <2>1, <2>3, <2>4 DEF InPlace
  <1> QED
    BY <1>1, <1>2, <1>4, <1>5, <1>6, <1>7, <1>8, <1>9 DEF Sound, Fit, Tidy

\* Drafts that list what they did before.
LEMMA SameListsSound ==
    ASSUME NEW P, NEW D, NEW F, Sound(P, D, F), NEW E,
           Built(E, Drafted, Versions), Existing(E) = Existing(D),
           \A c \in Existing(D) : E[c].kids = D[c].kids
    PROVE  Sound(P, E, F)
  <1>1. Built(P, Blocks, Versions) /\ Fit(P, D, F) /\ InPlace(P, D, {})
    BY DEF Sound, Fit, Tidy
  <1>2. Fit(P, E, F)
    BY <1>1, FewerFit
  <1>3. Upper(P, E) = Upper(P, D)
    <2>1. \A x, k : Sees(P, E, x, k) <=> Sees(P, D, x, k)
      BY DEF Sees
    <2> QED
      BY <2>1 DEF Upper
  <1>4. InPlace(P, E, {})
    BY <1>1, <1>3 DEF InPlace, Known
  <1> QED
    BY <1>2, <1>4 DEF Sound

\* What is below some blocks is one of them or listed by one that is there.
LEMMA BelowIs ==
    ASSUME NEW f, NEW T, NEW k \in Below(f, T)
    PROVE  k \in Existing(f) /\ (k \in T \/ \E c \in Below(f, T) : k \in f[c].kids)
  <1> DEFINE A == Kids(f, T)  B == Kids(f, A)  C == Kids(f, B)
  <1>1. Below(f, T) = (T \cup A \cup B \cup C) \cap Existing(f)
    BY TiersIs DEF Below, Reach
  <1>2. \A X : k \in Kids(f, X) => \E c \in X \cap Existing(f) : k \in f[c].kids
    BY DEF Kids
  <1> HIDE DEF A, B, C
  <1>3. (k \in A => \E c \in T \cap Existing(f) : k \in f[c].kids)
        /\ (k \in B => \E c \in A \cap Existing(f) : k \in f[c].kids)
        /\ (k \in C => \E c \in B \cap Existing(f) : k \in f[c].kids)
    BY <1>2 DEF A, B, C
  <1> QED
    BY <1>1, <1>3

\* Drafts that are removed with all that is below them: those of T that would be gone
\* altogether are in no list.
LEMMA RemovedSound ==
    ASSUME NEW P, NEW D, NEW F, NEW T, NEW S, S = Below(D, T), Fit(P, D, F), InPlace(P, D, S),
           \A k \in T \cap Existing(D) : k \in Existing(P) \/ \A c \in Existing(D) : k \notin D[c].kids,
           NEW E, Built(E, Drafted, Versions), Existing(E) = Existing(D) \ S,
           \A c \in Existing(E) : E[c] = D[c]
    PROVE  Sound(P, E, F)
  <1>1. /\ Built(P, Blocks, Versions) /\ Built(D, Drafted, Versions) /\ AllThere(P)
        /\ DraftsThere(P, D) /\ OneLister(P, D) /\ Unused(P, D, F)
    BY DEF Fit, Tidy
  <1>2. \A k \in S : /\ k \in Existing(D)
                     /\ k \in T \/ \E c \in S : k \in D[c].kids
    BY BelowIs
  <1>3. \A k : k \in Upper(P, E) /\ k \in Groups => k \in Known(P, D)
    <2> SUFFICES ASSUME NEW g \in Groups, NEW u \in Top(P), Sees(P, E, u, g)
                 PROVE  g \in Known(P, D)
      BY <1>1, UpperIs
    <2>1. CASE u \notin S
      BY <2>1 DEF Sees, Upper, Known
    <2>2. CASE u \in S
      BY <2>2 DEF Sees, Known, Kids
    <2> QED
      BY <2>1, <2>2
  <1>4. Upper(P, E) \cap Existing(E) \subseteq Upper(P, D)
    BY <1>1, <1>3, UpperIs DEF InPlace
  <1>5. DraftsThere(P, E)
    <2> SUFFICES ASSUME NEW b \in Upper(P, E) \cap Existing(E), NEW k \in E[b].kids,
                        k \in S, k \notin Existing(P)
                 PROVE  FALSE
      BY <1>1, <1>4 DEF DraftsThere
    <2>1. b \in Upper(P, D) \cap Existing(D) /\ b \notin S /\ k \in D[b].kids
      BY <1>4
    <2>2. PICK c \in S : k \in D[c].kids
      BY <1>2, <2>1
    <2> QED
      BY <1>1, <1>2, <2>1, <2>2 DEF OneLister
  <1>6. OneLister(P, E)
    BY <1>1, <1>4 DEF OneLister
  <1>7. Unused(P, E, F)
    BY <1>1 DEF Unused, Lists
  <1>8. \A u \in S \cap Units, g \in Existing(D) : g \in D[u].kids => g \in S
    <2> SUFFICES ASSUME NEW u \in S \cap Units, NEW g \in Existing(D), g \in D[u].kids
                 PROVE  g \in S
      OBVIOUS
    <2>1. \A c \in S : u \notin D[c].kids
      BY <1>1, <1>2, KidsOf, CategoriesAssumption, Drafted \subseteq Blocks DEF Blocks, Drafted
    <2>2. u \in T /\ u \in Existing(D)
      BY <1>2, <2>1
    <2>3. g \in Kids(D, T)
      BY <2>2 DEF Kids
    <2> QED
      BY <2>3, TiersIs DEF Below, Reach
  <1>9. InPlace(P, E, {})
    <2> SUFFICES ASSUME NEW g \in Known(P, E)
                 PROVE  /\ g \in Existing(E) => g \in Upper(P, E)
                        /\ \A u \in Existing(E) : g \in E[u].kids => u \in Top(P)
      BY DEF InPlace
    <2>1. g \in Known(P, D) /\ g \in Groups
      BY <1>3 DEF Known
    <2>2. ASSUME g \in Existing(E) PROVE g \in Upper(P, E)
      <3>1. g \in Upper(P, D) /\ g \in Existing(D) /\ g \notin S
        BY <2>1, <2>2 DEF InPlace
      <3>2. PICK u \in Top(P) : Sees(P, D, u, g)
        BY <1>1, <2>1, <3>1, UpperIs
      <3>3. u \notin S
        BY <1>1, <1>2, <1>8, <3>1, <3>2, TopIs DEF Sees
      <3>4. Sees(P, E, u, g)
        BY <3>2, <3>3 DEF Sees
      <3> QED
        BY <2>1, <3>4 DEF Upper
    <2>3. ASSUME NEW u \in Existing(E), g \in E[u].kids PROVE u \in Top(P)
      BY <2>1, <2>3 DEF InPlace
    <2> QED
      BY <2>2, <2>3
  <1> QED
    BY <1>1, <1>5, <1>6, <1>7, <1>9 DEF Sound, Fit, Tidy

\* Both versions of blocks are removed that only blocks removed with them list.
LEMMA OrphanSound ==
    ASSUME NEW P, NEW D, NEW F, Sound(P, D, F), NEW S, NEW Q, NEW E,
           Built(Q, Blocks, Versions), Built(E, Drafted, Versions),
           Existing(Q) = Existing(P) \ S, \A c \in Existing(Q) : Q[c] = P[c],
           Existing(E) = Existing(D) \ S, \A c \in Existing(E) : E[c] = D[c],
           S \cap Sections = {},
           \A c \in S, x \in Blocks : Lists(P, D, x, c) => x \in S
    PROVE  Sound(Q, E, F)
  <1>1. /\ Built(P, Blocks, Versions) /\ Built(D, Drafted, Versions) /\ AllThere(P)
        /\ DraftsThere(P, D) /\ OneLister(P, D) /\ Unused(P, D, F) /\ InPlace(P, D, {})
    BY DEF Sound, Fit, Tidy
  <1>2. Existing(P) \subseteq Blocks /\ Existing(D) \subseteq Blocks
    BY <1>1, KidsOf, Drafted \subseteq Blocks DEF Blocks
  <1>3. \A x, k : Lists(Q, E, x, k) => Lists(P, D, x, k)
    BY DEF Lists
  <1>4. \A c \in Existing(Q) : Q[c].kids \cap S = {}
    BY <1>2 DEF Lists
  <1>5. \A c \in Existing(E) : E[c].kids \cap S = {}
    BY <1>2 DEF Lists
  <1>6. Top(Q) = Top(P) /\ Top(P) \cap S = {}
    <2>1. Sections \cap Existing(Q) = Sections \cap Existing(P)
      OBVIOUS
    <2>2. Top(Q) = Top(P)
      BY <1>1, <2>1, TopIs
    <2> QED
      BY <1>1, <2>1, <2>2, <1>4, TopIs
  <1>7. \A u, k : Sees(Q, E, u, k) => Sees(P, D, u, k)
    BY DEF Sees
  <1>8. Upper(Q, E) \subseteq Upper(P, D)
    BY <1>6, <1>7 DEF Upper
  <1>9. AllThere(Q)
    BY <1>1, <1>4 DEF AllThere
  <1>10. DraftsThere(Q, E)
    BY <1>1, <1>5, <1>8 DEF DraftsThere
  <1>11. OneLister(Q, E)
    BY <1>1, <1>5, <1>8 DEF OneLister
  <1>12. Unused(Q, E, F)
    BY <1>1, <1>3 DEF Unused
  <1>13. InPlace(Q, E, {})
    <2> SUFFICES ASSUME NEW g \in Known(Q, E)
                 PROVE  /\ g \in Existing(E) => g \in Upper(Q, E)
                        /\ \A u \in Existing(E) : g \in E[u].kids => u \in Top(Q)
      BY DEF InPlace
    <2>1. g \in Known(P, D) /\ g \in Groups
      BY <1>6, <1>8 DEF Known, Kids
    <2>2. ASSUME g \in Existing(E) PROVE g \in Upper(Q, E)
      <3>1. g \in Upper(P, D)
        BY <1>1, <2>1, <2>2 DEF InPlace
      <3>2. PICK u \in Top(P) : Sees(P, D, u, g)
        BY <1>1, <2>1, <3>1, UpperIs
      <3>3. Sees(Q, E, u, g)
        BY <1>6, <3>2 DEF Sees
      <3> QED
        BY <1>6, <2>1, <3>2, <3>3 DEF Upper
    <2> QED
      BY <1>1, <1>6, <2>1, <2>2 DEF InPlace
  <1> QED
    BY <1>9, <1>10, <1>11, <1>12, <1>13 DEF Sound, Fit, Tidy

-----------------------------------------------------------------------------
(***************************************************************************)
(* A publish makes holes: children that the drafts of blocks it has yet to *)
(* save, L, have dropped.                                                  *)
(***************************************************************************)
Holes(P, D, L) == \A b \in Drafted \cap Existing(P) :
                     \A k \in P[b].kids \ Existing(P) : b \in L /\ k \notin D[b].kids

\* Without holes every published list is of published blocks.
LEMMA NoHoles == ASSUME NEW P, NEW D PROVE Holes(P, D, {}) <=> AllThere(P)
  BY DEF Holes, AllThere

\* A child c of b with all below it is deleted, nothing of which the author sees.
LEMMA DeletedSteady ==
    ASSUME NEW P, NEW D, NEW F, Steady(P, D, F), NEW L, Holes(P, D, L),
           NEW b \in L \cap Existing(P), NEW c, c \in P[b].kids \ D[b].kids,
           \A x, y \in Existing(P) : \A k : k \in P[x].kids /\ k \in P[y].kids => x = y,
           NEW S, S = Below(P, {c}),
           S \cap Top(P) = {},
           \A x \in Upper(P, D), k \in S : ~Sees(P, D, x, k),
           NEW Q, Built(Q, Blocks, Versions),
           Existing(Q) = Existing(P) \ S, \A k \in Existing(Q) : Q[k] = P[k]
    PROVE  Steady(Q, D, F) /\ Holes(Q, D, L)
  <1>1. /\ Built(P, Blocks, Versions) /\ Built(D, Drafted, Versions)
        /\ DraftsThere(P, D) /\ OneLister(P, D) /\ Unused(P, D, F) /\ InPlace(P, D, {})
    BY DEF Steady, Tidy
  <1>2. \A k \in S : k \in Existing(P) /\ (k = c \/ \E x \in S : k \in P[x].kids)
    BY BelowIs
  <1>3. \A x, k : Lists(Q, D, x, k) => Lists(P, D, x, k)
    BY DEF Lists
  <1>4. Top(Q) = Top(P)
    <2>1. \A x \in Existing(P) : P[x].kids \subseteq Drafted
      BY <1>1, KidsOf
    <2>2. S \subseteq Drafted
      BY <1>2, <2>1
    <2>3. Sections \cap Existing(Q) = Sections \cap Existing(P)
      BY <2>2, CategoriesAssumption
    <2>4. \A q \in Sections \cap Existing(P) : Q[q] = P[q]
      BY <2>3
    <2> QED
      BY <2>3, <2>4 DEF Top, Kids
  <1>5. \A x, k : Sees(Q, D, x, k) => Sees(P, D, x, k)
    BY DEF Sees
  <1>6. Upper(Q, D) \subseteq Upper(P, D)
    BY <1>4, <1>5 DEF Upper
  <1>7. \A x \in Upper(Q, D) \cap Existing(D) : D[x].kids \cap S = {}
    BY <1>6 DEF Sees
  <1>8. DraftsThere(Q, D)
    BY <1>1, <1>6, <1>7 DEF DraftsThere
  <1>9. OneLister(Q, D)
    BY <1>1, <1>6, <1>7 DEF OneLister
  <1>10. Unused(Q, D, F)
    BY <1>1, <1>3 DEF Unused
  <1>11. InPlace(Q, D, {})
    <2> SUFFICES ASSUME NEW g \in Known(Q, D)
                 PROVE  /\ g \in Existing(D) => g \in Upper(Q, D)
                        /\ \A u \in Existing(D) : g \in D[u].kids => u \in Top(Q)
      BY DEF InPlace
    <2>1. g \in Known(P, D) /\ g \in Groups
      BY <1>4, <1>6 DEF Known, Kids
    <2>2. ASSUME g \in Existing(D) PROVE g \in Upper(Q, D)
      <3>1. g \in Upper(P, D)
        BY <1>1, <2>1, <2>2 DEF InPlace
      <3>2. PICK u \in Top(P) : Sees(P, D, u, g)
        BY <1>1, <2>1, <3>1, UpperIs
      <3>3. Sees(Q, D, u, g)
        BY <3>2 DEF Sees
      <3> QED
        BY <1>4, <2>1, <3>2, <3>3 DEF Upper
    <2> QED
      BY <1>1, <1>4, <2>1, <2>2 DEF InPlace
  <1>12. Holes(Q, D, L)
    <2> SUFFICES ASSUME NEW x \in Drafted \cap Existing(Q), NEW k \in Q[x].kids \ Existing(Q)
                 PROVE  x \in L /\ k \notin D[x].kids
      BY DEF Holes
    <2>1. x \in Existing(P) /\ k \in P[x].kids /\ x \notin S
      OBVIOUS
    <2>2. CASE k \notin Existing(P)
      BY <2>1, <2>2 DEF Holes
    <2>3. CASE k = c
      <3>1. x = b
        BY <2>1, <2>3
      <3> QED
        BY <2>3, <3>1
    <2>4. CASE k \in Existing(P) /\ k # c
      <3>1. k \in S
        BY <2>4
      <3>2. PICK y \in S : k \in P[y].kids
        BY <1>2, <2>4, <3>1
      <3>3. y \in Existing(P)
        BY <1>2
      <3>4. x = y
        BY <2>1, <3>2, <3>3
      <3> QED
        BY <2>1, <3>4
    <2> QED
      BY <2>2, <2>3, <2>4
  <1> QED
    BY <1>1, <1>8, <1>9, <1>10, <1>11, <1>12 DEF Steady, Tidy

\* A draft is saved whose children are published.
LEMMA PublishedSteady ==
    ASSUME NEW P, NEW D, NEW F, Steady(P, D, F), NEW L, Holes(P, D, L),
           NEW b \in Existing(D), D[b].kids \subseteq Existing(P),
           NEW Q, Built(Q, Blocks, Versions),
           Existing(Q) = Existing(P) \cup {b}, Q[b] = D[b],
           \A k \in Existing(P) \ {b} : Q[k] = P[k]
    PROVE  Steady(Q, D, F) /\ Holes(Q, D, L \ {b})
  <1>1. /\ Built(P, Blocks, Versions) /\ Built(D, Drafted, Versions)
        /\ DraftsThere(P, D) /\ OneLister(P, D) /\ Unused(P, D, F) /\ InPlace(P, D, {})
    BY DEF Steady, Tidy
  <1>2. b \in Drafted /\ b \notin Sections
    BY <1>1, KidsOf, CategoriesAssumption, Drafted \subseteq Blocks DEF Blocks
  <1>3. \A x, k : Lists(Q, D, x, k) => Lists(P, D, x, k)
    BY DEF Lists
  <1>4. Top(Q) = Top(P)
    BY <1>2 DEF Top, Kids
  <1>5. Upper(Q, D) = Upper(P, D)
    <2>1. \A x, k : Sees(Q, D, x, k) <=> Sees(P, D, x, k)
      BY DEF Sees
    <2> QED
      BY <1>4, <2>1 DEF Upper
  <1>6. DraftsThere(Q, D)
    BY <1>1, <1>5 DEF DraftsThere
  <1>7. OneLister(Q, D)
    BY <1>1, <1>5 DEF OneLister
  <1>8. Unused(Q, D, F)
    BY <1>1, <1>3 DEF Unused
  <1>9. Known(Q, D) \subseteq Known(P, D)
    <2> SUFFICES ASSUME NEW g \in Groups, g \in Kids(Q, Top(Q)), g \notin Kids(P, Top(P))
                 PROVE  g \in Upper(P, D)
      BY <1>5 DEF Known
    <2>1. PICK u \in Top(Q) \cap Existing(Q) : g \in Q[u].kids
      BY DEF Kids
    <2>2. u = b /\ b \in Top(P)
      BY <1>4, <2>1 DEF Kids
    <2>3. Sees(P, D, b, g)
      BY <2>1, <2>2 DEF Sees
    <2> QED
      BY <2>2, <2>3 DEF Upper
  <1>10. InPlace(Q, D, {})
    BY <1>1, <1>4, <1>5, <1>9 DEF InPlace
  <1>11. Holes(Q, D, L \ {b})
    BY DEF Holes
  <1> QED
    BY <1>1, <1>6, <1>7, <1>8, <1>10, <1>11 DEF Steady, Tidy

\* Drafts are removed that are as published.
LEMMA EndedSound ==
    ASSUME NEW P, NEW D, NEW F, Steady(P, D, F), Holes(P, D, {}),
           NEW S, S \subseteq Existing(D), \A c \in S : P[c] = D[c],
           NEW E, Built(E, Drafted, Versions), Existing(E) = Existing(D) \ S,
           \A c \in Existing(E) : E[c] = D[c]
    PROVE  Sound(P, E, F)
  <1>1. /\ Built(P, Blocks, Versions) /\ Built(D, Drafted, Versions) /\ AllThere(P)
        /\ DraftsThere(P, D) /\ OneLister(P, D) /\ Unused(P, D, F) /\ InPlace(P, D, {})
    BY NoHoles DEF Steady, Tidy
  <1>2. S \subseteq Existing(P)
    BY <1>1, KidsOf, Drafted \subseteq Blocks DEF Existing, Built, Blocks
  <1>3. \A x, k : Lists(P, E, x, k) => Lists(P, D, x, k)
    BY DEF Lists
  <1>4. Upper(P, E) = Upper(P, D)
    <2>1. \A x, k : Sees(P, E, x, k) <=> Sees(P, D, x, k)
      BY <1>2 DEF Sees
    <2> QED
      BY <2>1 DEF Upper
  <1>5. DraftsThere(P, E)
    BY <1>1, <1>2, <1>4 DEF DraftsThere
  <1>6. OneLister(P, E)
    BY <1>1, <1>4 DEF OneLister
  <1>7. Unused(P, E, F)
    BY <1>1, <1>3 DEF Unused
  <1>8. InPlace(P, E, {})
    BY <1>1, <1>4 DEF InPlace, Known
  <1> QED
    BY <1>1, <1>5, <1>6, <1>7, <1>8 DEF Sound, Fit, Tidy

-----------------------------------------------------------------------------
\* Who sees what the author is shown, and what of that is shown to him.
LEMMA ShownParts ==
    ASSUME Stored
    PROVE  /\ \A b \in Shown : b \in Existing(draft) \cup Existing(published)
           /\ \A b \in Shown \cap Units : b \in Top(published)
           /\ \A b \in Shown \cap Groups : b \in Upper(published, draft)
           /\ \A b \in Shown \cap Components :
                 \E x \in Upper(published, draft) : Sees(published, draft, x, b)
           /\ \A b \in Top(published) \cap Existing(published) : b \in Shown
           /\ \A x \in Upper(published, draft), k \in Existing(draft) \cup Existing(published) :
                 Sees(published, draft, x, k) => k \in Shown
  <1> DEFINE W == Working(draft)
             A == Kids(W, Sections)  B == Kids(W, A)  C == Kids(W, B)
  <1>1. Built(W, Blocks, Versions) /\ Existing(W) = Existing(draft) \cup Existing(published)
    BY WorkingBuilt, WorkingExists DEF Stored
  <1>2. \A x, k : x \in Existing(W) /\ k \in W[x].kids <=> Sees(published, draft, x, k)
    BY <1>1, KidsOf DEF Working, Sees
  <1>3. \A X, k : k \in Kids(W, X) <=> \E x \in X : Sees(published, draft, x, k)
    BY <1>2 DEF Kids
  <1>4. A \subseteq Units /\ B \subseteq Groups \cup Components /\ C \subseteq Components
    <2>1. A \subseteq Units
      BY <1>1, Levels
    <2>2. B \subseteq Groups \cup Components
      <3> HIDE DEF A, W
      <3> QED
        BY <1>1, <2>1, Levels
    <2>3. C \subseteq Components
      <3> HIDE DEF B, W
      <3> QED
        BY <1>1, <2>2, Levels
    <2> QED
      BY <2>1, <2>2, <2>3
  <1>5. Shown = (Sections \cup A \cup B \cup C) \cap Existing(W)
    BY TiersIs DEF Shown, Below, Reach
  <1>6. A = Top(published)
    <2>1. Sections \cap Existing(draft) = {}
      BY CategoriesAssumption DEF Stored, Built, Existing
    <2>2. Agree(W, published, Sections)
      BY <1>1, <2>1 DEF Agree, Working, Blocks, Existing, Stored, Built
    <2> QED
      BY <2>2, KidsSame DEF Top
  <1>7. Upper(published, draft) = A \cup (B \cap Groups)
    <2> HIDE DEF A, W
    <2> QED
      BY <1>3, <1>6 DEF Upper
  <1> HIDE DEF W, A, B, C
  <1>8. \A x \in Components : \A k : ~Sees(published, draft, x, k)
    BY <1>2, <1>1, KidsOf
  <1>9. \A k \in B : \E x \in A : Sees(published, draft, x, k)
    BY <1>3 DEF B
  <1>10. \A k \in C : \E x \in B : Sees(published, draft, x, k)
    BY <1>3 DEF C
  <1>11. \A b \in Shown \cap Components :
             \E x \in Upper(published, draft) : Sees(published, draft, x, b)
    BY <1>4, <1>5, <1>7, <1>8, <1>9, <1>10, CategoriesAssumption DEF Drafted
  <1>12. \A x \in Upper(published, draft), k \in Existing(draft) \cup Existing(published) :
                 Sees(published, draft, x, k) => k \in Shown
    BY <1>1, <1>3, <1>5, <1>7 DEF B, C
  <1> QED
    BY <1>1, <1>4, <1>5, <1>6, <1>7, <1>11, <1>12, CategoriesAssumption DEF Drafted

\* When no group is loose, the groups of the course are where the author sees them.
LEMMA NoneLoose ==
    ASSUME Stored, NEW F, Fit(published, draft, F), Loose = {}
    PROVE  Sound(published, draft, F)
  <1>1. Built(published, Blocks, Versions) /\ Built(draft, Drafted, Versions) /\ AllThere(published)
        /\ DraftsThere(published, draft)
    BY DEF Fit, Tidy
  <1>2. \A u \in Top(published) \cap Existing(published) : published[u].kids \subseteq Existing(published)
    BY <1>1, TopIs DEF AllThere, Drafted
  <1>3. ASSUME NEW g \in Known(published, draft)
        PROVE  g \in Groups \cap (Shown \cup Below(published, Sections))
    <2>1. CASE g \in Kids(published, Top(published))
      <3>1. g \in Existing(published)
        BY <1>2, <2>1 DEF Kids
      <3>2. g \in Reach(published, Sections)
        BY <2>1, TiersIs DEF Top
      <3> QED
        BY <3>1, <3>2 DEF Known, Below, Reach
    <2>2. CASE g \in Upper(published, draft)
      <3>1. PICK u \in Top(published) : Sees(published, draft, u, g)
        BY <1>1, <2>2, UpperIs DEF Known
      <3>2. g \in Existing(draft) \cup Existing(published)
        BY <1>1, <1>2, <3>1 DEF Sees, DraftsThere, Upper
      <3>3. g \in Shown
        BY <3>1, <3>2, ShownParts DEF Upper
      <3> QED
        BY <3>3 DEF Known
    <2> QED
      BY <2>1, <2>2 DEF Known
  <1>4. \A g \in Known(published, draft) :
           /\ g \in Existing(draft) => g \in Shown
           /\ DraftParents(draft, g) \subseteq Shown
    BY <1>3 DEF Loose
  <1>5. InPlace(published, draft, {})
    <2> SUFFICES ASSUME NEW g \in Known(published, draft)
                 PROVE  /\ g \in Existing(draft) => g \in Upper(published, draft)
                        /\ \A u \in Existing(draft) : g \in draft[u].kids => u \in Top(published)
      BY DEF InPlace
    <2>1. g \in Existing(draft) => g \in Upper(published, draft)
      BY <1>4, ShownParts DEF Known
    <2>2. ASSUME NEW u \in Existing(draft), g \in draft[u].kids PROVE u \in Top(published)
      <3>1. u \in Shown
        BY <1>4, <2>2 DEF DraftParents
      <3>2. u \in Units
        <4>1. u \in Drafted /\ g \in Groups
          BY <1>1, KidsOf, Drafted \subseteq Blocks DEF Blocks, Known
        <4> QED
          BY <1>1, <2>2, <4>1, KidsOf, CategoriesAssumption, Drafted \subseteq Blocks
          DEF Blocks, Drafted
      <3> QED
        BY <3>1, <3>2, ShownParts
    <2> QED
      BY <2>1, <2>2
  <1> QED
    BY <1>5 DEF Sound

-----------------------------------------------------------------------------
(***************************************************************************)
(* The calls of a request lead from stores to stores, fit before each.     *)
(***************************************************************************)
Both(P, D) == [pub |-> P, dra |-> D]

\* The stores after a call.
Made(s, call) == Both(Written(s.pub, call.published), Written(s.dra, call.draft))

\* f holds the stores before and after each call.
Leads(F, s, calls, e) ==
    \E f : /\ f[0] = s /\ f[Len(calls)] = e
           /\ \A n \in 1..Len(calls) :
                 /\ Fit(f[n - 1].pub, f[n - 1].dra, F)
                 /\ f[n] = Made(f[n - 1], calls[n])

\* No call leads nowhere.
LEMMA LeadsNowhere == ASSUME NEW F, NEW s PROVE Leads(F, s, <<>>, s)
  <1> DEFINE f == [n \in {0} |-> s]
             calls == <<>>
  <1>1. f[0] = s /\ Len(calls) = 0
    OBVIOUS
  <1> HIDE DEF f, calls
  <1>2. \A n \in 1..Len(calls) : FALSE
    BY <1>1
  <1>3. Leads(F, s, calls, s)
    BY <1>1, <1>2 DEF Leads
  <1> QED
    BY <1>3 DEF calls

\* One call leads to what it makes of sound stores.
LEMMA LeadsOne ==
    ASSUME NEW F, NEW s, NEW call, Fit(s.pub, s.dra, F)
    PROVE  Leads(F, s, <<call>>, Made(s, call))
  <1> DEFINE f == [n \in 0..1 |-> IF n = 0 THEN s ELSE Made(s, call)]
             calls == <<call>>
  <1>1. f[0] = s /\ f[1] = Made(s, call)
    OBVIOUS
  <1>2. Len(calls) = 1 /\ calls[1] = call
    OBVIOUS
  <1> HIDE DEF f, calls
  <1>3. \A n \in 1..Len(calls) : n = 1 /\ n - 1 = 0
    BY <1>2
  <1> QED
    BY <1>1, <1>2, <1>3 DEF Leads, calls

\* Two lists of calls lead on from one to the other.
LEMMA LeadsOn ==
    ASSUME NEW F, NEW C, NEW s, NEW m, NEW e, NEW c1 \in Seq(C), NEW c2 \in Seq(C),
           Leads(F, s, c1, m), Leads(F, m, c2, e)
    PROVE  Leads(F, s, c1 \o c2, e)
  <1> DEFINE k == Len(c1)  l == Len(c2)
  <1>1. PICK f : /\ f[0] = s /\ f[k] = m
                 /\ \A n \in 1..k : /\ Fit(f[n - 1].pub, f[n - 1].dra, F)
                                    /\ f[n] = Made(f[n - 1], c1[n])
    BY DEF Leads
  <1>2. PICK g : /\ g[0] = m /\ g[l] = e
                 /\ \A n \in 1..l : /\ Fit(g[n - 1].pub, g[n - 1].dra, F)
                                    /\ g[n] = Made(g[n - 1], c2[n])
    BY DEF Leads
  <1>3. k \in Nat /\ l \in Nat /\ Len(c1 \o c2) = k + l
        /\ (\A n \in 1..k : (c1 \o c2)[n] = c1[n])
        /\ (\A n \in (k + 1)..(k + l) : (c1 \o c2)[n] = c2[n - k])
    OBVIOUS
  <1> DEFINE h == [n \in 0..(k + l) |-> IF n <= k THEN f[n] ELSE g[n - k]]
             c == c1 \o c2
  <1> HIDE DEF k, l, c
  <1>4. /\ \A n \in 0..k : h[n] = f[n]
        /\ \A n \in k..(k + l) : h[n] = g[n - k]
    <2>1. f[k] = g[0] /\ k \in Nat /\ l \in Nat
      BY <1>1, <1>2, <1>3
    <2> QED
      BY <2>1
  <1> HIDE DEF h
  <1>5. h[0] = s /\ h[k + l] = e
    <2>1. 0 \in 0..k /\ k + l \in k..(k + l) /\ (k + l) - k = l
      BY <1>3
    <2> QED
      BY <1>1, <1>2, <1>4, <2>1
  <1>6. ASSUME NEW n \in 1..(k + l)
        PROVE  /\ Fit(h[n - 1].pub, h[n - 1].dra, F)
               /\ h[n] = Made(h[n - 1], c[n])
    <2>1. CASE n <= k
      <3>1. n \in 1..k /\ n - 1 \in 0..k /\ n \in 0..k
        BY <1>3, <2>1
      <3> QED
        BY <1>1, <1>3, <1>4, <3>1 DEF c
    <2>2. CASE ~(n <= k)
      <3>1. /\ n - k \in 1..l /\ n \in (k + 1)..(k + l) /\ n - 1 \in k..(k + l)
            /\ n \in k..(k + l) /\ (n - 1) - k = (n - k) - 1
        BY <1>3, <2>2
      <3>2. c[n] = c2[n - k] /\ h[n] = g[n - k] /\ h[n - 1] = g[(n - k) - 1]
        BY <1>3, <1>4, <3>1 DEF c
      <3> QED
        BY <1>2, <3>1, <3>2
    <2> QED
      BY <2>1, <2>2
  <1> QED
    BY <1>3, <1>5, <1>6 DEF Leads, c

\* What is left when the first call was made.
LEMMA LeadsFrom ==
    ASSUME NEW F, NEW C, NEW s, NEW e, NEW calls \in Seq(C), calls # <<>>,
           Leads(F, s, calls, e)
    PROVE  /\ Fit(s.pub, s.dra, F)
           /\ Leads(F, Made(s, Head(calls)), Tail(calls), e)
           /\ Len(calls) = 1 => Made(s, Head(calls)) = e
  <1> DEFINE k == Len(calls)  t == Tail(calls)
  <1>1. PICK f : /\ f[0] = s /\ f[k] = e
                 /\ \A n \in 1..k : /\ Fit(f[n - 1].pub, f[n - 1].dra, F)
                                    /\ f[n] = Made(f[n - 1], calls[n])
    BY DEF Leads
  <1>2. k \in Nat /\ k >= 1 /\ Len(t) = k - 1 /\ Head(calls) = calls[1]
        /\ \A n \in 1..(k - 1) : t[n] = calls[n + 1]
    OBVIOUS
  <1> HIDE DEF k, t
  <1>3. 1 \in 1..k /\ 1 - 1 = 0
    BY <1>2
  <1>4. Fit(s.pub, s.dra, F) /\ f[1] = Made(s, Head(calls))
    BY <1>1, <1>2, <1>3
  <1> DEFINE g == [n \in 0..(k - 1) |-> f[n + 1]]
  <1>5. \A n \in 0..(k - 1) : g[n] = f[n + 1]
    OBVIOUS
  <1> HIDE DEF g
  <1>6. g[0] = Made(s, Head(calls)) /\ g[k - 1] = e
    BY <1>1, <1>2, <1>4, <1>5
  <1>7. ASSUME NEW n \in 1..(k - 1)
        PROVE  /\ Fit(g[n - 1].pub, g[n - 1].dra, F)
               /\ g[n] = Made(g[n - 1], t[n])
    <2>1. /\ n + 1 \in 1..k /\ n - 1 \in 0..(k - 1) /\ n \in 0..(k - 1)
          /\ (n + 1) - 1 = n /\ (n - 1) + 1 = n
      BY <1>2
    <2>2. g[n - 1] = f[n] /\ g[n] = f[n + 1] /\ t[n] = calls[n + 1]
      BY <1>2, <1>5, <2>1
    <2>3. /\ Fit(f[(n + 1) - 1].pub, f[(n + 1) - 1].dra, F)
          /\ f[n + 1] = Made(f[(n + 1) - 1], calls[n + 1])
      BY <1>1, <2>1
    <2> QED
      BY <2>1, <2>2, <2>3
  <1>8. Leads(F, Made(s, Head(calls)), t, e)
    BY <1>2, <1>6, <1>7 DEF Leads
  <1> QED
    BY <1>1, <1>4, <1>8 DEF k, t

-----------------------------------------------------------------------------
(***************************************************************************)
(* What single calls make.                                                 *)
(***************************************************************************)
LEMMA WroteNothing ==
    ASSUME NEW f, NEW S, Built(f, S, Versions)
    PROVE  Written(f, Nothing) = f
  BY DEF Written, Nothing, Built

\* A call that writes drafts.
LEMMA DraftsMake ==
    ASSUME NEW P, NEW D, Built(P, Blocks, Versions), NEW new
    PROVE  Made(Both(P, D), Drafts(new)) = Both(P, Written(D, new))
  BY WroteNothing DEF Made, Both, Drafts

\* f with another document of b.
Replaced(f, b, doc) == [f EXCEPT ![b] = doc]

\* A call that saves a draft.
LEMMA PutMakes ==
    ASSUME NEW P, NEW D, Built(P, Blocks, Versions), Built(D, Drafted, Versions),
           NEW b \in Drafted, NEW doc
    PROVE  /\ Made(Both(P, D), Put(b, doc)) = Both(P, Replaced(D, b, doc))
           /\ Written(D, Put(b, doc).draft) = Replaced(D, b, doc)
  <1> DEFINE new == [c \in {b} |-> doc]
  <1>1. Put(b, doc) = Drafts(new)
    BY DEF Put
  <1>2. Written(D, new) = Replaced(D, b, doc)
    BY DEF Written, Built, Replaced
  <1>3. Drafts(new).draft = new
    BY DEF Drafts
  <1> HIDE DEF new
  <1> QED
    BY <1>1, <1>2, <1>3, DraftsMake DEF new

\* A call that saves a section.
LEMMA SectionPutMakes ==
    ASSUME NEW P, NEW D, Built(P, Blocks, Versions), Built(D, Drafted, Versions),
           NEW b \in Sections, NEW doc
    PROVE  Made(Both(P, D), Put(b, doc)) = Both(Replaced(P, b, doc), D)
  <1> DEFINE new == [c \in {b} |-> doc]
  <1>1. Put(b, doc) = [draft |-> Nothing, published |-> new]
    BY CategoriesAssumption DEF Put
  <1>2. Written(P, new) = Replaced(P, b, doc)
    BY DEF Written, Built, Replaced
  <1> HIDE DEF new
  <1> QED
    BY <1>1, <1>2, WroteNothing DEF Made, Both

\* A call that removes drafts.
LEMMA RemovalMakes ==
    ASSUME NEW P, NEW D, Built(P, Blocks, Versions), Built(D, Drafted, Versions), NEW S
    PROVE  /\ Made(Both(P, D), Removal(S)) = Both(P, Written(D, [b \in S |-> None]))
           /\ Built(Written(D, [b \in S |-> None]), Drafted, Versions)
           /\ Existing(Written(D, [b \in S |-> None])) = Existing(D) \ S
           /\ \A c \in Existing(D) \ S : Written(D, [b \in S |-> None])[c] = D[c]
  <1> DEFINE new == [b \in S |-> None]
  <1>1. Built(Written(D, new), Drafted, Versions)
    BY WrittenBuilt DEF Versions
  <1>2. Existing(Written(D, new)) = Existing(D) \ S
    BY DEF Existing, Written, Built
  <1>3. \A c \in Existing(D) \ S : Written(D, new)[c] = D[c]
    BY DEF Existing, Written, Built
  <1> HIDE DEF new
  <1> QED
    BY <1>1, <1>2, <1>3, DraftsMake DEF Removal, new

\* A draft with another document.
LEMMA ExceptIs ==
    ASSUME NEW f, NEW S, S \subseteq Blocks, Built(f, S, Versions), NEW b \in S, NEW doc \in DocOf(b)
    PROVE  /\ Built(Replaced(f, b, doc), S, Versions)
           /\ Existing(Replaced(f, b, doc)) = Existing(f) \cup {b}
           /\ \A c \in S \ {b} : Replaced(f, b, doc)[c] = f[c]
           /\ Replaced(f, b, doc)[b] = doc
  <1> DEFINE g == Replaced(f, b, doc)
  <1>1. doc # None /\ doc \in Versions /\ doc.kids \subseteq Holds(b)
    BY DocIs DEF DocOf, Versions
  <1>2. DOMAIN g = S /\ g[b] = doc /\ \A c \in S \ {b} : g[c] = f[c]
    BY DEF Built, Replaced
  <1>3. Existing(g) = Existing(f) \cup {b}
    BY <1>1, <1>2 DEF Existing, Built
  <1>4. Built(g, S, Versions)
    BY <1>1, <1>2 DEF Built, WellBuilt, Existing, Replaced
  <1> QED
    BY <1>2, <1>3, <1>4

\* A draft that is there gets another document.
LEMMA DraftReplaced ==
    ASSUME NEW f, Built(f, Drafted, Versions), NEW b \in Existing(f), NEW doc \in DocOf(b)
    PROVE  /\ Built(Replaced(f, b, doc), Drafted, Versions)
           /\ Existing(Replaced(f, b, doc)) = Existing(f)
           /\ \A c \in Existing(f) \ {b} : Replaced(f, b, doc)[c] = f[c]
           /\ Replaced(f, b, doc)[b] = doc
           /\ Existing(f) \subseteq Drafted
  <1>1. Drafted \subseteq Blocks
    BY DEF Blocks
  <1>2. Existing(f) \subseteq Drafted /\ b \in Drafted
    BY <1>1, KidsOf
  <1>3. /\ Built(Replaced(f, b, doc), Drafted, Versions)
        /\ Existing(Replaced(f, b, doc)) = Existing(f) \cup {b}
        /\ \A c \in Drafted \ {b} : Replaced(f, b, doc)[c] = f[c]
        /\ Replaced(f, b, doc)[b] = doc
    BY <1>1, <1>2, ExceptIs
  <1> QED
    BY <1>2, <1>3

\* A block b that the author sees goes from a draft p to a draft t, which may lose
\* other children: the groups among them are in other drafts.
LEMMA MovedSound ==
    ASSUME NEW P, NEW D, NEW F, Sound(P, D, F),
           NEW p \in Existing(D), NEW t \in Existing(D), p # t,
           NEW b \in Existing(D) \cup Existing(P), b \in D[p].kids, b \notin D[t].kids,
           NEW x \in Upper(P, D), Sees(P, D, x, b),
           b \in Groups => x \in Top(P) /\ t \in Top(P),
           NEW gone, gone \subseteq D[t].kids,
           \A g \in gone \cap Groups : \E v \in Existing(D) \ {t} : g \in D[v].kids,
           NEW E, Built(E, Drafted, Versions), Existing(E) = Existing(D),
           \A c \in Existing(D) \ {p, t} : E[c] = D[c],
           E[p].kids = D[p].kids \ {b}, E[t].kids = (D[t].kids \ gone) \cup {b}
    PROVE  Sound(P, E, F)
  <1> DEFINE less == [D[t] EXCEPT !.kids = @ \ gone]
             M == Replaced(E, t, less)
  <1>1. /\ Built(P, Blocks, Versions) /\ Built(D, Drafted, Versions) /\ AllThere(P) /\ Fit(P, D, F)
        /\ DraftsThere(P, D) /\ OneLister(P, D) /\ Unused(P, D, F) /\ InPlace(P, D, {})
    BY DEF Sound, Fit, Tidy
  <1>2. Existing(D) \subseteq Drafted /\ Drafted \subseteq Blocks
    BY <1>1, KidsOf, Drafted \subseteq Blocks DEF Blocks
  <1>3. less \in DocOf(t) /\ less.kids = D[t].kids \ gone
    <2>1. D[t] \in DocOf(t)
      BY <1>1, <1>2, BuiltIs
    <2> QED
      BY <2>1 DEF DocOf, Doc
  <1> HIDE DEF less
  <1>4. /\ Built(M, Drafted, Versions) /\ Existing(M) = Existing(D)
        /\ (\A c \in Existing(D) \ {t} : M[c] = E[c]) /\ M[t].kids = D[t].kids \ gone
    BY <1>3, DraftReplaced
  <1> HIDE DEF M
  <1>5. \A c \in Existing(D) : /\ M[c].kids \subseteq D[c].kids
                               /\ c \notin {p, t} => M[c].kids = D[c].kids
                               /\ c = p => b \notin M[c].kids
    BY <1>4
  <1>6. Fit(P, M, F) /\ Upper(P, M) \subseteq Upper(P, D)
    BY <1>1, <1>4, <1>5, FewerFit
  <1>7. b \in Groups => b \in Upper(P, D)
    BY DEF Upper
  <1>8. ASSUME b \notin Existing(P) PROVE \A c \in Existing(M) \ {t} : b \notin M[c].kids
    <2>1. x \in Existing(D) /\ b \in D[x].kids
      <3>1. x \in Drafted
        BY <1>1, UpperIs DEF Drafted
      <3> QED
        BY <1>1, <1>8, <3>1 DEF AllThere, Sees
    <2>2. \A c \in Existing(D) : b \in D[c].kids => c = x
      BY <1>1, <1>8, <2>1 DEF OneLister
    <2> QED
      BY <1>4, <1>5, <2>2
  <1>9. ASSUME b \in Groups \cap Existing(M)
        PROVE  /\ M[b].kids \subseteq Existing(M) \cup Existing(P)
               /\ \A k \in M[b].kids \ Existing(P), c \in Existing(M) \ {b} : k \notin M[c].kids
    <2>1. D[b].kids \subseteq Existing(D) \cup Existing(P)
      BY <1>1, <1>4, <1>7, <1>9 DEF DraftsThere
    <2>2. \A k \in D[b].kids \ Existing(P), c \in Existing(D) \ {b} : k \notin D[c].kids
      BY <1>1, <1>4, <1>7, <1>9, <2>1 DEF OneLister
    <2> QED
      BY <1>4, <1>5, <1>9, <2>1, <2>2
  <1>10. Fit(P, E, F) /\ Upper(P, E) \subseteq Upper(P, M) \cup ({b} \cap Groups)
    <2>1. b \notin F
      BY <1>1 DEF Unused
    <2>2. E[t].kids = M[t].kids \cup {b} /\ t \in Existing(M) /\ Existing(E) = Existing(M)
      BY <1>4
    <2>3. \A c \in Existing(M) \ {t} : E[c] = M[c]
      BY <1>4
    <2>4. b \in Existing(M) \cup Existing(P)
      BY <1>4
    <2> QED
      BY <1>6, <1>8, <1>9, <2>1, <2>2, <2>3, <2>4, AddedFit
  <1>11. Known(P, E) \subseteq Known(P, D)
    BY <1>6, <1>7, <1>10 DEF Known
  <1>12. InPlace(P, E, {})
    <2> SUFFICES ASSUME NEW g \in Known(P, E)
                 PROVE  /\ g \in Existing(E) => g \in Upper(P, E)
                        /\ \A u \in Existing(E) : g \in E[u].kids => u \in Top(P)
      BY DEF InPlace
    <2>1. g \in Known(P, D) /\ g \in Groups
      BY <1>11 DEF Known
    <2>2. \A u \in Existing(D) : g \in D[u].kids => u \in Top(P)
      BY <1>1, <2>1 DEF InPlace
    <2>3. ASSUME NEW u \in Existing(E), g \in E[u].kids PROVE u \in Top(P)
      BY <2>1, <2>2, <2>3
    <2>4. ASSUME g \in Existing(E) PROVE \E u \in Top(P) : Sees(P, E, u, g)
      <3>1. g \in Upper(P, D)
        BY <1>1, <2>1, <2>4 DEF InPlace
      <3>2. PICK u \in Top(P) : Sees(P, D, u, g)
        BY <1>1, <2>1, <3>1, UpperIs
      <3>3. CASE g = b
        BY <2>1, <3>3 DEF Sees
      <3>4. CASE g # b /\ u = t /\ g \in gone
        <4>1. PICK v \in Existing(D) \ {t} : g \in D[v].kids
          BY <2>1, <3>4
        <4>2. v \in Top(P) /\ g \in E[v].kids
          BY <2>2, <3>4, <4>1
        <4> QED
          BY <4>1, <4>2 DEF Sees
      <3>5. CASE g # b /\ ~(u = t /\ g \in gone)
        BY <3>2, <3>5 DEF Sees
      <3> QED
        BY <3>3, <3>4, <3>5
    <2> QED
      BY <2>1, <2>3, <2>4 DEF Upper
  <1> QED
    BY <1>10, <1>12 DEF Sound

\* Stores are fit for fewer ids that are not given out.
LEMMA FewerIds ==
    ASSUME NEW P, NEW D, NEW F, NEW G, G \subseteq F, Fit(P, D, F)
    PROVE  Fit(P, D, G)
  BY DEF Fit, Tidy, Unused

\* One tier of a conversion.
LEMMA TierLeads ==
    ASSUME NEW D, NEW F, NEW T, NEW tier, Fit(published, Copied(published, D, T), F),
           Built(D, Drafted, Versions), T \subseteq Existing(published) \cap Drafted,
           tier \subseteq Drafted
    PROVE  Leads(F, Both(published, Copied(published, D, T)), Copies(D, tier),
                 Both(published, Copied(published, D,
                                        T \cup ((tier \cap Existing(published)) \ Existing(D)))))
  <1> DEFINE S == (tier \cap Existing(published)) \ Existing(D)
             E == Copied(published, D, T)
             new == [c \in S |-> published[c]]
  <1>1. Built(published, Blocks, Versions)
    BY DEF Fit, Tidy
  <1>2. CASE S = {}
    <2>1. Copies(D, tier) = <<>> /\ T \cup S = T
      BY <1>2 DEF Copies
    <2> HIDE DEF S
    <2> QED
      BY <2>1, LeadsNowhere DEF S
  <1>3. CASE S # {}
    <2>1. Copies(D, tier) = <<Drafts(new)>>
      BY <1>3 DEF Copies
    <2>2. Written(E, new) = Copied(published, D, T \cup S)
      <3>1. DOMAIN D = Drafted
        BY DEF Built
      <3>2. DOMAIN E = Drafted /\ DOMAIN Written(E, new) = Drafted
            /\ DOMAIN Copied(published, D, T \cup S) = Drafted
        BY <3>1 DEF Copied, Written
      <3>3. \A b \in Drafted : Written(E, new)[b] = Copied(published, D, T \cup S)[b]
        BY <3>1 DEF Copied, Written
      <3>4. Written(E, new) = [b \in DOMAIN E |-> Written(E, new)[b]]
        BY DEF Written
      <3>5. Copied(published, D, T \cup S) = [b \in DOMAIN D |-> Copied(published, D, T \cup S)[b]]
        BY DEF Copied, Written
      <3> HIDE DEF E, new, S
      <3> QED
        BY <3>1, <3>2, <3>3, <3>4, <3>5
    <2>3. Made(Both(published, E), Drafts(new)) = Both(published, Written(E, new))
      <3> HIDE DEF E, new
      <3> QED
        BY <1>1, DraftsMake
    <2>4. Both(published, E).pub = published /\ Both(published, E).dra = E
      BY DEF Both
    <2> HIDE DEF E, new, S
    <2>5. Fit(Both(published, E).pub, Both(published, E).dra, F)
      BY <2>4 DEF E
    <2>6. Leads(F, Both(published, E), <<Drafts(new)>>, Both(published, Written(E, new)))
      BY <2>3, <2>5, LeadsOne
    <2> QED
      BY <2>1, <2>2, <2>6 DEF E, S
  <1> QED
    BY <1>2, <1>3

-----------------------------------------------------------------------------
(***************************************************************************)
(* Conversions and saves.                                                  *)
(***************************************************************************)
\* E has the drafts D and copies of published blocks.
More(D, E) ==
    /\ Built(E, Drafted, Versions) /\ Existing(D) \subseteq Existing(E)
    /\ \A c \in Existing(D) : E[c] = D[c]
    /\ \A c \in Existing(E) \ Existing(D) : c \in Existing(published) /\ E[c] = published[c]

\* A conversion of a block that has a draft adds copies too.
LEMMA ConvertedOver ==
    ASSUME Stored, NEW d, Built(d, Drafted, Versions), NEW b \in Existing(d)
    PROVE  More(d, Converted(d, b))
  <1> DEFINE S == Below(published, {b}) \ Existing(d)
  <1>1. Existing(d) \subseteq Drafted
    BY KidsOf, Drafted \subseteq Blocks DEF Blocks
  <1>2. S \subseteq Existing(published) \cap Drafted
    BY <1>1, BelowExists, DraftedTiers DEF Stored, Below, Reach
  <1>3. Converted(d, b) = Copied(published, d, S)
    BY DEF Converted, Copied
  <1>4. S \cap Existing(d) = {}
    OBVIOUS
  <1> HIDE DEF S
  <1>5. \A c \in Existing(d) : c \in Drafted \ S
    BY <1>1, <1>4
  <1> QED
    BY <1>2, <1>3, <1>5, CopiedIs DEF More, Stored

\* A conversion copies tier by tier (_convert_to_draft).
LEMMA ConvertLeads ==
    ASSUME Stored, NEW D, NEW F, Fit(published, D, F),
           NEW p \in (Drafted \cap Existing(published)) \ Existing(D)
    PROVE  /\ Leads(F, Both(published, D), Convert(D, p), Both(published, Converted(D, p)))
           /\ Fit(published, Converted(D, p), F)
           /\ Upper(published, Converted(D, p)) = Upper(published, D)
           /\ More(D, Converted(D, p)) /\ p \in Existing(Converted(D, p))
           /\ Converted(D, p)[p] = published[p]
  <1> DEFINE t == Tiers(published, {p})
             S(n) == (t[n] \cap Existing(published)) \ Existing(D)
             T1 == {} \cup S(1)  T2 == T1 \cup S(2)  T3 == T2 \cup S(3)  T4 == T3 \cup S(4)
             to(T) == Both(published, Copied(published, D, T))
             R == Reach(published, {p})
  <1>1. R = t[1] \cup t[2] \cup t[3] \cup t[4] /\ R \subseteq Drafted /\ t[1] = {p}
    <2> DEFINE B == {p}
    <2>1. Reach(published, B) = Tiers(published, B)[1] \cup Tiers(published, B)[2]
                                \cup Tiers(published, B)[3] \cup Tiers(published, B)[4]
      BY TiersIs
    <2>2. Tiers(published, B)[1] = B
      BY TiersIs
    <2> QED
      BY <2>1, <2>2, DraftedTiers DEF Stored
  <1>2. Convert(D, p) = Copies(D, t[1]) \o Copies(D, t[2]) \o Copies(D, t[3]) \o Copies(D, t[4])
    BY DEF Convert
  <1>3. T4 = Below(published, {p}) \ Existing(D) /\ T4 = (R \cap Existing(published)) \ Existing(D)
    BY <1>1 DEF Below, Reach
  <1>4. Converted(D, p) = Copied(published, D, T4)
    <2> HIDE DEF T4
    <2> QED
      BY <1>3 DEF Converted, Copied
  <1>5. Built(D, Drafted, Versions) /\ Built(published, Blocks, Versions)
    BY DEF Fit, Tidy
  <1>6. Copied(published, D, {}) = D
    BY <1>5 DEF Copied, Written, Built
  <1>7. \A T : T \subseteq T4 =>
           /\ Fit(published, Copied(published, D, T), F)
           /\ Upper(published, Copied(published, D, T)) = Upper(published, D)
           /\ T \subseteq Existing(published) \cap Drafted
    <2>1. T4 \subseteq (Existing(published) \ Existing(D)) \cap Drafted
      <3> HIDE DEF T4, R
      <3> QED
        BY <1>1, <1>3
    <2> HIDE DEF T4, R
    <2> QED
      BY <2>1, CopyFit
  <1>8. \A n \in 1..4 : t[n] \subseteq Drafted /\ (t[n] \cap Existing(published)) \cap Sections = {}
    <2> HIDE DEF t
    <2> QED
      BY <1>1, CategoriesAssumption
  <1>9. \A n \in 1..4 : Copies(D, t[n]) \in Seq(Calls(Doc))
    <2> HIDE DEF t
    <2> QED
      BY <1>8, CopiesAreSaves
  <1>10. \A T, n : T \subseteq T4 /\ n \in 1..4 => Leads(F, to(T), Copies(D, t[n]), to(T \cup S(n)))
    <2> SUFFICES ASSUME NEW T, T \subseteq T4, NEW n \in 1..4
                 PROVE  Leads(F, to(T), Copies(D, t[n]), to(T \cup S(n)))
      OBVIOUS
    <2> DEFINE tier == t[n]
    <2>1. tier \subseteq Drafted
      BY <1>8
    <2>2. Fit(published, Copied(published, D, T), F) /\ T \subseteq Existing(published) \cap Drafted
      BY <1>7
    <2>3. Leads(F, to(T), Copies(D, tier), to(T \cup ((tier \cap Existing(published)) \ Existing(D))))
      <3> HIDE DEF tier
      <3> QED
        BY <1>5, <2>1, <2>2, TierLeads
    <2> QED
      BY <2>3
  <1>11. {} \subseteq T4 /\ T1 \subseteq T4 /\ T2 \subseteq T4 /\ T3 \subseteq T4
    OBVIOUS
  <1> DEFINE c1 == Copies(D, t[1])  c2 == Copies(D, t[2])  c3 == Copies(D, t[3])  c4 == Copies(D, t[4])
  <1>12. Leads(F, to({}), c1, to(T1)) /\ Leads(F, to(T1), c2, to(T2))
         /\ Leads(F, to(T2), c3, to(T3)) /\ Leads(F, to(T3), c4, to(T4))
    <2> DEFINE Z(T, n) == Leads(F, to(T), Copies(D, t[n]), to(T \cup S(n)))
    <2>0. \A T, n : T \subseteq T4 /\ n \in 1..4 => Z(T, n)
      BY <1>10
    <2>1. Z({}, 1) /\ Z(T1, 2) /\ Z(T2, 3) /\ Z(T3, 4)
      <3> HIDE DEF Z, T1, T2, T3, T4
      <3> QED
        BY <1>11, <2>0
    <2> QED
      BY <2>1
  <1>13. Leads(F, to({}), c1 \o c2 \o c3 \o c4, to(T4))
    <2>1. c1 \in Seq(Calls(Doc)) /\ c2 \in Seq(Calls(Doc)) /\ c3 \in Seq(Calls(Doc)) /\ c4 \in Seq(Calls(Doc))
      BY <1>9
    <2> HIDE DEF c1, c2, c3, c4, to, T1, T2, T3, T4
    <2>2. Leads(F, to({}), c1 \o c2, to(T2)) /\ c1 \o c2 \in Seq(Calls(Doc))
      BY <1>12, <2>1, LeadsOn
    <2> DEFINE c12 == c1 \o c2
               c123 == c12 \o c3
    <2>3. Leads(F, to({}), c123, to(T3)) /\ c123 \in Seq(Calls(Doc))
      <3>1. Leads(F, to({}), c12, to(T2)) /\ c12 \in Seq(Calls(Doc))
        BY <2>2
      <3> HIDE DEF c12
      <3> QED
        BY <1>12, <2>1, <3>1, LeadsOn
    <2>4. Leads(F, to({}), c123 \o c4, to(T4))
      <3> HIDE DEF c123
      <3> QED
        BY <1>12, <2>1, <2>3, LeadsOn
    <2> QED
      BY <2>4
  <1>14. Leads(F, Both(published, D), Convert(D, p), Both(published, Converted(D, p)))
    BY <1>2, <1>4, <1>6, <1>13
  <1>15. Fit(published, Converted(D, p), F) /\ Upper(published, Converted(D, p)) = Upper(published, D)
    <2> HIDE DEF T4
    <2> QED
      BY <1>4, <1>7
  <1>16. p \in T4 /\ T4 \cap Existing(D) = {}
    BY <1>1, <1>3
  <1> HIDE DEF T4
  <1>17. T4 \subseteq Existing(published) \cap Drafted
    BY <1>7
  <1>18. \A c \in Existing(D) : c \in Drafted \ T4
    BY <1>5, <1>16, KidsOf, Drafted \subseteq Blocks DEF Blocks
  <1>19. More(D, Copied(published, D, T4)) /\ p \in Existing(Copied(published, D, T4))
         /\ Copied(published, D, T4)[p] = published[p]
    BY <1>5, <1>16, <1>17, <1>18, CopiedIs DEF More
  <1> QED
    BY <1>4, <1>14, <1>15, <1>19

\* Of a block of the course, or of a component, it copies groups of the course only.
LEMMA ConvertedSound ==
    ASSUME Stored, NEW D, NEW F, Sound(published, D, F),
           NEW p \in (Drafted \cap Existing(published)) \ Existing(D),
           p \in Upper(published, D) \cup Components
    PROVE  Sound(published, Converted(D, p), F)
  <1> DEFINE S == {p}
             A == Kids(published, S)  B == Kids(published, A)  C == Kids(published, B)
             T == Below(published, {p}) \ Existing(D)
  <1>1. Built(published, Blocks, Versions)
    BY DEF Stored
  <1>2. Reach(published, S) = S \cup A \cup B \cup C /\ Reach(published, S) \subseteq Drafted
    BY TiersIs, DraftedTiers DEF Stored
  <1>3. \A k \in A : k \in published[p].kids
    BY DEF Kids
  <1>4. A \subseteq Groups \cup Components /\ (p \notin Units => A \subseteq Components)
    <2> HIDE DEF A
    <2> QED
      BY <1>1, <1>3, KidsOf DEF Drafted
  <1>5. B \subseteq Components /\ C \subseteq Components
    <2>1. B \subseteq Components
      <3> HIDE DEF A
      <3> QED
        BY <1>1, <1>4, Levels
    <2>2. C \subseteq Components
      <3> HIDE DEF B
      <3> QED
        BY <1>1, <2>1, Levels
    <2> QED
      BY <2>1, <2>2
  <1>6. T \subseteq (S \cup A \cup B \cup C) /\ T \subseteq (Existing(published) \ Existing(D)) \cap Drafted
    BY <1>2 DEF Below, Reach
  <1>7. Converted(D, p) = Copied(published, D, T)
    BY DEF Converted, Copied
  <1>8. A \cap Groups \subseteq Upper(published, D)
    <2> SUFFICES ASSUME NEW g \in A \cap Groups PROVE g \in Upper(published, D)
      OBVIOUS
    <2>1. p \in Units /\ g \in published[p].kids
      BY <1>3, <1>4, CategoriesAssumption
    <2>2. p \in Top(published) /\ Sees(published, D, p, g)
      BY <1>1, <2>1, UpperIs, CategoriesAssumption DEF Sees
    <2> QED
      BY <2>2 DEF Upper
  <1> HIDE DEF A, B, C, T
  <1>9. T \cap (Units \cup Groups) \subseteq Upper(published, D)
    BY <1>4, <1>5, <1>6, <1>8, CategoriesAssumption
  <1> QED
    BY <1>6, <1>7, <1>9, CopySound

\* The drafts before a save writes its own.
Base(D, b) == IF b \in Drafted \ Existing(D) THEN Converted(D, b) ELSE D

\* A save of a draft converts first, if there is none, and then writes (update_item).
LEMMA SaveLeads ==
    ASSUME Stored, NEW D, NEW F, Fit(published, D, F),
           NEW b \in Drafted, b \in Existing(D) \cup Existing(published),
           NEW doc \in DocOf(b)
    PROVE  /\ Save(D, b, doc) \in Seq(Calls(Doc))
           /\ Leads(F, Both(published, D), Save(D, b, doc),
                    Both(published, Replaced(Base(D, b), b, doc)))
           /\ Saved(D, b, doc) = Replaced(Base(D, b), b, doc)
           /\ Fit(published, Base(D, b), F) /\ More(D, Base(D, b))
           /\ Upper(published, Base(D, b)) = Upper(published, D)
           /\ b \in Existing(Base(D, b))
           /\ Base(D, b)[b] = IF b \in Existing(D) THEN D[b] ELSE published[b]
  <1> DEFINE first == IF b \in Drafted \ Existing(D) THEN Convert(D, b) ELSE <<>>
             E == Base(D, b)
  <1>1. Built(D, Drafted, Versions) /\ Built(published, Blocks, Versions) /\ b \in Blocks
    BY DEF Fit, Tidy, Blocks
  <1>2. /\ Leads(F, Both(published, D), first, Both(published, E)) /\ first \in Seq(Calls(Doc))
        /\ Fit(published, E, F) /\ More(D, E) /\ b \in Existing(E)
        /\ Upper(published, E) = Upper(published, D)
        /\ E[b] = IF b \in Existing(D) THEN D[b] ELSE published[b]
    <2>1. CASE b \in Existing(D)
      BY <1>1, <2>1, LeadsNowhere DEF Base, More
    <2>2. CASE b \notin Existing(D)
      BY <2>2, ConvertLeads, ConvertSaves DEF Base
    <2> QED
      BY <2>1, <2>2
  <1>3. Built(E, Drafted, Versions)
    BY <1>2 DEF More
  <1>4. Put(b, doc) \in Calls(Doc)
    BY <1>1, PutCall
  <1>5. Made(Both(published, E), Put(b, doc)) = Both(published, Replaced(E, b, doc))
    <2> HIDE DEF E, first
    <2> QED
      BY <1>1, <1>3, PutMakes
  <1>6. Leads(F, Both(published, E), <<Put(b, doc)>>, Both(published, Replaced(E, b, doc)))
    <2>1. Both(published, E).pub = published /\ Both(published, E).dra = E
      BY DEF Both
    <2> HIDE DEF E
    <2>2. Fit(Both(published, E).pub, Both(published, E).dra, F)
      BY <1>2, <2>1
    <2> QED
      BY <1>5, <2>2, LeadsOne
  <1>7. Save(D, b, doc) = first \o <<Put(b, doc)>>
    BY DEF Save
  <1>8. Saved(D, b, doc) = Replaced(E, b, doc)
    <2>1. Saved(D, b, doc) = Written(E, Put(b, doc).draft)
      BY DEF Saved, Base
    <2> HIDE DEF E
    <2> QED
      BY <1>1, <1>3, <2>1, PutMakes
  <1> DEFINE last == <<Put(b, doc)>>
             F1 == Both(published, E)
             F2 == Both(published, Replaced(E, b, doc))
  <1>9. first \o last \in Seq(Calls(Doc)) /\ Leads(F, Both(published, D), first \o last, F2)
    <2>1. last \in Seq(Calls(Doc)) /\ Leads(F, F1, last, F2)
      BY <1>4, <1>6
    <2>2. first \in Seq(Calls(Doc)) /\ Leads(F, Both(published, D), first, F1)
      BY <1>2
    <2> HIDE DEF first, E, last, F1, F2
    <2> QED
      BY <2>1, <2>2, LeadsOn
  <1> QED
    BY <1>2, <1>7, <1>8, <1>9

\* What it converts of the course leaves the stores sound.
LEMMA BaseSound ==
    ASSUME Stored, NEW D, NEW F, Sound(published, D, F),
           NEW b \in Drafted, b \in Existing(D) \cup Existing(published),
           b \in Existing(D) \cup Upper(published, D) \cup Components
    PROVE  Sound(published, Base(D, b), F)
  BY ConvertedSound DEF Base

\* A save of a section writes the published document.
LEMMA SectionSaveLeads ==
    ASSUME NEW P, NEW D, NEW F, Fit(P, D, F), NEW b \in Sections, NEW doc \in DocOf(b)
    PROVE  /\ Save(D, b, doc) \in Seq(Calls(Doc))
           /\ Leads(F, Both(P, D), Save(D, b, doc), Both(Replaced(P, b, doc), D))
  <1>1. Built(D, Drafted, Versions) /\ Built(P, Blocks, Versions)
        /\ b \in Blocks /\ b \notin Drafted
    BY CategoriesAssumption DEF Fit, Tidy, Blocks
  <1>2. Save(D, b, doc) = <<Put(b, doc)>>
    BY <1>1 DEF Save
  <1>3. Put(b, doc) \in Calls(Doc)
    BY <1>1, PutCall
  <1>4. Fit(Both(P, D).pub, Both(P, D).dra, F)
    BY DEF Both
  <1> QED
    BY <1>1, <1>2, <1>3, <1>4, LeadsOne, SectionPutMakes

-----------------------------------------------------------------------------
(***************************************************************************)
(* A request begins with sound stores.                                     *)
(***************************************************************************)
Ready == TypeInv /\ Sound(published, draft, fresh) /\ \A b \in Blocks : ~Twice(b)

\* It is at work on calls that lead somewhere sound.
Leading(calls) == \E e : /\ Leads(fresh', Both(published, draft), calls, e)
                         /\ Sound(e.pub, e.dra, fresh')

\* Or on what it does before it is refused.
Refused(calls) == job' = [op |-> "refused", calls |-> calls]

Refusing(calls) == \E e : /\ Leads(fresh', Both(published, draft), calls, e)
                          /\ Fit(e.pub, e.dra, fresh')

\* A published parent is the only one.
LEMMA OnceListed ==
    ASSUME TypeInv, \A b \in Blocks : ~Twice(b)
    PROVE  \A x, y \in Existing(published) : \A k :
              k \in published[x].kids /\ k \in published[y].kids => x = y
  <1>1. \A x \in Existing(published) : published[x].kids \subseteq Blocks
    BY KidsOf, Drafted \subseteq Blocks DEF TypeInv, Stored, Blocks
  <1> QED
    BY <1>1 DEF Twice, PublishedParents

\* What a request that is ready knows of the stores.
LEMMA ReadyIs ==
    ASSUME Ready
    PROVE  /\ Stored /\ Built(published, Blocks, Versions) /\ Built(draft, Drafted, Versions)
           /\ Sound(published, draft, fresh) /\ Fit(published, draft, fresh)
           /\ InPlace(published, draft, {}) /\ AllThere(published)
           /\ DraftsThere(published, draft) /\ OneLister(published, draft)
           /\ Unused(published, draft, fresh)
           /\ Existing(published) \subseteq Blocks /\ Existing(draft) \subseteq Drafted
           /\ Drafted \subseteq Blocks
  <1>1. Stored /\ Built(published, Blocks, Versions) /\ Built(draft, Drafted, Versions)
    BY DEF Ready, TypeInv, Stored
  <1>2. Drafted \subseteq Blocks
    BY DEF Blocks
  <1> QED
    BY <1>1, <1>2, KidsOf DEF Ready, Sound, Fit, Tidy

\* An edit changes no list.
LEMMA EditLeads ==
    ASSUME Ready, NEW b \in Shown \cap Components, NEW v \in Contents, Edit(b, v)
    PROVE  \E calls : Start(calls) /\ Leading(calls)
  <1> DEFINE doc == [Working(draft)[b] EXCEPT !.data = v]
             E == Base(draft, b)
  <1>1. b \in Drafted /\ b \in Blocks /\ Working(draft)[b] \in DocOf(b)
    BY ShownIs DEF Ready, TypeInv, Drafted
  <1>2. doc \in DocOf(b) /\ doc.kids = Working(draft)[b].kids
    BY <1>1 DEF DocOf, Doc
  <1>3. b \in Existing(draft) \cup Existing(published)
    BY <1>1, ShownParts DEF Ready, TypeInv
  <1>4. Start(Save(draft, b, doc)) /\ fresh' = fresh
    BY DEF Edit
  <1>5. Working(draft)[b] = IF b \in Existing(draft) THEN draft[b] ELSE published[b]
    BY <1>1 DEF Working
  <1> HIDE DEF doc
  <1>6. /\ Leads(fresh, Both(published, draft), Save(draft, b, doc),
                 Both(published, Replaced(E, b, doc)))
        /\ More(draft, E) /\ b \in Existing(E) /\ E[b].kids = doc.kids
    BY <1>1, <1>2, <1>3, <1>5, ReadyIs, SaveLeads
  <1>7. Sound(published, E, fresh)
    BY <1>1, <1>3, ReadyIs, BaseSound
  <1> HIDE DEF E
  <1>8. /\ Built(Replaced(E, b, doc), Drafted, Versions)
        /\ Existing(Replaced(E, b, doc)) = Existing(E)
        /\ \A c \in Existing(E) : Replaced(E, b, doc)[c].kids = E[c].kids
    <2>1. Built(E, Drafted, Versions)
      BY <1>6 DEF More
    <2> QED
      BY <1>2, <1>6, <2>1, DraftReplaced
  <1>9. Sound(published, Replaced(E, b, doc), fresh)
    BY <1>7, <1>8, SameListsSound
  <1>10. Leading(Save(draft, b, doc))
    <2> DEFINE e == Both(published, Replaced(E, b, doc))
    <2>1. e.pub = published /\ e.dra = Replaced(E, b, doc)
      BY DEF Both
    <2> QED
      BY <1>4, <1>6, <1>9, <2>1 DEF Leading
  <1> QED
    BY <1>4, <1>10

\* Who sees a component or a group of the course, and the parent that is found for it.
LEMMA MovedFrom ==
    ASSUME Ready, NEW b \in Shown \cap (Groups \cup Components), NEW p \in FoundParents(draft, b)
    PROVE  /\ b \in Existing(draft) \cup Existing(published)
           /\ \E x \in Upper(published, draft) : /\ Sees(published, draft, x, b)
                                                 /\ b \in Groups => x \in Top(published)
           /\ p \in Units \cup Groups /\ p \in Blocks /\ Working(draft)[p] \in DocOf(p)
           /\ p \in Existing(draft) \cup Existing(published)
           /\ p \in Existing(draft) \cup Upper(published, draft)
  <1>1. b \in Existing(draft) \cup Existing(published)
    BY ReadyIs, ShownParts
  <1>2. PICK x \in Upper(published, draft) : /\ Sees(published, draft, x, b)
                                             /\ b \in Groups => x \in Top(published)
    <2>1. CASE b \in Groups
      <3>1. b \in Upper(published, draft)
        BY <2>1, ReadyIs, ShownParts
      <3>2. PICK x \in Top(published) : Sees(published, draft, x, b)
        BY <2>1, <3>1, ReadyIs, UpperIs
      <3> QED
        BY <3>2 DEF Upper
    <2>2. CASE b \in Components
      BY <2>2, ReadyIs, ShownParts, CategoriesAssumption DEF Drafted
    <2> QED
      BY <2>1, <2>2
  <1>3. p \in Blocks /\ Working(draft)[p] \in DocOf(p)
    BY ReadyIs, ParentsFound
  <1>4. \/ p \in Existing(draft) /\ b \in draft[p].kids
        \/ p \in Existing(published) /\ b \in published[p].kids /\ DraftParents(draft, b) = {}
    BY DEF FoundParents, DraftParents, PublishedParents
  <1>5. p \in Existing(draft) \cup Upper(published, draft)
    <2> SUFFICES ASSUME p \in Existing(published), b \in published[p].kids, DraftParents(draft, b) = {}
                 PROVE  p \in Upper(published, draft)
      BY <1>4
    <2>1. x \in Existing(published) /\ b \in published[x].kids
      BY <1>2 DEF Sees, DraftParents
    <2>2. x = p
      BY <2>1, OnceListed DEF Ready
    <2> QED
      BY <1>2, <2>2
  <1>6. p \in Units \cup Groups
    <2>1. b \notin Units
      BY CategoriesAssumption DEF Drafted
    <2>2. /\ p \in Existing(published) =>
                /\ p \in Sections => published[p].kids \subseteq Units
                /\ p \in Components => published[p].kids = {}
          /\ p \in Existing(draft) => /\ p \in Drafted
                                      /\ p \in Components => draft[p].kids = {}
      BY ReadyIs, KidsOf
    <2>3. p \in Sections \/ p \in Units \/ p \in Groups \/ p \in Components
      BY <1>3 DEF Blocks, Drafted
    <2> QED
      BY <1>4, <2>1, <2>2, <2>3, CategoriesAssumption
  <1> QED
    BY <1>1, <1>2, <1>3, <1>4, <1>5, <1>6

\* It is taken from there.
LEMMA MoveTakes ==
    ASSUME Ready, NEW b \in Shown \cap (Groups \cup Components), NEW p \in FoundParents(draft, b),
           NEW doc, doc = Without(Working(draft)[p], b), NEW B, B = Base(draft, p)
    PROVE  /\ Save(draft, p, doc) \in Seq(Calls(Doc))
           /\ Leads(fresh, Both(published, draft), Save(draft, p, doc),
                    Both(published, Replaced(B, p, doc)))
           /\ Saved(draft, p, doc) = Replaced(B, p, doc)
           /\ Fit(published, Replaced(B, p, doc), fresh)
           /\ Sound(published, B, fresh) /\ More(draft, B)
           /\ Upper(published, B) = Upper(published, draft)
           /\ p \in Existing(B) /\ B[p] = Working(draft)[p]
           /\ doc \in DocOf(p) /\ doc.kids = B[p].kids \ {b}
  <1>1. /\ p \in Drafted /\ p \in Blocks /\ Working(draft)[p] \in DocOf(p)
        /\ p \in Existing(draft) \cup Existing(published)
        /\ p \in Existing(draft) \cup Upper(published, draft)
    BY MovedFrom DEF Drafted
  <1>2. Working(draft)[p] = IF p \in Existing(draft) THEN draft[p] ELSE published[p]
    BY <1>1 DEF Working
  <1>3. doc \in DocOf(p) /\ doc.kids = Working(draft)[p].kids \ {b}
    <2>1. doc.kids = Working(draft)[p].kids \ {b}
      BY <1>1 DEF Without, DocOf, Doc
    <2> QED
      BY <1>1, <2>1, WithDoc
  <1>4. /\ Save(draft, p, doc) \in Seq(Calls(Doc))
        /\ Leads(fresh, Both(published, draft), Save(draft, p, doc),
                 Both(published, Replaced(B, p, doc)))
        /\ Saved(draft, p, doc) = Replaced(B, p, doc)
        /\ Fit(published, B, fresh) /\ More(draft, B)
        /\ Upper(published, B) = Upper(published, draft)
        /\ p \in Existing(B) /\ B[p] = Working(draft)[p]
    BY <1>1, <1>2, <1>3, ReadyIs, SaveLeads
  <1>5. Sound(published, B, fresh)
    BY <1>1, ReadyIs, BaseSound
  <1>6. Fit(published, Replaced(B, p, doc), fresh)
    <2>1. Built(B, Drafted, Versions)
      BY <1>4 DEF More
    <2>2. /\ Built(Replaced(B, p, doc), Drafted, Versions)
          /\ Existing(Replaced(B, p, doc)) = Existing(B)
          /\ \A c \in Existing(B) : Replaced(B, p, doc)[c].kids \subseteq B[c].kids
      BY <1>3, <1>4, <2>1, DraftReplaced
    <2> QED
      BY <1>4, <2>2, ReadyIs, FewerFit
  <1> QED
    BY <1>3, <1>4, <1>5, <1>6

\* A conversion copies the same whatever another draft says.
LEMMA BaseOver ==
    ASSUME NEW B, Built(B, Drafted, Versions), NEW p \in Existing(B), NEW doc \in DocOf(p), NEW t
    PROVE  Base(Replaced(B, p, doc), t) = Replaced(Base(B, t), p, doc)
  <1> DEFINE E == Replaced(B, p, doc)
             N == Below(published, {t}) \ Existing(B)
             new == [c \in N |-> published[c]]
  <1>1. Existing(E) = Existing(B) /\ p \in Drafted
    BY DraftReplaced
  <1>2. p \notin N
    OBVIOUS
  <1>3. Converted(B, t) = Written(B, new) /\ Converted(E, t) = Written(E, new)
    BY <1>1 DEF Converted
  <1> HIDE DEF N
  <1>4. Written(E, new) = Replaced(Written(B, new), p, doc)
    <2>1. DOMAIN B = Drafted /\ DOMAIN new = N
      BY DEF Built
    <2> HIDE DEF new
    <2> QED
      BY <1>1, <1>2, <2>1 DEF Written, Replaced
  <1> HIDE DEF E, new
  <1> QED
    BY <1>1, <1>3, <1>4 DEF Base, E

\* And put into a group or unit, whose list may lose a child.
LEMMA MoveGives ==
    ASSUME Ready, NEW b \in Shown \cap (Groups \cup Components), NEW t \in Shown \cap (Units \cup Groups),
           b \in Holds(t) \ Working(draft)[t].kids,
           NEW p \in FoundParents(draft, b), b \in Working(draft)[p].kids,
           NEW one, one = Without(Working(draft)[p], b), NEW E, E = Saved(draft, p, one),
           NEW gone, gone \subseteq Working(draft)[t].kids,
           \A c \in gone : FoundParents(E, c) # {t},
           NEW doc \in DocOf(t), doc.kids = (Working(draft)[t].kids \ gone) \cup {b}
    PROVE  /\ Save(E, t, doc) \in Seq(Calls(Doc))
           /\ Leads(fresh, Both(published, E), Save(E, t, doc), Both(published, Saved(E, t, doc)))
           /\ Sound(published, Saved(E, t, doc), fresh)
  <1> DEFINE W == Working(draft)
             B == Base(draft, p)
             D == Base(B, t)
             H == Replaced(Base(E, t), t, doc)
  <1>1. /\ E = Replaced(B, p, one) /\ Fit(published, E, fresh)
        /\ Sound(published, B, fresh) /\ More(draft, B)
        /\ Upper(published, B) = Upper(published, draft)
        /\ p \in Existing(B) /\ B[p] = W[p] /\ one \in DocOf(p) /\ one.kids = B[p].kids \ {b}
    <2> HIDE DEF W, B
    <2> QED
      BY MoveTakes DEF W, B
  <1>2. /\ t \in Blocks /\ t \in Drafted /\ t \in Upper(published, draft)
        /\ t \in Existing(draft) \cup Existing(published) /\ t # p
        /\ \A c \in Existing(draft) : W[c] = draft[c]
        /\ \A c \in Existing(published) \ Existing(draft) : W[c] = published[c]
    <2>1. t \in Blocks /\ t \in Drafted /\ t \in Upper(published, draft)
          /\ t \in Existing(draft) \cup Existing(published)
      BY ReadyIs, ShownIs, ShownParts, UpperIs DEF Drafted
    <2> QED
      BY <2>1, ReadyIs DEF Working
  <1> HIDE DEF W, B
  <1>3. /\ Built(B, Drafted, Versions) /\ Existing(E) = Existing(B)
        /\ (\A c \in Existing(B) \ {p} : E[c] = B[c]) /\ E[p] = one /\ Existing(B) \subseteq Drafted
    <2>1. Built(B, Drafted, Versions)
      BY <1>1 DEF More
    <2> QED
      BY <1>1, <2>1, DraftReplaced
  <1>4. t \in Existing(B) \cup Existing(published) /\ t \in Existing(E) \cup Existing(published)
        /\ (t \in Existing(B) => B[t] = W[t]) /\ (t \notin Existing(B) => published[t] = W[t])
    <2>1. CASE t \in Existing(draft)
      BY <1>1, <1>2, <1>3, <2>1 DEF More
    <2>2. CASE t \notin Existing(draft)
      <3>1. t \in Existing(published) /\ W[t] = published[t]
        BY <1>2, <2>2
      <3>2. t \in Existing(B) => B[t] = published[t]
        BY <1>1, <2>2 DEF More
      <3> QED
        BY <3>1, <3>2
    <2> QED
      BY <2>1, <2>2
  <1>5. /\ Save(E, t, doc) \in Seq(Calls(Doc))
        /\ Leads(fresh, Both(published, E), Save(E, t, doc), Both(published, H))
        /\ Saved(E, t, doc) = H
    BY <1>1, <1>2, <1>4, ReadyIs, SaveLeads
  <1>6. Sound(published, D, fresh)
    BY <1>1, <1>2, <1>4, ReadyIs, BaseSound
  <1>7. /\ More(B, D) /\ t \in Existing(D) /\ D[t] = W[t]
        /\ Upper(published, D) = Upper(published, draft)
    <2>1. doc \in DocOf(t) /\ Fit(published, B, fresh)
      BY <1>1 DEF Sound
    <2> QED
      BY <1>1, <1>2, <1>4, <2>1, ReadyIs, SaveLeads
  <1>8. H = Replaced(Replaced(D, p, one), t, doc)
    BY <1>1, <1>3, BaseOver
  <1> HIDE DEF D, H
  <1>9. p \in Existing(D) /\ D[p] = W[p] /\ Built(D, Drafted, Versions) /\ Existing(D) \subseteq Drafted
    <2>1. Built(D, Drafted, Versions)
      BY <1>7 DEF More
    <2> QED
      BY <1>1, <1>7, <2>1, KidsOf, ReadyIs DEF More
  <1>10. /\ Built(H, Drafted, Versions) /\ Existing(H) = Existing(D)
         /\ (\A c \in Existing(D) \ {p, t} : H[c] = D[c]) /\ H[p] = one /\ H[t] = doc
    <2> DEFINE M == Replaced(D, p, one)
    <2>1. /\ Built(M, Drafted, Versions) /\ Existing(M) = Existing(D)
          /\ (\A c \in Existing(D) \ {p} : M[c] = D[c]) /\ M[p] = one
      BY <1>1, <1>9, DraftReplaced
    <2> HIDE DEF M
    <2>2. /\ Built(Replaced(M, t, doc), Drafted, Versions) /\ Existing(Replaced(M, t, doc)) = Existing(M)
          /\ (\A c \in Existing(M) \ {t} : Replaced(M, t, doc)[c] = M[c])
          /\ Replaced(M, t, doc)[t] = doc
      BY <1>7, <2>1, DraftReplaced
    <2> QED
      BY <1>2, <1>8, <1>9, <2>1, <2>2 DEF M
  <1>11. PICK x \in Upper(published, D) : /\ Sees(published, D, x, b)
                                          /\ b \in Groups => x \in Top(published)
    <2>1. PICK y \in Upper(published, draft) : /\ Sees(published, draft, y, b)
                                               /\ b \in Groups => y \in Top(published)
      BY MovedFrom
    <2>2. Sees(published, D, y, b)
      BY <1>1, <1>7, <2>1 DEF More, Sees
    <2> QED
      BY <1>7, <2>1, <2>2
  <1>12. b \in Existing(D) \cup Existing(published)
    BY <1>1, <1>7, MovedFrom DEF More
  <1>13. b \in Groups => t \in Top(published)
    <2> SUFFICES ASSUME b \in Groups PROVE t \in Top(published)
      OBVIOUS
    <2>1. t \in Units
      BY <1>2, HoldsIs, CategoriesAssumption DEF Drafted
    <2> QED
      BY <2>1, ReadyIs, ShownParts
  <1>14. ASSUME NEW g \in gone \cap Groups PROVE \E v \in Existing(D) \ {t} : g \in D[v].kids
    <2>1. g \in W[t].kids /\ FoundParents(E, g) # {t}
      BY DEF W
    <2>2. CASE DraftParents(E, g) # {}
      <3>1. PICK v \in DraftParents(E, g) : v # t
        BY <2>1, <2>2 DEF FoundParents
      <3>2. v \in Existing(B) /\ g \in B[v].kids
        BY <1>1, <1>3, <3>1 DEF DraftParents
      <3> QED
        BY <1>7, <3>1, <3>2 DEF More
    <2>3. CASE DraftParents(E, g) = {}
      <3>1. t \notin Existing(B)
        BY <1>2, <1>3, <1>4, <2>1, <2>3 DEF DraftParents
      <3>2. t \in PublishedParents(g)
        BY <1>4, <2>1, <3>1 DEF PublishedParents
      <3>3. PICK v \in PublishedParents(g) : v # t
        BY <2>1, <2>3, <3>2 DEF FoundParents
      <3>4. Twice(g)
        BY <3>2, <3>3 DEF Twice
      <3>5. g \in Blocks
        BY DEF Blocks, Drafted
      <3> QED
        BY <3>4, <3>5 DEF Ready
    <2> QED
      BY <2>2, <2>3
  <1>15. Sound(published, H, fresh)
    <2>1. b \in D[p].kids /\ b \notin D[t].kids /\ gone \subseteq D[t].kids
      BY <1>7, <1>9 DEF W
    <2>2. H[p].kids = D[p].kids \ {b} /\ H[t].kids = (D[t].kids \ gone) \cup {b}
      BY <1>1, <1>7, <1>9, <1>10 DEF W
    <2>3. p # t /\ (b \in Groups => x \in Top(published) /\ t \in Top(published))
          /\ \A g \in gone \cap Groups : \E v \in Existing(D) \ {t} : g \in D[v].kids
      BY <1>2, <1>11, <1>13, <1>14
    <2>4. x \in Upper(published, D) /\ Sees(published, D, x, b)
          /\ p \in Existing(D) /\ t \in Existing(D)
          /\ Built(H, Drafted, Versions) /\ Existing(H) = Existing(D)
          /\ \A c \in Existing(D) \ {p, t} : H[c] = D[c]
      BY <1>7, <1>9, <1>10, <1>11
    <2> QED
      BY <1>6, <1>12, <2>1, <2>2, <2>3, <2>4, MovedSound, ZenonT(60)
  <1> QED
    BY <1>5, <1>15

\* A unit b goes from a section p, which then says `one`, to a section t, which then
\* says `doc`: the published documents are first Q and then R.
UnitMoves(b, p, one, t, gone, doc, Q, R) ==
    /\ b \in Shown \cap Units /\ t \in Shown \cap Sections
    /\ p \in FoundParents(draft, b) /\ b \in Working(draft)[p].kids
    /\ b \notin Working(draft)[t].kids
    /\ one = Without(Working(draft)[p], b) /\ gone \subseteq Working(draft)[t].kids
    /\ doc \in DocOf(t) /\ doc.kids = (Working(draft)[t].kids \ gone) \cup {b}
    /\ Q = Replaced(published, p, one) /\ R = Replaced(Q, t, doc)

\* What t loses has another parent.
Elsewhere(gone, t) == \A c \in gone : FoundParents(draft, c) # {t}

\* Only published documents list units.
LEMMA UnitMoveLeads ==
    ASSUME Ready, NEW b, NEW p, NEW one, NEW t, NEW gone, NEW doc, NEW Q, NEW R,
           UnitMoves(b, p, one, t, gone, doc, Q, R)
    PROVE  /\ Save(draft, p, one) \in Seq(Calls(Doc))
           /\ Leads(fresh, Both(published, draft), Save(draft, p, one), Both(Q, draft))
           /\ Fit(Q, draft, fresh) /\ Saved(draft, p, one) = draft
           /\ Elsewhere(gone, t) =>
                 /\ Save(draft, t, doc) \in Seq(Calls(Doc))
                 /\ Leads(fresh, Both(Q, draft), Save(draft, t, doc), Both(R, draft))
                 /\ Sound(R, draft, fresh)
  <1> USE DEF UnitMoves
  <1>1. \A k \in Units : DraftParents(draft, k) = {}
    <2>1. \A x \in Existing(draft) : draft[x].kids \subseteq Groups \cup Components
      BY ReadyIs, KidsOf DEF Drafted
    <2> QED
      BY <2>1, CategoriesAssumption DEF DraftParents, Drafted
  <1>2. p \in PublishedParents(b)
    BY <1>1 DEF FoundParents
  <1>3. p \in Sections /\ p \in Existing(published) /\ b \in published[p].kids
    <2>1. p \in Existing(published) /\ b \in published[p].kids /\ p \in Blocks
      BY <1>2, ReadyIs DEF PublishedParents
    <2>2. p \notin Drafted
      BY <2>1, ReadyIs, KidsOf, CategoriesAssumption DEF Drafted
    <2> QED
      BY <2>1, <2>2 DEF Blocks
  <1>4. Sections \cap Existing(draft) = {} /\ Sections \cap Drafted = {} /\ Sections \subseteq Blocks
    BY ReadyIs, CategoriesAssumption DEF Blocks
  <1>5. t \in Existing(published)
    BY <1>4, ReadyIs, ShownParts
  <1>6. Working(draft)[p] = published[p] /\ Working(draft)[t] = published[t] /\ p # t
    BY <1>3, <1>4 DEF Working
  <1>7. published[p] \in DocOf(p)
    BY <1>3, ReadyIs, BuiltIs
  <1>8. one \in DocOf(p) /\ one.kids = published[p].kids \ {b}
    <2>1. one.kids = published[p].kids \ {b}
      BY <1>6, <1>7 DEF Without, DocOf, Doc
    <2> QED
      BY <1>3, <1>4, <1>6, <1>7, <2>1, WithDoc
  <1>9. /\ Built(Q, Blocks, Versions) /\ Existing(Q) = Existing(published)
        /\ (\A c \in Blocks \ {p} : Q[c] = published[c]) /\ Q[p] = one
    <2>1. p \in Blocks /\ Blocks \subseteq Blocks /\ Existing(published) \cup {p} = Existing(published)
      BY <1>3, <1>4
    <2>2. /\ Built(Q, Blocks, Versions) /\ Existing(Q) = Existing(published) \cup {p}
          /\ (\A c \in Blocks \ {p} : Q[c] = published[c]) /\ Q[p] = one
      BY <1>8, <2>1, ReadyIs, ExceptIs
    <2> QED
      BY <2>1, <2>2
  <1>10. Fit(Q, draft, fresh)
    <2>1. \A c \in Drafted : Q[c] = published[c]
      BY <1>3, <1>4, <1>9, ReadyIs
    <2>2. \A c \in Existing(published) : Q[c].kids \subseteq published[c].kids
      BY <1>8, <1>9, ReadyIs
    <2> QED
      BY <1>9, <2>1, <2>2, ReadyIs, FewerFit
  <1>11. /\ Save(draft, p, one) \in Seq(Calls(Doc))
         /\ Leads(fresh, Both(published, draft), Save(draft, p, one), Both(Q, draft))
    BY <1>3, <1>8, ReadyIs, SectionSaveLeads
  <1>12. Saved(draft, p, one) = draft
    <2>1. p \notin Drafted
      BY <1>3, <1>4
    <2>2. Put(p, one).draft = Nothing
      BY <2>1 DEF Put
    <2> QED
      BY <2>1, <2>2, ReadyIs, WroteNothing DEF Saved
  <1>13. ASSUME Elsewhere(gone, t) PROVE Sound(R, draft, fresh)
    <2>1. gone = {}
      <3> SUFFICES ASSUME NEW c \in gone PROVE FALSE
        OBVIOUS
      <3>1. c \in published[t].kids /\ c \in Units
        BY <1>5, <1>6, ReadyIs, KidsOf
      <3>2. FoundParents(draft, c) = PublishedParents(c) /\ t \in PublishedParents(c)
        BY <1>1, <1>5, <3>1 DEF FoundParents, PublishedParents
      <3>3. PICK v \in PublishedParents(c) : v # t
        BY <1>13, <3>2 DEF Elsewhere
      <3>4. Twice(c)
        BY <3>2, <3>3 DEF Twice
      <3> QED
        BY <3>1, <3>4 DEF Ready, Blocks, Drafted
    <2>2. /\ Built(R, Blocks, Versions) /\ Existing(R) = Existing(published)
          /\ (\A c \in Blocks \ {t} : R[c] = Q[c]) /\ R[t] = doc
      <3>1. t \in Blocks /\ Blocks \subseteq Blocks /\ Existing(Q) \cup {t} = Existing(published)
        BY <1>4, <1>5, <1>9
      <3>2. /\ Built(R, Blocks, Versions) /\ Existing(R) = Existing(Q) \cup {t}
            /\ (\A c \in Blocks \ {t} : R[c] = Q[c]) /\ R[t] = doc
        BY <1>9, <3>1, ExceptIs
      <3> QED
        BY <3>1, <3>2
    <2>3. R[p].kids = published[p].kids \ {b} /\ R[t].kids = published[t].kids \cup {b}
      BY <1>3, <1>4, <1>6, <1>8, <1>9, <2>1, <2>2
    <2>4. \A q \in Sections \ {p, t} : R[q] = published[q]
      BY <1>4, <1>9, <2>2
    <2>5. \A k : (\E q \in Sections \cap Existing(R) : k \in R[q].kids)
                 <=> \E q \in Sections \cap Existing(published) : k \in published[q].kids
      BY <1>3, <1>5, <1>6, <2>2, <2>3, <2>4
    <2>6. Top(R) = Top(published)
      <3>1. \A k : k \in Top(R) <=> \E q \in Sections \cap Existing(R) : k \in R[q].kids
        BY <2>2, TopIs
      <3>2. \A k : k \in Top(published)
                    <=> \E q \in Sections \cap Existing(published) : k \in published[q].kids
        BY ReadyIs, TopIs
      <3>3. \A k : k \in Top(R) <=> k \in Top(published)
        BY <2>5, <3>1, <3>2
      <3> QED
        BY <3>3
    <2>7. \A c \in Drafted : R[c] = published[c]
      BY <1>3, <1>4, <1>9, <2>2, ReadyIs
    <2> QED
      BY <2>2, <2>6, <2>7, ReadyIs, SameTopSound
  <1>14. /\ Save(draft, t, doc) \in Seq(Calls(Doc))
         /\ Leads(fresh, Both(Q, draft), Save(draft, t, doc), Both(R, draft))
    BY <1>10, SectionSaveLeads
  <1> QED
    BY <1>10, <1>11, <1>12, <1>13, <1>14

\* A move takes and gives, or only takes if it is refused half way.
LEMMA MoveLeads ==
    ASSUME Ready, NEW b \in Shown \cap Drafted, NEW t \in Shown, Move(b, t)
    PROVE  \E calls : \/ Start(calls) /\ Leading(calls)
                      \/ Refused(calls) /\ Refusing(calls)
  <1>1. PICK p \in FoundParents(draft, b),
             gone \in {{}} \cup {{c} : c \in Working(draft)[t].kids} :
          /\ ~Twice(b) /\ b \in Working(draft)[p].kids
          /\ LET doc == Without(Working(draft)[p], b)
                 taken == Save(draft, p, doc)
                 d == Saved(draft, p, doc)
                 kids == (Working(draft)[t].kids \ gone) \cup {b} IN
             \/ /\ \E c \in gone : t \in FoundParents(d, c)
                /\ job' = [op |-> "refused", calls |-> taken]
             \/ /\ \A c \in gone : FoundParents(d, c) # {t}
                /\ Start(taken \o Save(d, t, [Working(draft)[t] EXCEPT !.kids = kids]))
    BY DEF Move
  <1> DEFINE one == Without(Working(draft)[p], b)
             taken == Save(draft, p, one)
             d == Saved(draft, p, one)
             kids == (Working(draft)[t].kids \ gone) \cup {b}
             doc == [Working(draft)[t] EXCEPT !.kids = kids]
             given == Save(d, t, doc)
  <1>2. /\ fresh' = fresh /\ b \in Holds(t) \ Working(draft)[t].kids
        /\ gone \subseteq Working(draft)[t].kids /\ b \in Working(draft)[p].kids
        /\ \/ Refused(taken)
           \/ (\A c \in gone : FoundParents(d, c) # {t}) /\ Start(taken \o given)
    BY <1>1 DEF Move, Refused
  <1>3. doc \in DocOf(t) /\ doc.kids = kids
    <2>1. Working(draft)[t] \in DocOf(t) /\ t \in Blocks
      BY ShownIs DEF Ready, TypeInv
    <2>2. Holds(t) \subseteq Blocks
      BY <2>1, HoldsIs DEF Blocks
    <2> QED
      BY <1>2, <2>1, <2>2 DEF DocOf, Doc
  <1>4. \A f, g : Both(f, g).pub = f /\ Both(f, g).dra = g
    BY DEF Both
  <1> HIDE DEF one, doc
  <1>5. \E m, e : /\ taken \in Seq(Calls(Doc))
                  /\ Leads(fresh, Both(published, draft), taken, m) /\ Fit(m.pub, m.dra, fresh)
                  /\ (\A c \in gone : FoundParents(d, c) # {t}) =>
                        /\ given \in Seq(Calls(Doc)) /\ Leads(fresh, m, given, e)
                        /\ Sound(e.pub, e.dra, fresh)
    <2>1. CASE b \in Units
      <3>1. t \in Sections
        BY <1>2, <2>1, ShownIs, HoldsIs, CategoriesAssumption DEF Ready, TypeInv, Blocks, Drafted
      <3> DEFINE Q == Replaced(published, p, one)
                 R == Replaced(Q, t, doc)
      <3>2. /\ taken \in Seq(Calls(Doc)) /\ d = draft
            /\ Leads(fresh, Both(published, draft), taken, Both(Q, draft)) /\ Fit(Q, draft, fresh)
            /\ (\A c \in gone : FoundParents(draft, c) # {t}) =>
                  /\ Save(draft, t, doc) \in Seq(Calls(Doc))
                  /\ Leads(fresh, Both(Q, draft), Save(draft, t, doc), Both(R, draft))
                  /\ Sound(R, draft, fresh)
        <4>1. UnitMoves(b, p, one, t, gone, doc, Q, R)
          BY <1>2, <1>3, <2>1, <3>1 DEF UnitMoves, one
        <4> HIDE DEF Q, R, taken, d
        <4>2. /\ Save(draft, p, one) \in Seq(Calls(Doc)) /\ Saved(draft, p, one) = draft
              /\ Leads(fresh, Both(published, draft), Save(draft, p, one), Both(Q, draft))
              /\ Fit(Q, draft, fresh)
          BY <4>1, UnitMoveLeads
        <4>3. ASSUME Elsewhere(gone, t)
              PROVE  /\ Save(draft, t, doc) \in Seq(Calls(Doc))
                     /\ Leads(fresh, Both(Q, draft), Save(draft, t, doc), Both(R, draft))
                     /\ Sound(R, draft, fresh)
          BY <4>1, <4>3, UnitMoveLeads
        <4> QED
          BY <4>2, <4>3 DEF taken, d, Elsewhere
      <3>3. (\A c \in gone : FoundParents(d, c) # {t}) =>
                  /\ given \in Seq(Calls(Doc))
                  /\ Leads(fresh, Both(Q, draft), given, Both(R, draft)) /\ Sound(R, draft, fresh)
        BY <3>2
      <3> HIDE DEF taken, d, given, Q, R
      <3> DEFINE m == Both(Q, draft)
                 e == Both(R, draft)
      <3>4. m.pub = Q /\ m.dra = draft /\ e.pub = R /\ e.dra = draft
        BY <1>4
      <3> HIDE DEF m, e
      <3>5. /\ Leads(fresh, Both(published, draft), taken, m) /\ Fit(m.pub, m.dra, fresh)
            /\ (\A c \in gone : FoundParents(d, c) # {t}) =>
                  /\ given \in Seq(Calls(Doc)) /\ Leads(fresh, m, given, e)
                  /\ Sound(e.pub, e.dra, fresh)
        BY <3>2, <3>3, <3>4 DEF m, e
      <3> QED
        BY <3>2, <3>5
    <2>2. CASE b \notin Units
      <3>1. b \in Groups \cup Components
        BY <2>2 DEF Drafted
      <3>2. t \in Units \cup Groups
        BY <1>2, <2>2, ShownIs, HoldsIs DEF Ready, TypeInv, Blocks, Drafted
      <3>3. /\ taken \in Seq(Calls(Doc))
            /\ Leads(fresh, Both(published, draft), taken, Both(published, d))
            /\ Fit(published, d, fresh)
        <4>1. \E B : B = Base(draft, p)
          OBVIOUS
        <4> QED
          BY <3>1, <4>1, MoveTakes DEF one
      <3>4. ASSUME \A c \in gone : FoundParents(d, c) # {t}
            PROVE  /\ given \in Seq(Calls(Doc))
                   /\ Leads(fresh, Both(published, d), given, Both(published, Saved(d, t, doc)))
                   /\ Sound(published, Saved(d, t, doc), fresh)
        <4>1. /\ one = Without(Working(draft)[p], b)
              /\ b \in Holds(t) \ Working(draft)[t].kids /\ b \in Working(draft)[p].kids
              /\ gone \subseteq Working(draft)[t].kids
              /\ doc \in DocOf(t) /\ doc.kids = (Working(draft)[t].kids \ gone) \cup {b}
          BY <1>2, <1>3 DEF one
        <4> QED
          BY <3>1, <3>2, <3>4, <4>1, MoveGives
      <3> HIDE DEF taken, d, given
      <3> QED
        BY <1>4, <3>3, <3>4
    <2> QED
      BY <2>1, <2>2
  <1> HIDE DEF taken, given, d
  <1>6. PICK m, e : /\ taken \in Seq(Calls(Doc))
                    /\ Leads(fresh, Both(published, draft), taken, m) /\ Fit(m.pub, m.dra, fresh)
                    /\ (\A c \in gone : FoundParents(d, c) # {t}) =>
                          /\ given \in Seq(Calls(Doc)) /\ Leads(fresh, m, given, e)
                          /\ Sound(e.pub, e.dra, fresh)
    BY <1>5
  <1>7. CASE Refused(taken)
    <2>1. Refusing(taken)
      BY <1>2, <1>6 DEF Refusing
    <2> QED
      BY <1>7, <2>1
  <1>8. CASE (\A c \in gone : FoundParents(d, c) # {t}) /\ Start(taken \o given)
    <2>1. Leads(fresh, Both(published, draft), taken \o given, e)
      BY <1>6, <1>8, LeadsOn
    <2>2. Leading(taken \o given)
      BY <1>2, <1>6, <1>8, <2>1 DEF Leading
    <2> QED
      BY <1>8, <2>2
  <1> QED
    BY <1>2, <1>7, <1>8

\* A draft of the course gets a child that no draft lists and that lists nothing.
LEMMA NewChildSound ==
    ASSUME NEW P, NEW D, NEW F, Sound(P, D, F), NEW t \in Existing(D),
           NEW b \in Existing(D), D[b].kids = {}, b \notin F,
           \A c \in Existing(D) : b \notin D[c].kids, b \in Groups => t \in Top(P),
           NEW E, Built(E, Drafted, Versions), Existing(E) = Existing(D),
           \A c \in Existing(D) \ {t} : E[c] = D[c],
           E[t].kids = D[t].kids \cup {b}
    PROVE  Sound(P, E, F)
  <1>1. Fit(P, D, F) /\ InPlace(P, D, {}) /\ Built(P, Blocks, Versions)
    BY DEF Sound, Fit, Tidy
  <1>2. Fit(P, E, F) /\ Upper(P, E) \subseteq Upper(P, D) \cup ({b} \cap Groups)
    <2>1. /\ b \in Existing(D) \cup Existing(P)
          /\ b \notin Existing(P) => \A c \in Existing(D) \ {t} : b \notin D[c].kids
          /\ b \in Groups \cap Existing(D) =>
                /\ D[b].kids \subseteq Existing(D) \cup Existing(P)
                /\ \A k \in D[b].kids \ Existing(P), c \in Existing(D) \ {b} : k \notin D[c].kids
      OBVIOUS
    <2> QED
      BY <1>1, <2>1, AddedFit
  <1>3. \A c \in Existing(D) : \A k : k \in E[c].kids <=> k \in D[c].kids \/ (c = t /\ k = b)
    OBVIOUS
  <1>4. \A x, k : Sees(P, D, x, k) => Sees(P, E, x, k)
    BY DEF Sees
  <1>5. Upper(P, D) \subseteq Upper(P, E)
    BY <1>4 DEF Upper
  <1>6. ASSUME NEW g \in Known(P, E)
        PROVE  /\ g \in Existing(E) => g \in Upper(P, E)
               /\ \A u \in Existing(E) : g \in E[u].kids => u \in Top(P)
    <2>1. CASE g = b
      <3>1. g \in Groups /\ t \in Top(P)
        BY <2>1 DEF Known
      <3>2. Sees(P, E, t, g)
        BY <2>1 DEF Sees
      <3>3. \A u \in Existing(E) : g \in E[u].kids => u = t
        BY <1>3, <2>1
      <3> QED
        BY <3>1, <3>2, <3>3 DEF Upper
    <2>2. CASE g # b
      <3>1. g \in Known(P, D)
        BY <1>2, <2>2 DEF Known
      <3>2. /\ g \in Existing(D) => g \in Upper(P, D)
            /\ \A u \in Existing(D) : g \in D[u].kids => u \in Top(P)
        BY <1>1, <3>1 DEF InPlace
      <3> QED
        BY <1>3, <1>5, <2>2, <3>2
    <2> QED
      BY <2>1, <2>2
  <1>7. InPlace(P, E, {})
    BY <1>6 DEF InPlace
  <1> QED
    BY <1>2, <1>7 DEF Sound

\* A creation writes the new block first and then its parent.
LEMMA CreateLeads ==
    ASSUME Ready, NEW b \in fresh, NEW p \in Shown, Create(b, p)
    PROVE  \E calls : Start(calls) /\ Leading(calls)
  <1> DEFINE d == Replaced(draft, b, New)
             doc == With(Working(d)[p], b)
             put == <<Put(b, New)>>
             save == Save(d, p, doc)
  <1>1. /\ Stored /\ Built(published, Blocks, Versions) /\ Built(draft, Drafted, Versions)
        /\ Sound(published, draft, fresh) /\ Unused(published, draft, fresh)
        /\ Fit(published, draft, fresh)
    BY ReadyIs
  <1>2. /\ b \in Drafted /\ b \in Blocks /\ b \in Holds(p) /\ New \in DocOf(b) /\ New.kids = {}
        /\ fresh' = fresh \ {b} /\ Start(put \o save)
    <2>1. b \in Drafted /\ b \in Blocks /\ New \in DocOf(b) /\ New.kids = {}
      BY TreeAssumption, ContentsAssumption DEF Ready, TypeInv, Blocks, DocOf, Doc, New
    <2> QED
      BY <2>1 DEF Create, Replaced
  <1>3. /\ Built(d, Drafted, Versions) /\ Existing(d) = Existing(draft) \cup {b}
        /\ (\A c \in Drafted \ {b} : d[c] = draft[c]) /\ d[b] = New
    BY <1>1, <1>2, ExceptIs, Drafted \subseteq Blocks DEF Blocks
  <1> HIDE DEF d
  <1>4. b \notin Existing(published) \cup Existing(draft)
    BY <1>1 DEF Unused
  <1>5. Existing(draft) \subseteq Drafted
    BY <1>1, KidsOf, Drafted \subseteq Blocks DEF Blocks
  <1>6. \A c \in Existing(draft) : d[c] = draft[c]
    BY <1>3, <1>4, <1>5
  <1> DEFINE F == fresh \ {b}
  <1>7. /\ Sound(published, d, F) /\ Upper(published, d) = Upper(published, draft)
        /\ \A x \in Blocks : ~Lists(published, d, x, b)
    <2>1. F \cup {b} = fresh /\ b \notin F
      OBVIOUS
    <2>2. d[b].kids = {}
      BY <1>2, <1>3
    <2> HIDE DEF F
    <2> QED
      BY <1>1, <1>2, <1>3, <1>6, <2>1, <2>2, CreatedSound
  <1>8. put \in Seq(Calls(Doc)) /\ Leads(F, Both(published, draft), put, Both(published, d))
    <2>1. Put(b, New) \in Calls(Doc)
      BY <1>2, PutCall
    <2>2. Made(Both(published, draft), Put(b, New)) = Both(published, d)
      BY <1>1, <1>2, PutMakes DEF d
    <2>3. Fit(published, draft, F)
      BY <1>1, FewerIds
    <2>4. Both(published, draft).pub = published /\ Both(published, draft).dra = draft
      BY DEF Both
    <2>5. Fit(Both(published, draft).pub, Both(published, draft).dra, F)
      BY <2>3, <2>4
    <2> HIDE DEF F
    <2> QED
      BY <2>1, <2>2, <2>5, LeadsOne
  <1>9. p \in Blocks /\ p # b /\ p \in Existing(draft) \cup Existing(published)
    BY <1>1, <1>4, ShownIs, ShownParts
  <1>10. /\ Working(d)[p] = IF p \in Existing(d) THEN d[p] ELSE published[p]
         /\ Working(d)[p] \in DocOf(p)
    <2>1. Working(d)[p] = IF p \in Existing(d) THEN d[p] ELSE published[p]
      BY <1>9 DEF Working
    <2>2. Existing(d) \subseteq Blocks
      BY <1>3, KidsOf, Drafted \subseteq Blocks DEF Blocks
    <2> QED
      BY <1>1, <1>3, <1>9, <2>1, BuiltIs, Drafted \subseteq Blocks DEF Blocks
  <1>11. doc \in DocOf(p) /\ doc.kids = Working(d)[p].kids \cup {b}
    <2>1. doc \in DocOf(p)
      BY <1>2, <1>9, <1>10, WithDoc
    <2>2. doc.kids = Working(d)[p].kids \cup {b}
      BY <1>10 DEF With, DocOf, Doc
    <2> QED
      BY <2>1, <2>2
  <1> HIDE DEF doc
  <1> DEFINE found(e) == /\ save \in Seq(Calls(Doc)) /\ Leads(F, Both(published, d), save, e)
                         /\ Sound(e.pub, e.dra, F)
  <1>12. ASSUME p \in Sections PROVE \E e : found(e)
    <2> DEFINE Q == Replaced(published, p, doc)
    <2>1. p \notin Drafted /\ b \in Units
      BY <1>2, <1>12, HoldsIs, CategoriesAssumption DEF Blocks
    <2>2. p \notin Existing(d) /\ p \in Existing(published)
      BY <1>2, <1>3, <1>5, <1>9, <2>1
    <2>3. save \in Seq(Calls(Doc)) /\ Leads(F, Both(published, d), save, Both(Q, d))
      <3>1. Fit(published, d, F)
        BY <1>7 DEF Sound
      <3> HIDE DEF F, Q, doc
      <3> QED
        BY <1>11, <1>12, <3>1, SectionSaveLeads DEF Q
    <2>4. /\ Built(Q, Blocks, Versions) /\ Existing(Q) = Existing(published) \cup {p}
          /\ (\A c \in Blocks \ {p} : Q[c] = published[c]) /\ Q[p] = doc
      BY <1>1, <1>9, <1>11, ExceptIs
    <2>5. /\ Existing(Q) = Existing(published) /\ \A c \in Existing(published) \ {p} : Q[c] = published[c]
          /\ Q[p].kids = published[p].kids \cup {b}
      <3>1. Existing(published) \subseteq Blocks
        BY <1>1, KidsOf
      <3> HIDE DEF Q
      <3> QED
        BY <1>10, <1>11, <2>2, <2>4, <3>1
    <2> HIDE DEF Q
    <2>6. Sound(Q, d, F)
      <3>1. b \in Existing(d) /\ d[b].kids = {} /\ b \notin F /\ b \notin Existing(published)
        BY <1>2, <1>3, <1>4
      <3> HIDE DEF F
      <3> QED
        BY <1>7, <1>12, <2>1, <2>2, <2>4, <2>5, <3>1, UnitAddedSound
    <2>7. Both(Q, d).pub = Q /\ Both(Q, d).dra = d
      BY DEF Both
    <2>8. found(Both(Q, d))
      BY <2>3, <2>6, <2>7
    <2> HIDE DEF found
    <2> QED
      BY <2>8
  <1>13. ASSUME p \notin Sections PROVE \E e : found(e)
    <2> DEFINE B == Base(d, p)
               H == Replaced(B, p, doc)
    <2>1. p \in Drafted /\ p \in Upper(published, draft)
      <3>1. p \in Units \/ p \in Groups
        BY <1>2, <1>9, <1>13, HoldsIs DEF Blocks, Drafted
      <3> QED
        BY <1>1, <3>1, ShownParts, UpperIs DEF Drafted
    <2>2. /\ p \in Existing(d) \cup Existing(published) /\ Fit(published, d, F)
          /\ p \in Upper(published, d)
      BY <1>3, <1>7, <1>9, <2>1 DEF Sound
    <2>3. /\ save \in Seq(Calls(Doc))
          /\ Leads(F, Both(published, d), save, Both(published, H))
          /\ Sound(published, B, F) /\ More(d, B)
          /\ p \in Existing(B) /\ B[p] = Working(d)[p]
      <3> HIDE DEF F, doc
      <3>1. Sound(published, B, F)
        BY <1>1, <1>7, <2>1, <2>2, BaseSound
      <3>2. /\ save \in Seq(Calls(Doc))
            /\ Leads(F, Both(published, d), save, Both(published, H)) /\ More(d, B)
            /\ p \in Existing(B) /\ B[p] = IF p \in Existing(d) THEN d[p] ELSE published[p]
        BY <1>1, <1>11, <2>1, <2>2, SaveLeads
      <3> QED
        BY <1>10, <3>1, <3>2
    <2> HIDE DEF B
    <2>4. /\ Built(H, Drafted, Versions) /\ Existing(H) = Existing(B)
          /\ (\A c \in Existing(B) \ {p} : H[c] = B[c]) /\ H[p] = doc /\ Existing(B) \subseteq Drafted
      <3>1. Built(B, Drafted, Versions)
        BY <2>3 DEF More
      <3> QED
        BY <1>11, <2>3, <3>1, DraftReplaced
    <2> HIDE DEF H
    <2>5. \A x \in Blocks : ~Lists(published, B, x, b)
      <3>1. \A x : Lists(published, B, x, b) => Lists(published, d, x, b)
        BY <2>3 DEF More, Lists
      <3> QED
        BY <1>7, <3>1
    <2>6. b \in Existing(B) /\ B[b].kids = {}
      BY <1>2, <1>3, <2>3 DEF More
    <2>7. /\ \A c \in Existing(B) : b \notin B[c].kids
          /\ b \in Groups => p \in Top(published)
      <3>1. \A c \in Existing(B) : b \notin B[c].kids
        BY <2>4, <2>5 DEF Lists, Blocks
      <3>2. b \in Groups => p \in Units
        BY <1>2, <1>9, <1>13, HoldsIs, CategoriesAssumption DEF Blocks, Drafted
      <3> QED
        BY <1>1, <2>1, <3>1, <3>2, UpperIs
    <2>8. H[p].kids = B[p].kids \cup {b} /\ b \notin F
      BY <1>11, <2>3, <2>4
    <2>9. Sound(published, H, F)
      <3> HIDE DEF F
      <3> QED
        BY <2>3, <2>4, <2>6, <2>7, <2>8, NewChildSound
    <2>10. Both(published, H).pub = published /\ Both(published, H).dra = H
      BY DEF Both
    <2>11. found(Both(published, H))
      BY <2>3, <2>9, <2>10
    <2> HIDE DEF found
    <2> QED
      BY <2>11
  <1>14. PICK e : found(e)
    BY <1>12, <1>13
  <1>15. Leads(F, Both(published, draft), put \o save, e)
    <2> HIDE DEF put, save, F
    <2> QED
      BY <1>8, <1>14, LeadsOn DEF save
  <1>16. fresh' = F
    BY <1>2
  <1> HIDE DEF put, save, F
  <1>17. Leading(put \o save)
    BY <1>14, <1>15, <1>16 DEF Leading
  <1> QED
    BY <1>2, <1>17

\* The last call of a deletion.
LEMMA RemovalLeads ==
    ASSUME NEW P, NEW D, NEW F, NEW T, NEW S, S = Below(D, T), Fit(P, D, F), InPlace(P, D, S),
           \A k \in T \cap Existing(D) : k \in Existing(P) \/ \A c \in Existing(D) : k \notin D[c].kids
    PROVE  /\ <<Removal(S)>> \in Seq(Calls(Versions))
           /\ \E e : Leads(F, Both(P, D), <<Removal(S)>>, e) /\ Sound(e.pub, e.dra, F)
  <1>1. Built(P, Blocks, Versions) /\ Built(D, Drafted, Versions)
    BY DEF Fit, Tidy
  <1>2. S \subseteq Drafted
    BY <1>1, BelowExists, KidsOf, Drafted \subseteq Blocks DEF Blocks
  <1> DEFINE E == Written(D, [b \in S |-> None])
  <1>3. /\ Made(Both(P, D), Removal(S)) = Both(P, E)
        /\ Built(E, Drafted, Versions) /\ Existing(E) = Existing(D) \ S
        /\ \A c \in Existing(D) \ S : E[c] = D[c]
    BY <1>1, RemovalMakes
  <1> HIDE DEF E
  <1>4. Sound(P, E, F)
    BY <1>3, RemovedSound
  <1>5. Leads(F, Both(P, D), <<Removal(S)>>, Both(P, E))
    <2>1. Both(P, D).pub = P /\ Both(P, D).dra = D
      BY DEF Both
    <2>2. Fit(Both(P, D).pub, Both(P, D).dra, F)
      BY <2>1
    <2> QED
      BY <1>3, <2>2, LeadsOne
  <1>6. Both(P, E).pub = P /\ Both(P, E).dra = E
    BY DEF Both
  <1>7. \E e : Leads(F, Both(P, D), <<Removal(S)>>, e) /\ Sound(e.pub, e.dra, F)
    BY <1>4, <1>5, <1>6
  <1> QED
    BY <1>2, <1>7, RemovalCall

\* A discard removes the drafts below what it comes to.
LEMMA DiscardLeads ==
    ASSUME Ready, NEW b, Discard(b)
    PROVE  \E calls : Start(calls) /\ Leading(calls)
  <1> DEFINE S == Below(draft, Reverted(b))
  <1>1. Start(<<Removal(S)>>) /\ fresh' = fresh
    BY DEF Discard
  <1>2. Reverted(b) \cap Existing(draft) \subseteq Existing(published)
    BY DEF Discard
  <1>3. Fit(published, draft, fresh) /\ InPlace(published, draft, S)
    BY ReadyIs DEF InPlace
  <1> HIDE DEF S
  <1>4. \E e : Leads(fresh, Both(published, draft), <<Removal(S)>>, e) /\ Sound(e.pub, e.dra, fresh)
    BY <1>2, <1>3, RemovalLeads DEF S
  <1>5. Leading(<<Removal(S)>>)
    BY <1>1, <1>4 DEF Leading
  <1> QED
    BY <1>1, <1>5

\* Parents that have a child no more.
Left(f, ps, b) == Written(f, [p \in ps |-> Without(f[p], b)])

\* They lose the child and nothing else.
LEMMA LeftIs ==
    ASSUME NEW f, NEW S, S \subseteq Blocks, Built(f, S, Versions), NEW b, NEW ps, ps \subseteq Existing(f)
    PROVE  /\ Built(Left(f, ps, b), S, Versions) /\ Existing(Left(f, ps, b)) = Existing(f)
           /\ \A c \in S \ ps : Left(f, ps, b)[c] = f[c]
           /\ \A c \in ps : Left(f, ps, b)[c].kids = f[c].kids \ {b}
  <1> DEFINE new == [p \in ps |-> Without(f[p], b)]
  <1>1. Existing(f) \subseteq S
    BY KidsOf
  <1>2. \A p \in ps : Without(f[p], b) \in DocOf(p) /\ Without(f[p], b).kids = f[p].kids \ {b}
    <2> SUFFICES ASSUME NEW p \in ps
                 PROVE  Without(f[p], b) \in DocOf(p) /\ Without(f[p], b).kids = f[p].kids \ {b}
      OBVIOUS
    <2>1. f[p] \in DocOf(p) /\ p \in Blocks
      BY <1>1, BuiltIs
    <2>2. Without(f[p], b) \in DocOf(p)
      BY <2>1, WithDoc
    <2>3. Without(f[p], b).kids = f[p].kids \ {b}
      BY <2>1 DEF Without, DocOf, Doc
    <2> QED
      BY <2>2, <2>3
  <1>3. \A p \in ps : new[p] \in Doc /\ new[p] # None /\ new[p].kids \subseteq Holds(p)
        /\ new[p].kids = f[p].kids \ {b}
    BY <1>2, DocIs DEF DocOf
  <1>4. DOMAIN new = ps
    OBVIOUS
  <1>5. Left(f, ps, b) = Written(f, new)
    BY DEF Left
  <1> HIDE DEF new
  <1>6. Built(Written(f, new), S, Versions)
    BY <1>3, <1>4, WrittenBuilt DEF Versions
  <1>7. DOMAIN f = S
    BY DEF Built
  <1>8. \A c \in S : Written(f, new)[c] = IF c \in ps THEN new[c] ELSE f[c]
    BY <1>4, <1>7 DEF Written
  <1>9. Existing(Written(f, new)) = Existing(f)
    BY <1>1, <1>3, <1>7, <1>8 DEF Existing, Written
  <1> QED
    BY <1>1, <1>3, <1>5, <1>6, <1>8, <1>9

\* Q and E are P and D where b is taken from sections and drafts; of the drafts S are
\* to be removed, that of b and those that it lists among them.
Taken(P, D, b, Q, E, S) ==
    /\ Built(P, Blocks, Versions) /\ Built(Q, Blocks, Versions)
    /\ Existing(Q) = Existing(P) /\ Existing(E) = Existing(D)
    /\ \A c \in Drafted : Q[c] = P[c]
    /\ Top(Q) \subseteq Top(P) /\ Top(P) \ {b} \subseteq Top(Q)
    /\ Known(Q, E) \subseteq Known(P, D)
    /\ \A c \in Existing(D) : E[c].kids = D[c].kids \/ E[c].kids = D[c].kids \ {b}
    /\ b \in Existing(D) => \A k \in Existing(D) : k = b \/ k \in E[b].kids => k \in S

\* What is left is in place.
LEMMA TakenInPlace ==
    ASSUME NEW P, NEW D, NEW b, NEW Q, NEW E, NEW S, Taken(P, D, b, Q, E, S), InPlace(P, D, {}),
           \A x, y \in Existing(P) : \A k : k \in P[x].kids /\ k \in P[y].kids => x = y
    PROVE  InPlace(Q, E, S)
  <1> USE DEF Taken
  <1>1. Top(P) \subseteq Drafted /\ Groups \subseteq Drafted
    BY TopIs DEF Drafted
  <1>2. ASSUME NEW g \in Known(Q, E), g \in Existing(E) \ S PROVE g \in Upper(Q, E)
    <2>1. g \in Known(P, D) /\ g \in Existing(D) /\ g \in Groups /\ g # b
      BY <1>2 DEF Known
    <2>2. g \in Upper(P, D)
      BY <2>1 DEF InPlace
    <2>3. PICK v \in Top(P) : Sees(P, D, v, g)
      BY <2>1, <2>2, UpperIs
    <2>4. Sees(Q, E, v, g)
      BY <1>1, <2>1, <2>3 DEF Sees
    <2>5. CASE v \in Top(Q)
      BY <2>1, <2>4, <2>5 DEF Upper
    <2>6. CASE v \notin Top(Q)
      <3>1. v = b
        BY <2>3, <2>6
      <3>2. b \notin Existing(D)
        BY <1>2, <2>1, <2>4, <3>1 DEF Sees
      <3>3. b \in Existing(P) /\ g \in P[b].kids
        BY <2>3, <3>1, <3>2 DEF Sees
      <3>4. g \notin Kids(Q, Top(Q))
        <4> SUFFICES ASSUME NEW u \in Top(Q), u \in Existing(Q), g \in Q[u].kids PROVE FALSE
          BY DEF Kids
        <4>1. u \in Existing(P) /\ g \in P[u].kids
          BY <1>1
        <4> QED
          BY <2>6, <3>1, <3>3, <4>1
      <3> QED
        BY <1>2, <3>4 DEF Known
    <2> QED
      BY <2>5, <2>6
  <1>3. ASSUME NEW g \in Known(Q, E), NEW u \in Existing(E) \ S, g \in E[u].kids PROVE u \in Top(Q)
    <2>1. u \in Existing(D) /\ g \in D[u].kids /\ u # b
      BY <1>3
    <2>2. u \in Top(P)
      BY <1>3, <2>1 DEF InPlace
    <2> QED
      BY <2>1, <2>2
  <1> QED
    BY <1>2, <1>3 DEF InPlace

\* The drafts below b are its own and those of its children.
LEMMA OwnBelow ==
    ASSUME NEW D, NEW b \in Existing(D), NEW k \in Existing(D), k = b \/ k \in D[b].kids
    PROVE  k \in Below(D, {b})
  <1> DEFINE T == {b}
  <1>1. k \in T \cup Kids(D, T)
    BY DEF Kids
  <1> HIDE DEF T
  <1>2. Below(D, T) = Reach(D, T) \cap Existing(D) /\ T \cup Kids(D, T) \subseteq Reach(D, T)
    BY TiersIs DEF Below, Reach
  <1>3. k \in Below(D, T)
    BY <1>1, <1>2
  <1> QED
    BY <1>3 DEF T

\* A deletion from drafts and sections.
LEMMA DeleteFromLeads ==
    ASSUME Ready, NEW b \in Drafted, NEW ps, ps \subseteq Sections \cap Existing(published)
    PROVE  LET outD == [p \in DraftParents(draft, b) |-> Without(draft[p], b)]
               outP == [p \in ps |-> Without(published[p], b)]
               d == Written(draft, outD)
               calls == <<[draft |-> outD, published |-> outP]>> \o <<Removal(DraftsOf(d, b))>> IN
           \E e : Leads(fresh, Both(published, draft), calls, e) /\ Sound(e.pub, e.dra, fresh)
  <1> DEFINE drafts == DraftParents(draft, b)
             outD == [p \in drafts |-> Without(draft[p], b)]
             outP == [p \in ps |-> Without(published[p], b)]
             call == [draft |-> outD, published |-> outP]
             D == Left(draft, drafts, b)
             P == Left(published, ps, b)
             S == DraftsOf(D, b)
  <1>1. /\ Built(published, Blocks, Versions) /\ Built(draft, Drafted, Versions)
        /\ Fit(published, draft, fresh) /\ InPlace(published, draft, {})
    BY ReadyIs
  <1>2. drafts \subseteq Existing(draft) /\ \A c \in Existing(draft) \ drafts : b \notin draft[c].kids
    BY DEF DraftParents
  <1>3. /\ Built(D, Drafted, Versions) /\ Existing(D) = Existing(draft)
        /\ (\A c \in Drafted \ drafts : D[c] = draft[c])
        /\ \A c \in drafts : D[c].kids = draft[c].kids \ {b}
    <2> HIDE DEF drafts
    <2> QED
      BY <1>1, <1>2, LeftIs, Drafted \subseteq Blocks DEF Blocks
  <1>4. /\ Built(P, Blocks, Versions) /\ Existing(P) = Existing(published)
        /\ (\A c \in Blocks \ ps : P[c] = published[c])
        /\ \A c \in ps : P[c].kids = published[c].kids \ {b}
    BY <1>1, LeftIs
  <1>5. Existing(draft) \subseteq Drafted /\ Existing(published) \subseteq Blocks
        /\ ps \cap Drafted = {}
    BY <1>1, KidsOf, CategoriesAssumption, Drafted \subseteq Blocks DEF Blocks
  <1>6. call \in Calls(Versions)
    <2>1. outD \in SomeOf(Drafted, Doc)
      <3> HIDE DEF drafts
      <3> QED
        BY <1>1, <1>2, OutOfSome, Drafted \subseteq Blocks DEF Blocks
    <2>2. outP \in SomeOf(Sections, Doc)
      <3>1. \A p \in ps : published[p] \in DocOf(p) /\ p \in Blocks
        BY <1>1, BuiltIs
      <3>2. \A p \in ps : outP[p] \in DocOf(p)
        BY <3>1, WithDoc
      <3>3. outP \in [ps -> Doc]
        BY <3>2 DEF DocOf
      <3> HIDE DEF outP
      <3> QED
        BY <3>2, <3>3, WrittenIs, ps \in SUBSET Sections, Sections \subseteq Blocks DEF Blocks
    <2>3. call \in Calls(Doc)
      <3> HIDE DEF outD, outP
      <3> QED
        BY <2>1, <2>2 DEF Calls
    <2> HIDE DEF call
    <2> QED
      BY <2>3, SavesAreCalls
  <1>7. Made(Both(published, draft), call) = Both(P, D)
    BY DEF Made, Both, Left
  <1>9. Leads(fresh, Both(published, draft), <<call>>, Both(P, D))
    <2>1. Both(published, draft).pub = published /\ Both(published, draft).dra = draft
      BY DEF Both
    <2> HIDE DEF call, P, D
    <2>2. Fit(Both(published, draft).pub, Both(published, draft).dra, fresh)
      BY <1>1, <2>1
    <2> QED
      BY <1>7, <2>2, LeadsOne
  <1>10. <<Removal(S)>> = <<Removal(DraftsOf(Written(draft, outD), b))>>
    BY DEF Left
  <1> HIDE DEF call, P, D, drafts
  <1>11. S = Below(D, {b})
         /\ (b \in Existing(D) => \A k \in Existing(D) : k = b \/ k \in D[b].kids => k \in S)
    BY OwnBelow DEF DraftsOf
  <1> HIDE DEF S
  <1>12. Fit(P, D, fresh) /\ InPlace(P, D, S)
    <2>1. \A c \in Drafted : P[c] = published[c]
      BY <1>4, <1>5 DEF Blocks
    <2>2. \A c \in Existing(published) : P[c].kids \subseteq published[c].kids
      BY <1>4, <1>5
    <2>3. \A c \in Existing(draft) : D[c].kids = draft[c].kids \/ D[c].kids = draft[c].kids \ {b}
      BY <1>3, <1>5
    <2>4. /\ Fit(P, D, fresh) /\ Top(P) \subseteq Top(published)
          /\ Upper(P, D) \subseteq Upper(published, draft)
          /\ Kids(P, Top(P)) \subseteq Kids(published, Top(published))
      <3>1. \A c \in Existing(draft) : D[c].kids \subseteq draft[c].kids
        BY <2>3
      <3> QED
        BY <1>1, <1>3, <1>4, <2>1, <2>2, <3>1, FewerFit
    <2>5. Top(published) \ {b} \subseteq Top(P)
      <3> SUFFICES ASSUME NEW k \in Top(published), k # b PROVE k \in Top(P)
        OBVIOUS
      <3>1. PICK q \in Sections \cap Existing(published) : k \in published[q].kids
        BY <1>1, TopIs
      <3>2. q \in Existing(P) /\ k \in P[q].kids
        BY <1>4, <1>5, <3>1
      <3> QED
        BY <1>4, <3>1, <3>2, TopIs
    <2>6. Known(P, D) \subseteq Known(published, draft)
      BY <2>4 DEF Known
    <2>7. \A x, y \in Existing(published) : \A k :
             k \in published[x].kids /\ k \in published[y].kids => x = y
      BY OnceListed DEF Ready
    <2>8. Taken(published, draft, b, P, D, S)
      BY <1>1, <1>3, <1>4, <1>11, <2>1, <2>3, <2>4, <2>5, <2>6 DEF Taken
    <2> QED
      BY <1>1, <2>4, <2>7, <2>8, TakenInPlace
  <1>13. PICK e : Leads(fresh, Both(P, D), <<Removal(S)>>, e) /\ Sound(e.pub, e.dra, fresh)
    <2>1. \A k \in {b} \cap Existing(D) :
             k \in Existing(P) \/ \A c \in Existing(D) : k \notin D[c].kids
      BY <1>2, <1>3, <1>5
    <2> QED
      BY <1>11, <1>12, <2>1, RemovalLeads
  <1>14. <<Removal(S)>> \in Seq(Calls(Versions)) /\ <<call>> \in Seq(Calls(Versions))
    <2>1. S \subseteq Drafted
      BY <1>3, <1>5, <1>11, BelowExists
    <2> QED
      BY <1>6, <2>1, RemovalCall
  <1> DEFINE first == <<call>>  last == <<Removal(S)>>
  <1>15. Leads(fresh, Both(published, draft), first \o last, e)
    <2>1. /\ first \in Seq(Calls(Versions)) /\ last \in Seq(Calls(Versions))
          /\ Leads(fresh, Both(published, draft), first, Both(P, D)) /\ Leads(fresh, Both(P, D), last, e)
      BY <1>9, <1>13, <1>14
    <2> HIDE DEF first, last
    <2> QED
      BY <2>1, LeadsOn
  <1> QED
    BY <1>10, <1>13, <1>15 DEF call, drafts, S, D

\* A deletion from a published parent, which gets a draft.
LEMMA DeleteAtLeads ==
    ASSUME Ready, NEW b \in Shown \cap Drafted, NEW p \in PublishedParents(b),
           PublishedParents(b) \cap Sections = {}, DraftParents(draft, b) = {},
           NEW D, D = Converted(draft, p), b \in D[p].kids,
           NEW doc, doc = Without(D[p], b)
    PROVE  LET calls == Convert(draft, p) \o <<Put(p, doc)>>
                        \o <<Removal(DraftsOf(Replaced(D, p, doc), b))>> IN
           \E e : Leads(fresh, Both(published, draft), calls, e) /\ Sound(e.pub, e.dra, fresh)
  <1> DEFINE E == Replaced(D, p, doc)
             S == DraftsOf(E, b)
             c1 == Convert(draft, p)
             c2 == <<Put(p, doc)>>
             c3 == <<Removal(S)>>
  <1>1. /\ Stored /\ Built(published, Blocks, Versions) /\ Built(draft, Drafted, Versions)
        /\ Sound(published, draft, fresh) /\ Fit(published, draft, fresh)
    BY ReadyIs
  <1>2. /\ p \in Existing(published) /\ b \in published[p].kids /\ p \in Drafted
        /\ \A c \in Existing(draft) : b \notin draft[c].kids
    BY <1>1, KidsOf DEF PublishedParents, DraftParents, Blocks
  <1>3. Sections \cup Drafted = Blocks /\ Drafted \subseteq Blocks
    BY DEF Blocks
  <1>4. p \notin Existing(draft)
    <2>1. CASE p \in Existing(draft)
      <3>1. More(draft, D)
        BY <1>1, <2>1, ConvertedOver
      <3> QED
        BY <1>2, <2>1, <3>1 DEF More
    <2> QED
      BY <2>1
  <1>5. p \in Upper(published, draft)
    <2>1. b \notin Units
      <3>1. \A x \in Existing(published) : x \in Drafted => published[x].kids \cap Units = {}
        BY <1>1, KidsOf, CategoriesAssumption DEF Drafted
      <3> QED
        BY <1>2, <3>1
    <2>2. p \in FoundParents(draft, b)
      BY DEF FoundParents
    <2> QED
      BY <1>4, <2>1, <2>2, MovedFrom DEF Drafted
  <1>6. /\ Leads(fresh, Both(published, draft), c1, Both(published, D))
        /\ Sound(published, D, fresh) /\ Fit(published, D, fresh)
        /\ More(draft, D) /\ p \in Existing(D)
        /\ D[p] = published[p] /\ c1 \in Seq(Calls(Doc))
    BY <1>1, <1>2, <1>4, <1>5, ConvertLeads, ConvertedSound, ConvertSaves
  <1>7. doc \in DocOf(p) /\ doc.kids = D[p].kids \ {b}
    <2>1. D[p] \in DocOf(p) /\ p \in Blocks
      BY <1>1, <1>2, <1>3, <1>6, BuiltIs
    <2> QED
      BY <2>1, WithDoc DEF Without, DocOf, Doc
  <1>8. /\ Built(D, Drafted, Versions) /\ Built(E, Drafted, Versions) /\ Existing(E) = Existing(D)
        /\ (\A c \in Existing(D) \ {p} : E[c] = D[c]) /\ E[p] = doc /\ Existing(D) \subseteq Drafted
    <2>1. Built(D, Drafted, Versions)
      BY <1>6 DEF More
    <2> QED
      BY <1>6, <1>7, <2>1, DraftReplaced
  <1>9. Leads(fresh, Both(published, D), c2, Both(published, E)) /\ c2 \in Seq(Calls(Doc))
    <2>1. Made(Both(published, D), Put(p, doc)) = Both(published, E)
      BY <1>1, <1>2, <1>7, <1>8, PutMakes
    <2>2. Both(published, D).pub = published /\ Both(published, D).dra = D
      BY DEF Both
    <2>3. Fit(Both(published, D).pub, Both(published, D).dra, fresh)
      BY <1>6, <2>2
    <2>4. Put(p, doc) \in Calls(Doc)
      BY <1>2, <1>3, <1>7, PutCall
    <2> HIDE DEF E
    <2> QED
      BY <2>1, <2>3, <2>4, LeadsOne
  <1> HIDE DEF E
  <1>10. /\ S = Below(E, {b}) /\ S \subseteq Drafted
         /\ b \in Existing(E) => \A k \in Existing(E) : k = b \/ k \in E[b].kids => k \in S
    BY <1>8, OwnBelow, BelowExists DEF DraftsOf
  <1> HIDE DEF S
  <1>11. Fit(published, E, fresh) /\ InPlace(published, E, S)
    <2>1. \A c \in Existing(D) : E[c].kids = D[c].kids \/ E[c].kids = D[c].kids \ {b}
      BY <1>7, <1>8
    <2>2. /\ Fit(published, E, fresh) /\ Upper(published, E) \subseteq Upper(published, D)
      <3>1. \A c \in Existing(D) : E[c].kids \subseteq D[c].kids
        BY <2>1
      <3> QED
        BY <1>1, <1>6, <1>8, <3>1, FewerFit
    <2>3. Known(published, E) \subseteq Known(published, D)
      BY <2>2 DEF Known
    <2>4. \A x, y \in Existing(published) : \A k :
             k \in published[x].kids /\ k \in published[y].kids => x = y
      BY OnceListed DEF Ready
    <2>5. InPlace(published, D, {})
      BY <1>6 DEF Sound
    <2>6. Taken(published, D, b, published, E, S)
      BY <1>1, <1>8, <1>10, <2>1, <2>3 DEF Taken
    <2> QED
      BY <2>2, <2>4, <2>5, <2>6, TakenInPlace
  <1>12. \A c \in Existing(E) : b \notin E[c].kids
    <2> SUFFICES ASSUME NEW c \in Existing(E), b \in E[c].kids PROVE FALSE
      OBVIOUS
    <2>1. c # p /\ c \in Existing(D) /\ b \in D[c].kids
      BY <1>7, <1>8
    <2>2. c \in Existing(published) /\ b \in published[c].kids
      BY <1>2, <1>6, <2>1 DEF More
    <2> QED
      BY <1>2, <2>1, <2>2, OnceListed DEF Ready
  <1>13. PICK e : Leads(fresh, Both(published, E), c3, e) /\ Sound(e.pub, e.dra, fresh)
    BY <1>10, <1>11, <1>12, RemovalLeads
  <1>14. c3 \in Seq(Calls(Versions))
    BY <1>10, RemovalCall
  <1>15. Leads(fresh, Both(published, draft), c1 \o c2 \o c3, e)
    <2>1. c1 \in Seq(Calls(Versions)) /\ c2 \in Seq(Calls(Versions))
      BY <1>6, <1>9, SavesInSeq
    <2> HIDE DEF c1, c2, c3
    <2> DEFINE c12 == c1 \o c2
    <2>2. Leads(fresh, Both(published, draft), c12, Both(published, E)) /\ c12 \in Seq(Calls(Versions))
      BY <1>6, <1>9, <2>1, LeadsOn
    <2> HIDE DEF c12
    <2>3. Leads(fresh, Both(published, draft), c12 \o c3, e)
      BY <1>13, <1>14, <2>2, LeadsOn
    <2> QED
      BY <2>3 DEF c12
  <1> QED
    BY <1>13, <1>15 DEF E, S

\* A deletion, in its three cases.
LEMMA DeleteLeads ==
    ASSUME Ready, NEW b \in Shown \cap Drafted, Delete(b)
    PROVE  \E calls : Start(calls) /\ Leading(calls)
  <1> DEFINE sections == PublishedParents(b) \cap Sections
             drafts == DraftParents(draft, b)
             both == b \in Existing(draft) \cap Existing(published)
             found(calls) == \E e : /\ Leads(fresh, Both(published, draft), calls, e)
                                    /\ Sound(e.pub, e.dra, fresh)
  <1>1. SUFFICES \E calls : Start(calls) /\ found(calls)
    <2>1. fresh' = fresh
      BY DEF Delete
    <2> QED
      BY <2>1 DEF Leading
  <1> HIDE DEF found
  <1>2. CASE sections \cup drafts # {}
    <2> DEFINE ps == IF both THEN {} ELSE sections
               outD == [p \in drafts |-> Without(draft[p], b)]
               outP == [p \in ps |-> Without(published[p], b)]
               d == Written(draft, outD)
               calls == <<[draft |-> outD, published |-> outP]>> \o <<Removal(DraftsOf(d, b))>>
    <2>1. Start(calls)
      BY <1>2 DEF Delete
    <2>2. ps \subseteq Sections \cap Existing(published)
      BY DEF PublishedParents
    <2>3. found(calls)
      <3> HIDE DEF ps
      <3> QED
        BY <2>2, DeleteFromLeads DEF found
    <2> HIDE DEF calls
    <2> QED
      BY <2>1, <2>3
  <1>3. CASE sections \cup drafts = {} /\ PublishedParents(b) = {}
    <2> DEFINE S == DraftsOf(draft, b)
    <2>1. Start(<<Removal(S)>>)
      BY <1>3 DEF Delete
    <2>2. S = Below(draft, {b})
      BY DEF DraftsOf
    <2>3. Fit(published, draft, fresh) /\ InPlace(published, draft, S)
      BY ReadyIs DEF InPlace
    <2>4. \A c \in Existing(draft) : b \notin draft[c].kids
      BY <1>3 DEF DraftParents
    <2> HIDE DEF S
    <2>5. found(<<Removal(S)>>)
      BY <2>2, <2>3, <2>4, RemovalLeads DEF found
    <2> QED
      BY <2>1, <2>5
  <1>4. CASE sections \cup drafts = {} /\ PublishedParents(b) # {}
    <2>1. PICK p \in PublishedParents(b) :
             /\ b \in Converted(draft, p)[p].kids
             /\ Start(Convert(draft, p) \o <<Put(p, Without(Converted(draft, p)[p], b))>>
                      \o <<Removal(DraftsOf([Converted(draft, p) EXCEPT
                                                ![p] = Without(Converted(draft, p)[p], b)], b))>>)
      BY <1>4 DEF Delete
    <2> DEFINE D == Converted(draft, p)
               doc == Without(D[p], b)
               calls == Convert(draft, p) \o <<Put(p, doc)>>
                        \o <<Removal(DraftsOf(Replaced(D, p, doc), b))>>
    <2>2. Start(calls)
      BY <2>1 DEF Replaced
    <2>3. found(calls)
      <3>1. sections = {} /\ drafts = {} /\ b \in D[p].kids
        BY <1>4, <2>1
      <3> QED
        BY <3>1, DeleteAtLeads DEF found
    <2> HIDE DEF calls
    <2> QED
      BY <2>2, <2>3
  <1> QED
    BY <1>2, <1>3, <1>4

-----------------------------------------------------------------------------
(***************************************************************************)
(* The stores stay sound, but for the holes a publish makes.               *)
(***************************************************************************)
WholeWith(P, D, F, j) ==
    /\ j.op = "idle" => Sound(P, D, F)
    /\ j.op = "save" => \E e : Leads(F, Both(P, D), j.calls, e) /\ Sound(e.pub, e.dra, F)
    /\ j.op = "refused" => \E e : Leads(F, Both(P, D), j.calls, e) /\ Fit(e.pub, e.dra, F)
    /\ j.op = "publish" => Steady(P, D, F) /\ Holes(P, D, j.left)

\* The values are bound so that a prime reaches the variables.
Whole == \E P, D, F, j : /\ P = published /\ D = draft /\ F = fresh /\ j = job
                         /\ WholeWith(P, D, F, j)

\* It is WholeWith of the state, and primed of the next one.
LEMMA WholeIs == Whole <=> WholeWith(published, draft, fresh, job)
  BY DEF Whole

LEMMA WholeNext == Whole' <=> WholeWith(published', draft', fresh', job')
  BY DEF Whole

\* What every step has to leave.
WholeAfter == WholeWith(published', draft', fresh', job')

\* A request has made out its calls.
LEMMA StartWhole ==
    ASSUME NEW calls, UNCHANGED <<published, draft>>,
           \/ Start(calls) /\ Leading(calls)
           \/ Refused(calls) /\ Refusing(calls)
    PROVE  WholeAfter
  <1>1. published' = published /\ draft' = draft
    OBVIOUS
  <1>2. CASE Start(calls) /\ Leading(calls)
    <2>1. job'.op = "save" /\ job'.calls = calls
      BY <1>2 DEF Start
    <2> QED
      BY <1>1, <1>2, <2>1 DEF WholeAfter, WholeWith, Leading
  <1>3. CASE Refused(calls) /\ Refusing(calls)
    <2>1. job'.op = "refused" /\ job'.calls = calls
      BY <1>3 DEF Refused
    <2> QED
      BY <1>1, <1>3, <2>1 DEF WholeAfter, WholeWith, Refusing
  <1> QED
    BY <1>2, <1>3

\* The blocks that are deleted with an orphan are no sections.
LEMMA OrphanTree ==
    ASSUME Ready, NEW b \in Drafted
    PROVE  LET both == [c \in Blocks |-> [kids |-> Kids(draft, {c}) \cup Kids(published, {c})]]
               S == UNION Range(Tiers(both, {b})) IN S \cap Sections = {}
  <1> DEFINE both == [c \in Blocks |-> [kids |-> Kids(draft, {c}) \cup Kids(published, {c})]]
             T == {b}
             A == Kids(both, T)  B == Kids(both, A)  C == Kids(both, B)
             S == UNION Range(Tiers(both, {b}))
  <1>1. \A c \in Blocks : both[c].kids \subseteq Drafted
    <2> SUFFICES ASSUME NEW c \in Blocks
                 PROVE  Kids(draft, {c}) \subseteq Drafted /\ Kids(published, {c}) \subseteq Drafted
      OBVIOUS
    <2>1. \A k \in Kids(draft, {c}) : \E x \in Existing(draft) : k \in draft[x].kids
      BY DEF Kids
    <2>2. \A k \in Kids(published, {c}) : \E x \in Existing(published) : k \in published[x].kids
      BY DEF Kids
    <2> QED
      BY <2>1, <2>2, ReadyIs, KidsOf
  <1>2. Existing(both) \subseteq Blocks
    BY DEF Existing
  <1>3. S = T \cup A \cup B \cup C
    <2>1. S = Reach(both, T)
      BY DEF Reach
    <2> HIDE DEF both, T, S
    <2> QED
      BY <2>1, TiersIs
  <1> HIDE DEF both
  <1>4. \A X : Kids(both, X) \subseteq Drafted
    BY <1>1, <1>2 DEF Kids
  <1>5. S \subseteq Drafted
    BY <1>3, <1>4
  <1> QED
    BY <1>5, CategoriesAssumption DEF both

\* Blocks are deleted that only each other list.
LEMMA OrphanWhole ==
    ASSUME Ready, job = Idle, NEW b \in Drafted, DeleteOrphan(b), "orphans" \notin lost'
    PROVE  WholeAfter
  <1>1. PICK S :
          /\ draft' = [c \in Drafted |-> IF c \in S THEN None ELSE draft[c]]
          /\ published' = [c \in Blocks |-> IF c \in S THEN None ELSE published[c]]
          /\ lost' = IF \E c \in S : ~(DraftParents(draft, c) \cup PublishedParents(c) \subseteq S)
                     THEN lost \cup {"orphans"} ELSE lost
          /\ fresh' = fresh /\ job' = job /\ S \cap Sections = {}
    BY OrphanTree DEF DeleteOrphan
  <1>2. /\ Built(published, Blocks, Versions) /\ Built(draft, Drafted, Versions)
        /\ Sound(published, draft, fresh)
    BY ReadyIs
  <1>3. Built(published', Blocks, Versions) /\ Built(draft', Drafted, Versions)
    BY <1>1, <1>2, RemovedBuilt
  <1>4. /\ Existing(published') = Existing(published) \ S /\ Existing(draft') = Existing(draft) \ S
        /\ (\A c \in Existing(published') : published'[c] = published[c])
        /\ \A c \in Existing(draft') : draft'[c] = draft[c]
    BY <1>1, <1>2 DEF Existing, Built
  <1>5. \A c \in S, x \in Blocks : Lists(published, draft, x, c) => x \in S
    BY <1>1 DEF Lists, DraftParents, PublishedParents
  <1>6. Sound(published', draft', fresh)
    BY <1>1, <1>2, <1>3, <1>4, <1>5, OrphanSound
  <1>7. job'.op = "idle"
    BY <1>1 DEF Idle
  <1> QED
    BY <1>1, <1>6, <1>7 DEF WholeAfter, WholeWith

\* A publish has begun.
LEMMA PublishWhole ==
    ASSUME Ready, NEW b, Publish(b)
    PROVE  WholeAfter
  <1>1. job'.op = "publish" /\ published' = published /\ draft' = draft /\ fresh' = fresh
    BY DEF Publish
  <1>2. Steady(published, draft, fresh) /\ Holes(published, draft, job'.left)
    BY DEF Ready, Sound, Fit, Steady, AllThere, Holes
  <1> QED
    BY <1>1, <1>2 DEF WholeAfter, WholeWith

\* What a publish at work has to go by.
Publishing ==
    /\ TypeInv /\ PublishState /\ "publish" \notin lost /\ (\A b \in Blocks : ~Twice(b))
    /\ job.op = "publish"
    /\ Steady(published, draft, fresh) /\ Holes(published, draft, job.left)

\* A publish makes a hole that its block, not saved yet, accounts for.
LEMMA PublishDeletesWhole ==
    ASSUME Publishing, NEW b \in job.left, PublishDeletes(b), "publish" \notin lost'
    PROVE  WholeAfter
  <1>0. PICK c \in Deleted(b) : \E S :
          /\ S = Below(published, {c})
          /\ published' = [k \in Blocks |-> IF k \in S THEN None ELSE published[k]]
          /\ lost' = IF S \cap Shown # {} THEN lost \cup {"publish"} ELSE lost
    BY DEF PublishDeletes
  <1>1. PICK S :
          /\ S = Below(published, {c})
          /\ published' = [k \in Blocks |-> IF k \in S THEN None ELSE published[k]]
          /\ lost' = IF S \cap Shown # {} THEN lost \cup {"publish"} ELSE lost
    BY <1>0
  <1>2. S \cap Shown = {} /\ draft' = draft /\ fresh' = fresh /\ job' = job
    BY <1>1 DEF PublishDeletes
  <1>3. Stored /\ Built(published, Blocks, Versions)
    BY DEF Publishing, TypeInv, Stored
  <1>4. b \in Existing(published) /\ c \in published[b].kids \ draft[b].kids
    BY DEF Deleted, Dropped
  <1>5. \A x, y \in Existing(published) : \A k : k \in published[x].kids /\ k \in published[y].kids => x = y
    BY OnceListed DEF Publishing
  <1>6. S \subseteq Existing(published)
    BY <1>1, BelowExists
  <1>7. S \cap Top(published) = {}
    BY <1>2, <1>3, <1>6, ShownParts
  <1>8. \A x \in Upper(published, draft), k \in S : ~Sees(published, draft, x, k)
    BY <1>2, <1>3, <1>6, ShownParts
  <1>9. Built(published', Blocks, Versions)
    BY <1>1, <1>3, RemovedBuilt
  <1>10. /\ Existing(published') = Existing(published) \ S
         /\ \A k \in Existing(published') : published'[k] = published[k]
    BY <1>1, <1>3 DEF Existing, Built
  <1> DEFINE Q == published'
  <1>11. Steady(Q, draft, fresh) /\ Holes(Q, draft, job.left)
    <2>1. Built(Q, Blocks, Versions) /\ Existing(Q) = Existing(published) \ S
          /\ \A k \in Existing(Q) : Q[k] = published[k]
      BY <1>9, <1>10
    <2> HIDE DEF Q
    <2> QED
      BY <1>1, <1>4, <1>5, <1>7, <1>8, <2>1, DeletedSteady DEF Publishing
  <1> QED
    BY <1>2, <1>11 DEF WholeAfter, WholeWith, Publishing

\* A child of a block of the tree of a section or unit is in it.
LEMMA ChildBelow ==
    ASSUME NEW f, Built(f, Blocks, Versions), NEW r \in Sections \cup Units,
           NEW x \in Below(f, {r}), NEW k \in f[x].kids, k \in Existing(f)
    PROVE  k \in Below(f, {r})
  <1> DEFINE S == {r}
             A == Kids(f, S)  B == Kids(f, A)  C == Kids(f, B)
  <1>1. Below(f, S) = (S \cup A \cup B \cup C) \cap Existing(f)
    BY TiersIs DEF Below, Reach
  <1>2. A \subseteq Units \cup Groups \cup Components
    <2>1. A \subseteq IF r \in Existing(f) THEN f[r].kids ELSE {}
      BY DEF Kids
    <2>2. r \in Existing(f) => f[r].kids \subseteq Units \cup Groups \cup Components
      BY KidsOf DEF Drafted
    <2> HIDE DEF A
    <2> QED
      BY <2>1, <2>2
  <1>3. B \subseteq Groups \cup Components
    <2>1. r \in Sections => A \subseteq Units
      <3>1. A \subseteq Kids(f, Sections) \/ r \notin Sections
        BY DEF Kids
      <3> HIDE DEF A
      <3> QED
        BY <3>1, Levels
    <2>2. r \in Units => A \subseteq Groups \cup Components
      <3>1. A \subseteq Kids(f, Units) \/ r \notin Units
        BY DEF Kids
      <3> HIDE DEF A
      <3> QED
        BY <3>1, Levels
    <2> HIDE DEF A
    <2>3. A \subseteq Units => Kids(f, A) \subseteq Groups \cup Components
      BY Levels
    <2>4. A \subseteq Groups \cup Components => Kids(f, A) \subseteq Components
      BY Levels
    <2> QED
      BY <2>1, <2>2, <2>3, <2>4
  <1>4. C \subseteq Components
    <2> HIDE DEF B
    <2> QED
      BY <1>3, Levels
  <1>5. \A X, y : y \in X \cap Existing(f) => f[y].kids \subseteq Kids(f, X)
    BY DEF Kids
  <1> HIDE DEF A, B, C
  <1>6. x \notin C
    <2>1. x \in Components => f[x].kids = {}
      BY <1>1, KidsOf
    <2> QED
      BY <1>4, <2>1
  <1>7. x \in S \/ x \in A \/ x \in B
    BY <1>1, <1>6
  <1>8. k \in A \/ k \in B \/ k \in C
    BY <1>1, <1>5, <1>7 DEF A, B, C
  <1> QED
    BY <1>1, <1>8

\* The children of the next block to publish are published.
LEMMA NextHasItsChildren ==
    ASSUME Publishing, NEW b \in job.left, b \in NextToPublish
    PROVE  b \in Existing(draft) /\ draft[b].kids \subseteq Existing(published)
  <1> DEFINE W == Working(draft)
             R == {job.root}
  <1>1. /\ Stored /\ Built(published, Blocks, Versions) /\ Built(draft, Drafted, Versions)
        /\ Built(W, Blocks, Versions) /\ Existing(W) = Existing(draft) \cup Existing(published)
    BY WorkingBuilt, WorkingExists DEF Publishing, TypeInv, Stored
  <1>2. /\ job.root \in Shown /\ job.root \in Sections \cup Units
        /\ job.drafts = Below(W, R) \cap Existing(draft)
        /\ (\A c \in job.drafts \ job.left : published[c] = draft[c])
        /\ b \in job.drafts
    BY JobIs DEF Publishing, PublishState, TypeInv
  <1>3. b \in Existing(draft) /\ b \in Below(W, R) /\ b \in Drafted /\ b \in Blocks
    BY <1>1, <1>2, KidsOf, Drafted \subseteq Blocks DEF Blocks
  <1>4. W[b] = draft[b]
    BY <1>3 DEF Working
  <1> HIDE DEF W
  <1>5. b \in Shown
    <2>1. Below(W, R) \subseteq Below(W, Sections)
      <3>1. Reach(W, {job.root}) \subseteq Reach(W, Sections)
        BY <1>1, <1>2, RootReach DEF Shown, W
      <3> QED
        BY <3>1 DEF Below, Reach
    <2> QED
      BY <1>3, <2>1 DEF Shown, W
  <1>6. draft[b].kids \subseteq Existing(draft) \cup Existing(published)
    <2>1. CASE b \in Components
      BY <1>1, <1>3, <2>1, KidsOf, Drafted \subseteq Blocks DEF Blocks
    <2>2. CASE b \in Units \cup Groups
      <3>1. b \in Upper(published, draft)
        BY <1>1, <1>5, <2>2, ShownParts, UpperIs
      <3> QED
        BY <1>3, <3>1 DEF Publishing, Steady, Tidy, DraftsThere
    <2> QED
      BY <1>3, <2>1, <2>2 DEF Drafted
  <1>7. ASSUME NEW k \in draft[b].kids, k \in Existing(draft) PROVE k \in Existing(published)
    <2>1. k \in Below(W, R)
      <3>1. k \in Existing(W) /\ k \in W[b].kids
        BY <1>1, <1>4, <1>7
      <3> QED
        BY <1>1, <1>2, <1>3, <3>1, ChildBelow
    <2>2. k \in job.drafts
      BY <1>2, <1>7, <2>1
    <2>3. k \notin job.left
      <3> DEFINE T == draft[b].kids
      <3>1. Below(W, T) \cap job.left = {}
        BY DEF NextToPublish, W
      <3>2. T \cap Existing(W) \subseteq Below(W, T)
        <4> HIDE DEF T
        <4> QED
          BY TiersIs DEF Below, Reach
      <3>3. k \in T /\ k \in Existing(W)
        BY <1>1, <1>7
      <3> HIDE DEF T
      <3> QED
        BY <3>1, <3>2, <3>3
    <2>4. published[k] = draft[k] /\ draft[k] # None
      BY <1>2, <1>7, <2>2, <2>3 DEF Existing
    <2>5. k \in Blocks
      BY <1>1, <1>7, KidsOf, Drafted \subseteq Blocks DEF Blocks
    <2> QED
      BY <1>1, <2>4, <2>5 DEF Existing, Built
  <1> QED
    BY <1>3, <1>6, <1>7

\* It saves a block, whose hole it closes.
LEMMA PublishBlockWhole ==
    ASSUME Publishing, NEW b \in job.left, PublishBlock(b)
    PROVE  WholeAfter
  <1> DEFINE doc == draft[b]
             Q == Replaced(published, b, doc)
  <1>1. Built(published, Blocks, Versions) /\ Built(draft, Drafted, Versions)
        /\ Drafted \subseteq Blocks /\ b \in job.left /\ job.left \subseteq Drafted
    BY JobIs DEF Publishing, TypeInv, Stored, Blocks
  <1>2. b \in Existing(draft) /\ doc.kids \subseteq Existing(published)
    BY NextHasItsChildren DEF PublishBlock
  <1>3. doc \in DocOf(b)
    BY <1>1, <1>2, BuiltIs
  <1> HIDE DEF doc
  <1>4. /\ Built(Q, Blocks, Versions) /\ Existing(Q) = Existing(published) \cup {b}
        /\ (\A c \in Blocks \ {b} : Q[c] = published[c]) /\ Q[b] = doc
    BY <1>1, <1>3, ExceptIs
  <1> HIDE DEF Q
  <1>5. \A k \in Existing(published) \ {b} : Q[k] = published[k]
    BY <1>1, <1>4, KidsOf
  <1>6. Steady(Q, draft, fresh) /\ Holes(Q, draft, job.left \ {b})
    BY <1>2, <1>4, <1>5, PublishedSteady DEF Publishing, doc
  <1>7. published' = Q /\ draft' = draft /\ fresh' = fresh
        /\ job'.op = "publish" /\ job'.left = job.left \ {b}
    <2>1. job = [op |-> "publish", root |-> job.root, left |-> job.left, drafts |-> job.drafts]
      BY JobIs DEF Publishing, TypeInv
    <2> QED
      BY <2>1 DEF PublishBlock, Q, doc, Replaced
  <1> QED
    BY <1>6, <1>7 DEF WholeAfter, WholeWith

\* And ends without holes.
LEMMA PublishEndsWhole ==
    ASSUME Publishing, PublishEnds
    PROVE  WholeAfter
  <1> DEFINE S == job.drafts
  <1>1. Built(draft, Drafted, Versions) /\ Holes(published, draft, {})
    BY DEF Publishing, TypeInv, Stored, PublishEnds
  <1>2. S \subseteq Existing(draft) /\ \A c \in S : published[c] = draft[c]
    BY DEF Publishing, PublishState, PublishEnds
  <1>3. /\ draft' = [b \in Drafted |-> IF b \in S THEN None ELSE draft[b]]
        /\ published' = published /\ fresh' = fresh /\ job'.op = "idle"
    BY DEF PublishEnds, Idle
  <1>4. Built(draft', Drafted, Versions)
    BY <1>1, <1>3, RemovedBuilt
  <1>5. /\ Existing(draft') = Existing(draft) \ S
        /\ \A c \in Existing(draft') : draft'[c] = draft[c]
    BY <1>1, <1>3 DEF Existing, Built
  <1> DEFINE E == draft'
  <1>6. Sound(published, E, fresh)
    <2>1. /\ Built(E, Drafted, Versions) /\ Existing(E) = Existing(draft) \ S
          /\ \A c \in Existing(E) : E[c] = draft[c]
      BY <1>4, <1>5
    <2> HIDE DEF E, S
    <2> QED
      BY <1>1, <1>2, <2>1, EndedSound DEF Publishing
  <1> QED
    BY <1>3, <1>6 DEF WholeAfter, WholeWith

\* What a request that saves, or is refused half way, has to go by.
Saving == /\ TypeInv /\ job.op \in {"save", "refused"}
          /\ \E e : /\ Leads(fresh, Both(published, draft), job.calls, e)
                    /\ Fit(e.pub, e.dra, fresh)
                    /\ job.op = "save" => Sound(e.pub, e.dra, fresh)

\* The next call of a request leads on.
LEMMA CallWhole ==
    ASSUME Saving, job.calls # <<>>, Call
    PROVE  WholeAfter
  <1> DEFINE call == Head(job.calls)
             s == Both(published, draft)
  <1>1. PICK e : /\ Leads(fresh, s, job.calls, e) /\ Fit(e.pub, e.dra, fresh)
                 /\ job.op = "save" => Sound(e.pub, e.dra, fresh)
    BY DEF Saving
  <1>2. /\ job = [op |-> job.op, calls |-> job.calls] /\ job.op \in {"save", "refused"}
        /\ job.calls \in Seq(Calls(Versions)) /\ job.calls # <<>>
    BY JobIs DEF Saving, TypeInv
  <1>3. Made(s, call) = Both(published', draft')
    BY DEF Call, Made, Both
  <1>4. fresh' = fresh /\ job' = IF Len(job.calls) = 1 /\ job.op = "save"
                                THEN Idle ELSE [job EXCEPT !.calls = Tail(@)]
    BY DEF Call
  <1> HIDE DEF s
  <1>5. /\ Leads(fresh, Made(s, call), Tail(job.calls), e)
        /\ Len(job.calls) = 1 => Made(s, call) = e
    BY <1>1, <1>2, LeadsFrom
  <1> HIDE DEF call
  <1>6. CASE Len(job.calls) = 1 /\ job.op = "save"
    <2>1. e.pub = published' /\ e.dra = draft'
      BY <1>3, <1>5, <1>6 DEF Both
    <2>2. job'.op = "idle"
      BY <1>4, <1>6 DEF Idle
    <2> QED
      BY <1>1, <1>4, <1>6, <2>1, <2>2 DEF WholeAfter, WholeWith
  <1>7. CASE ~(Len(job.calls) = 1 /\ job.op = "save")
    <2>1. job'.op = job.op /\ job'.calls = Tail(job.calls)
      BY <1>2, <1>4, <1>7
    <2> QED
      BY <1>1, <1>2, <1>3, <1>4, <1>5, <2>1 DEF WholeAfter, WholeWith
  <1> QED
    BY <1>6, <1>7

\* Before each call of a request, and after the last one, the stores are fit.
LEMMA SavingFit ==
    ASSUME Saving
    PROVE  Fit(published, draft, fresh)
  <1> DEFINE s == Both(published, draft)
  <1>1. PICK e : Leads(fresh, s, job.calls, e) /\ Fit(e.pub, e.dra, fresh)
    BY DEF Saving
  <1>2. s.pub = published /\ s.dra = draft
    BY DEF Both
  <1> HIDE DEF s
  <1>3. CASE job.calls = <<>>
    <2>1. Len(job.calls) = 0
      BY <1>3
    <2>2. s = e
      BY <1>1, <2>1 DEF Leads
    <2> QED
      BY <1>1, <1>2, <2>2
  <1>4. CASE job.calls # <<>>
    <2>1. job.calls \in Seq(Calls(Versions))
      BY JobIs DEF Saving, TypeInv
    <2>2. Fit(s.pub, s.dra, fresh)
      BY <1>1, <1>4, <2>1, LeadsFrom
    <2> QED
      BY <1>2, <2>2
  <1> QED
    BY <1>3, <1>4

\* A request that dies, or is refused, has left sound stores, if no group is loose.
LEMMA SaveDiesWhole ==
    ASSUME Saving, Dies, UNCHANGED <<published, draft, fresh>>, died' # "torn"
    PROVE  WholeAfter
  <1>1. Loose = {}
    BY DEF Dies
  <1>2. Stored
    BY DEF Saving, TypeInv
  <1>3. Sound(published, draft, fresh)
    BY <1>1, <1>2, SavingFit, NoneLoose
  <1>4. published' = published /\ draft' = draft /\ fresh' = fresh /\ job'.op = "idle"
    BY DEF Dies, Idle
  <1> QED
    BY <1>3, <1>4 DEF WholeAfter, WholeWith

\* A publish that dies without a hole leaves sound stores.
LEMMA PublishDiesWhole ==
    ASSUME Publishing, Dies, UNCHANGED <<published, draft, fresh>>, died' # "torn"
    PROVE  WholeAfter
  <1>1. \A b \in job.left : Dropped(b) \subseteq Existing(published)
    BY DEF Dies, Tearing, Publishing
  <1>2. AllThere(published)
    BY <1>1 DEF AllThere, Publishing, Holes, Dropped
  <1>3. Sound(published, draft, fresh)
    BY <1>2 DEF Sound, Fit, Steady, Publishing
  <1>4. published' = published /\ draft' = draft /\ fresh' = fresh /\ job'.op = "idle"
    BY DEF Dies, Idle
  <1> QED
    BY <1>3, <1>4 DEF WholeAfter, WholeWith

-----------------------------------------------------------------------------
\* At first every list is of published blocks.
LEMMA WholeInit == Init /\ Promised => Whole
  <1> SUFFICES ASSUME Init, Promised PROVE Whole
    OBVIOUS
  <1>1. TypeInv /\ \A b \in Blocks : ~Twice(b)
    BY TypeInit DEF Promised
  <1>2. Built(published, Blocks, Versions) /\ Built(draft, Drafted, Versions)
    BY <1>1 DEF TypeInv, Stored
  <1>3. Existing(draft) = {} /\ fresh = Fresh /\ job = Idle
    BY DEF Init, Existing
  <1>4. \A b \in Blocks : published[b] = IF b \in Fresh THEN None ELSE [kids |-> InitialTree[b], data |-> Blank]
    BY DEF Init
  <1>5. DOMAIN published = Blocks /\ \A b \in Blocks \ Fresh : InitialTree[b] \subseteq Blocks \ Fresh
    BY TreeAssumption DEF Init
  <1>6. Existing(published) = Blocks \ Fresh
        /\ \A b \in Blocks \ Fresh : published[b].kids = InitialTree[b]
    <2>1. \A b \in Blocks \ Fresh : [kids |-> InitialTree[b], data |-> Blank] \in Doc
      BY <1>5, ContentsAssumption DEF Doc
    <2>2. \A b \in Blocks \ Fresh : [kids |-> InitialTree[b], data |-> Blank] # None
      BY <2>1, DocIs
    <2> QED
      BY <1>4, <1>5, <2>2 DEF Existing
  <1>7. \A b \in Existing(published) : published[b].kids \subseteq Existing(published)
    BY <1>5, <1>6
  <1>8. AllThere(published) /\ DraftsThere(published, draft) /\ OneLister(published, draft)
    BY <1>3, <1>7 DEF AllThere, DraftsThere, OneLister
  <1>9. InPlace(published, draft, {})
    BY <1>3 DEF InPlace
  <1>10. Unused(published, draft, fresh)
    BY <1>3, <1>6, <1>7 DEF Unused, Lists
  <1>11. Sound(published, draft, fresh)
    BY <1>2, <1>8, <1>9, <1>10 DEF Sound, Fit, Tidy
  <1> QED
    BY <1>3, <1>11, WholeIs DEF WholeWith, Idle

\* Every step that keeps the promise keeps the stores.
LEMMA WholeStep ==
    TypeInv /\ PublishState /\ Whole /\ Promised /\ Promised' /\ [Next]_vars => Whole'
  <1> SUFFICES ASSUME TypeInv, PublishState, Whole, Promised, Promised', [Next]_vars PROVE WholeAfter
    BY WholeNext DEF WholeAfter
  <1>1. WholeWith(published, draft, fresh, job)
    BY WholeIs
  <1>2. lost = {} /\ lost' = {} /\ died' # "torn" /\ \A b \in Blocks : ~Twice(b)
    BY DEF Promised
  <1>3. CASE UNCHANGED vars
    BY <1>1, <1>3 DEF vars, WholeAfter
  <1>4. job = Idle => Ready
    BY <1>1, <1>2 DEF Ready, WholeWith, Idle
  <1>5. job.op \in {"save", "refused"} => Saving
    BY <1>1 DEF Saving, WholeWith, Sound
  <1>6. job.op = "publish" => Publishing
    BY <1>1, <1>2 DEF Publishing, WholeWith
  <1>7. ASSUME UNCHANGED <<published, draft>>,
               \E calls : \/ Start(calls) /\ Leading(calls)
                          \/ Refused(calls) /\ Refusing(calls)
        PROVE  WholeAfter
    BY <1>7, StartWhole
  <1>8. ASSUME job = Idle, NEW b \in Shown \cap Components, NEW v \in Contents, Edit(b, v) PROVE WholeAfter
    <2>1. UNCHANGED <<published, draft>>
      BY <1>8 DEF Edit
    <2> QED
      BY <1>4, <1>7, <1>8, <2>1, EditLeads
  <1>9. ASSUME job = Idle, NEW b \in fresh, NEW p \in Shown, Create(b, p) PROVE WholeAfter
    <2>1. UNCHANGED <<published, draft>>
      BY <1>9 DEF Create
    <2> QED
      BY <1>4, <1>7, <1>9, <2>1, CreateLeads
  <1>10. ASSUME job = Idle, NEW b \in Shown \cap Drafted, NEW t \in Shown, Move(b, t) PROVE WholeAfter
    <2>1. UNCHANGED <<published, draft>>
      BY <1>10 DEF Move
    <2> QED
      BY <1>4, <1>7, <1>10, <2>1, MoveLeads
  <1>11. ASSUME job = Idle, NEW b \in Shown \cap Drafted, Delete(b) PROVE WholeAfter
    <2>1. UNCHANGED <<published, draft>>
      BY <1>11 DEF Delete
    <2> QED
      BY <1>4, <1>7, <1>11, <2>1, DeleteLeads
  <1>12. ASSUME job = Idle, NEW b \in Drafted, DeleteOrphan(b) PROVE WholeAfter
    BY <1>2, <1>4, <1>12, OrphanWhole
  <1>13. ASSUME job = Idle, NEW b, Discard(b) PROVE WholeAfter
    <2>1. UNCHANGED <<published, draft>>
      BY <1>13 DEF Discard
    <2> QED
      BY <1>4, <1>7, <1>13, <2>1, DiscardLeads
  <1>14. ASSUME job = Idle, NEW b, Publish(b) PROVE WholeAfter
    BY <1>4, <1>14, PublishWhole
  <1>15. CASE job.op \in {"save", "refused"} /\ job.calls # <<>> /\ Call
    BY <1>5, <1>15, CallWhole
  <1>16. CASE job.op = "publish" /\ PublishEnds
    BY <1>6, <1>16, PublishEndsWhole
  <1>17. ASSUME job.op = "publish", NEW b \in job.left, PublishDeletes(b) PROVE WholeAfter
    BY <1>2, <1>6, <1>17, PublishDeletesWhole
  <1>18. ASSUME job.op = "publish", NEW b \in job.left, PublishBlock(b) PROVE WholeAfter
    BY <1>6, <1>18, PublishBlockWhole
  <1>19. CASE Dies /\ UNCHANGED <<published, draft, fresh, lost>>
    <2>1. CASE job.op \in {"save", "refused"}
      BY <1>2, <1>5, <1>19, <2>1, SaveDiesWhole
    <2>2. CASE job.op = "publish"
      BY <1>2, <1>6, <1>19, <2>2, PublishDiesWhole
    <2>3. CASE job.op = "idle"
      <3>1. job'.op = "idle" /\ published' = published /\ draft' = draft /\ fresh' = fresh
        BY <1>19 DEF Dies, Idle
      <3> QED
        BY <1>1, <2>3, <3>1 DEF WholeAfter, WholeWith
    <2> QED
      BY <2>1, <2>2, <2>3, JobIs DEF TypeInv
  <1>20. CASE Next
    BY <1>8, <1>9, <1>10, <1>11, <1>12, <1>13, <1>14, <1>15, <1>16, <1>17, <1>18, <1>19, <1>20, Steps
  <1> QED
    BY <1>3, <1>20

\* The published blocks are all there, whatever request is at work, but for what a
\* publish has deleted.
LEMMA WholeHoles ==
    ASSUME TypeInv, Whole
    PROVE  Holes(published, draft, IF job.op = "publish" THEN job.left ELSE {})
  <1>1. WholeWith(published, draft, fresh, job)
    BY WholeIs
  <1>2. CASE job.op = "idle"
    BY <1>1, <1>2, NoHoles DEF WholeWith, Sound, Fit
  <1>3. CASE job.op \in {"save", "refused"}
    <2>1. Saving
      BY <1>1, <1>3 DEF Saving, WholeWith, Sound
    <2> QED
      BY <1>3, <2>1, SavingFit, NoHoles DEF Fit
  <1>4. CASE job.op = "publish"
    BY <1>1, <1>4 DEF WholeWith
  <1> QED
    BY <1>2, <1>3, <1>4, JobIs DEF TypeInv

\* A hole is at a block that a publish is tearing.
LEMMA WholeGivesWhole == TypeInv /\ Whole => WholeForStudents
  BY WholeHoles DEF Holes, WholeForStudents, Below, Tearing, Dropped

\* A draft without a published version would make a hole in a block without a draft.
LEMMA WholeGivesAssertion == TypeInv /\ PublishState /\ Whole => AssertionHolds
  <1> SUFFICES ASSUME TypeInv, PublishState, Whole, Promised,
                      NEW b \in Units \cap Existing(published),
                      NEW x \in Reverted(b) \cap Existing(draft), x \notin Existing(published)
               PROVE  FALSE
    BY DEF AssertionHolds
  <1> DEFINE f == [c \in Blocks \ Existing(draft) |-> published[c]]
             S == {b}
             A == Kids(f, S)  B == Kids(f, A)  C == Kids(f, B)
  <1>1. Built(published, Blocks, Versions) /\ Existing(published) \subseteq Blocks
    BY KidsOf DEF TypeInv, Stored
  <1>2. Existing(f) = Existing(published) \ Existing(draft)
        /\ \A c \in Existing(f) : f[c] = published[c]
    BY <1>1 DEF Existing, Built
  <1>3. Built(f, Blocks \ Existing(draft), Versions)
    BY <1>1 DEF Built, WellBuilt, Existing
  <1> HIDE DEF f
  <1>4. Reach(f, S) = S \cup A \cup B \cup C
    BY TiersIs
  <1>5. Reach(f, S) \subseteq Drafted
    <2>1. b \in Drafted /\ Blocks \ Existing(draft) \subseteq Blocks
      BY DEF Drafted
    <2> QED
      BY <1>3, <2>1, DraftedTiers
  <1>6. x \in Reach(f, S) /\ x # b
    BY DEF Reverted, Reach, f
  <1>7. \A X : x \in Kids(f, X) => \E y \in X \cap Existing(f) : x \in f[y].kids
    BY DEF Kids
  <1>8. PICK y \in Reach(f, S) \cap Existing(f) : x \in f[y].kids
    <2>1. x \in A \/ x \in B \/ x \in C
      BY <1>4, <1>6
    <2> HIDE DEF S
    <2>2. x \in A => \E y \in S \cap Existing(f) : x \in f[y].kids
      BY <1>7
    <2> HIDE DEF A
    <2>3. x \in B => \E y \in A \cap Existing(f) : x \in f[y].kids
      BY <1>7
    <2> HIDE DEF B
    <2>4. x \in C => \E y \in B \cap Existing(f) : x \in f[y].kids
      BY <1>7
    <2> QED
      BY <1>4, <2>1, <2>2, <2>3, <2>4
  <1>9. y \in Drafted /\ y \in Existing(published) /\ y \notin Existing(draft) /\ x \in published[y].kids
    BY <1>2, <1>5, <1>8
  <1>10. job.op = "publish" /\ y \in job.left
    BY <1>9, WholeHoles DEF Holes
  <1>11. job.left \subseteq Existing(draft)
    BY <1>10 DEF PublishState, Promised, TypeInv
  <1> QED
    BY <1>9, <1>10, <1>11

\* They are so as long as the promise holds.
LEMMA WholePromised == Spec /\ []Promised => [](TypeInv /\ PublishState /\ Whole)
  BY WholeInit, WholeStep, Published, PTL DEF Spec

\* While no block is in two published lists, nothing was lost by a publish or with an
\* orphan, no publish has died with a child deleted, and no request has died or was
\* refused with a group loose, students find every child of the units and groups they
\* are shown, whatever else the author asks for: edits, creations, moves of units,
\* groups and components, discards, deletions and publishes (mongo/draft.py, item.py).
THEOREM WholeWhilePromised == Spec /\ []Promised => []WholeForStudents
  BY WholePromised, WholeGivesWhole, PTL

\* And as long a discard comes to no block that has a draft and no published version
\* (mongo/draft.py:revert_to_published).
THEOREM AssertionHoldsWhilePromised == Spec /\ []Promised => []AssertionHolds
  BY WholePromised, WholeGivesAssertion, PTL

=============================================================================
