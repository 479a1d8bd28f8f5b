-------------------------- MODULE Certificates_proofs --------------------------
(***************************************************************************)
(* Theorems about Certificates, for any number of windows, of executions   *)
(* of add_cert and of requests to the agent.                               *)
(***************************************************************************)
EXTENDS CertificatesProps, TLAPS

-----------------------------------------------------------------------------
(***************************************************************************)
(* Types.                                                                  *)
(***************************************************************************)
\* An execution of add_cert that holds a row it will save, or has saved.
Holding(a) == adder[a].pc \notin {"idle", "regen"}

\* It has a request to send, or has sent one, for the key it has drawn.
Requesting(a) == Holding(a) /\ adder[a].pc # "save"

Phases == {"save", "save_send", "send", "send_commit", "commit"}

\* What a request is made of: its row is being generated and its key was drawn.
RequestsDrawn ==
    /\ \A a \in Adders : Requesting(a) => /\ adder[a].new.status = "generating"
                                          /\ adder[a].new.key \in 1..drawn
    /\ \A a \in Adders : adder[a].pc = "save" => adder[a].new.status # "generating"
    /\ answer # Idle => answer.new.status # "generating"

\* Types need that a key is drawn before it is sent, and what photo verification
\* promises holds before and after every step.
TypeInv == TypeOK /\ Vouched /\ RequestsDrawn

-----------------------------------------------------------------------------
(***************************************************************************)
(* The copies of the row.                                                  *)
(***************************************************************************)
\* The row and every copy of it that may be saved.
Copies == {cert} \cup {adder[a].new : a \in {b \in Adders : Holding(b)}}
                 \cup IF answer = Idle THEN {} ELSE {answer.new}

\* What holds of each copy on its own: a verified one was earned, a request has
\* the template that was named for it or that of its mode, and so has a file.
Sound(x) ==
    /\ x.mode = "verified" => earned = Windows \cup {Initial}
    /\ x.key <= drawn
    /\ x.status = "generating" =>
           x.key # 0 /\ template[x.key] \in {"none", TemplatePdf(x.key, x.mode)}
    /\ x.status = "downloadable" =>
           x.pdf # 0 /\ template[x.pdf] = TemplatePdf(x.pdf, x.mode)

\* Two copies that are generated under one key are of one mode.
Agree(x, y) ==
    x.status = "generating" /\ y.status = "generating" /\ x.key = y.key => x.mode = y.mode

CopyInv ==
    /\ \A x \in Copies : Sound(x)
    /\ \A x, y \in Copies : Agree(x, y)
    /\ \A k \in pending : template[k] # "none"
    /\ \A k \in 1..MaxKeys : k > drawn => template[k] = "none" /\ k \notin named

-----------------------------------------------------------------------------
(***************************************************************************)
(* Types are kept.                                                         *)
(***************************************************************************)
\* An execution that holds a row is a record of the type.
LEMMA HoldingTypes ==
    ASSUME TypeOK, NEW a \in Adders, Holding(a)
    PROVE  adder[a] \in [pc : Phases, new : Certificate]
  <1>1. adder[a] \in {Idle, [pc |-> "regen"]} \cup [pc : Phases, new : Certificate]
    BY DEF TypeOK, Phases
  <1>2. adder[a] # Idle /\ adder[a] # [pc |-> "regen"]
    BY DEF Holding, Idle
  <1> QED
    BY <1>1, <1>2

\* An answer that is being processed, too.
LEMMA AnswerTypes ==
    ASSUME TypeOK, answer # Idle
    PROVE  answer \in [pc : {"save"}, new : Certificate]
  BY DEF TypeOK

\* A step that leaves photo verification alone.
SameIdentity == UNCHANGED <<verified, reverified, earned>>

\* A command names a template file for no request but the one it is drawing.
Naming == named' \in {named, named \cup (drawn + 1)..drawn'}

\* The keys drawn are a bounded number.
LEMMA DrawnTypes ==
    ASSUME TypeOK
    PROVE  drawn \in Nat /\ MaxKeys \in Nat /\ drawn <= MaxKeys
  <1>1. drawn \in 0..MaxKeys
    BY DEF TypeOK
  <1> QED
    BY <1>1, MaxKeysAssumption

\* Grading leaves its execution with a row to save: of the next key and to be
\* generated, or of the key there was and not to be.
Graded(a, pc, new) ==
    /\ new \in Certificate
    /\ new.mode = "verified" => verified /\ reverified
    /\ \/ /\ drawn < MaxKeys /\ drawn' = drawn + 1
          /\ new.status = "generating" /\ new.key = drawn'
          /\ adder' = [adder EXCEPT ![a] = [pc |-> pc, new |-> new]]
       \/ /\ drawn' = drawn
          /\ new.status \in {"notpassing", "restricted"} /\ new.key = cert.key
          /\ adder' = [adder EXCEPT ![a] = [pc |-> "save", new |-> new]]

LEMMA GradeEffect ==
    ASSUME TypeOK, NEW a \in Adders, NEW pc, Grade(a, pc)
    PROVE  \E new \in Certificate : Graded(a, pc, new)
  <1>1. PICK enrolled \in Modes :
           LET graded == [cert EXCEPT !.mode = CertMode(enrolled)] IN
             \/ /\ drawn < MaxKeys
                /\ drawn' = drawn + 1
                /\ adder' = [adder EXCEPT ![a] =
                       [pc |-> pc, new |-> [graded EXCEPT !.status = "generating", !.key = drawn']]]
             \/ \E status \in {"notpassing", "restricted"} :
                   /\ adder' = [adder EXCEPT ![a] =
                          [pc |-> "save", new |-> [graded EXCEPT !.status = status]]]
                   /\ UNCHANGED drawn
    BY DEF Grade
  <1> DEFINE mode == CertMode(enrolled)
             graded == [cert EXCEPT !.mode = mode]
             left(status) == [graded EXCEPT !.status = status]
             asked == [graded EXCEPT !.status = "generating", !.key = drawn']
  <1>2. mode \in Modes /\ (mode = "verified" => verified /\ reverified)
    BY DEF CertMode, Modes
  <1>3. cert \in Certificate /\ drawn \in 0..MaxKeys
    BY DEF TypeOK
  <1>4. graded \in Certificate /\ graded.mode = mode /\ graded.key = cert.key
    BY <1>2, <1>3 DEF Certificate
  <1> HIDE DEF graded
  <1>5. CASE /\ drawn < MaxKeys /\ drawn' = drawn + 1
             /\ adder' = [adder EXCEPT ![a] = [pc |-> pc, new |-> asked]]
    <2>1. drawn' \in 0..MaxKeys
      BY <1>3, <1>5, MaxKeysAssumption
    <2>2. /\ asked \in Certificate /\ asked.mode = mode
          /\ asked.status = "generating" /\ asked.key = drawn'
      BY <1>4, <2>1 DEF Certificate, CertStatus
    <2> QED
      BY <1>2, <1>5, <2>2 DEF Graded
  <1>6. CASE \E status \in {"notpassing", "restricted"} :
                 /\ adder' = [adder EXCEPT ![a] = [pc |-> "save", new |-> left(status)]]
                 /\ drawn' = drawn
    <2>1. PICK status \in {"notpassing", "restricted"} :
             adder' = [adder EXCEPT ![a] = [pc |-> "save", new |-> left(status)]]
      BY <1>6
    <2>2. /\ left(status) \in Certificate /\ left(status).mode = mode
          /\ left(status).status = status /\ left(status).key = cert.key
      BY <1>4 DEF Certificate, CertStatus
    <2> QED
      BY <1>2, <1>6, <2>1, <2>2 DEF Graded
  <1> QED
    BY <1>1, <1>5, <1>6 DEF graded

\* Initially nothing is under way.
LEMMA TypeInit == Init => TypeInv
  <1> SUFFICES ASSUME Init PROVE TypeInv
    OBVIOUS
  <1>1. cert \in Certificate /\ drawn \in 0..MaxKeys
    BY MaxKeysAssumption DEF Init, Certificate, CertStatus, Modes
  <1>2. IdentityType /\ Vouched
    BY DEF Init, IdentityInit, IdentityType, Vouched
  <1>3. TypeOK
    BY <1>1, <1>2 DEF Init, TypeOK
  <1>4. answer = Idle /\ \A a \in Adders : adder[a].pc = "idle"
    BY DEF Init, Idle
  <1> QED
    BY <1>2, <1>3, <1>4 DEF TypeInv, RequestsDrawn, Requesting, Holding

\* Replacing one execution keeps the types if what replaces it is right.
LEMMA AdderStep ==
    ASSUME TypeInv, NEW a \in Adders, NEW r, adder' = [adder EXCEPT ![a] = r],
           r \in {Idle, [pc |-> "regen"]} \cup [pc : Phases, new : Certificate],
           r.pc \in {"save_send", "send", "send_commit", "commit"} =>
               r.new.status = "generating" /\ r.new.key \in 1..drawn',
           r.pc = "save" => r.new.status # "generating",
           SameIdentity, answer' = answer, cert' \in Certificate,
           template' \in [1..MaxKeys -> Modes \cup {"given", "none"}],
           pending' \in SUBSET (1..MaxKeys), astray' \in SUBSET (1..MaxKeys),
           named' \in SUBSET (1..MaxKeys),
           drawn' \in 0..MaxKeys, drawn <= drawn'
    PROVE  TypeInv'
  <1> USE DEF TypeInv
  <1>1. adder \in [Adders -> {Idle, [pc |-> "regen"]} \cup [pc : Phases, new : Certificate]]
    BY DEF TypeOK, Phases
  <1>2. TypeOK'
    BY <1>1 DEF TypeOK, SameIdentity, IdentityType, Phases
  <1>3. Vouched'
    BY DEF Vouched, SameIdentity
  <1>4. r.pc \in {"idle", "regen"} \cup Phases
    <2>1. CASE r \in {Idle, [pc |-> "regen"]}
      <3>1. Idle.pc = "idle" /\ [pc |-> "regen"].pc = "regen"
        BY DEF Idle
      <3> QED
        BY <2>1, <3>1
    <2>2. CASE r \in [pc : Phases, new : Certificate]
      BY <2>2
    <2> QED
      BY <2>1, <2>2
  <1>5. \A b \in Adders : Requesting(b)' => /\ adder'[b].new.status = "generating"
                                            /\ adder'[b].new.key \in 1..drawn'
    <2>1. SUFFICES ASSUME NEW b \in Adders, Requesting(b)'
                   PROVE  adder'[b].new.status = "generating" /\ adder'[b].new.key \in 1..drawn'
      OBVIOUS
    <2>2. CASE b = a
      <3>1. adder'[b] = r
        BY <1>1, <2>2
      <3> QED
        BY <1>4, <2>1, <3>1 DEF Requesting, Holding, Phases
    <2>3. CASE b # a
      <3>1. adder'[b] = adder[b]
        BY <1>1, <2>3
      <3>2. adder[b].new.status = "generating" /\ adder[b].new.key \in 1..drawn
        BY <2>1, <3>1 DEF Requesting, Holding, RequestsDrawn
      <3>3. drawn \in Nat
        BY DrawnTypes
      <3> QED
        BY <3>1, <3>2, <3>3
    <2> QED
      BY <2>2, <2>3
  <1>6. \A b \in Adders : adder'[b].pc = "save" => adder'[b].new.status # "generating"
    BY <1>1 DEF RequestsDrawn
  <1> QED
    BY <1>2, <1>3, <1>5, <1>6 DEF RequestsDrawn

\* The row that grading leaves is a step of that kind.
LEMMA GradedTypes ==
    ASSUME TypeInv, NEW a \in Adders, NEW pc \in {"save_send", "send_commit"},
           NEW new \in Certificate, Graded(a, pc, new),
           SameIdentity, Naming, UNCHANGED <<cert, template, pending, answer, astray>>
    PROVE  TypeInv'
  <1>1. drawn' \in 0..MaxKeys /\ drawn <= drawn'
    <2>1. drawn \in Nat /\ MaxKeys \in Nat /\ drawn <= MaxKeys
      BY DrawnTypes DEF TypeInv
    <2>2. drawn' = drawn \/ (drawn < MaxKeys /\ drawn' = drawn + 1)
      BY DEF Graded
    <2> QED
      BY <2>1, <2>2
  <1>2. /\ cert' \in Certificate /\ template' \in [1..MaxKeys -> Modes \cup {"given", "none"}]
        /\ pending' \in SUBSET (1..MaxKeys) /\ astray' \in SUBSET (1..MaxKeys)
        /\ named' \in SUBSET (1..MaxKeys)
    <2>1. (drawn + 1)..drawn' \subseteq 1..MaxKeys
      BY <1>1, DrawnTypes DEF TypeInv
    <2> QED
      BY <2>1 DEF Naming, TypeInv, TypeOK
  <1>3. CASE /\ drawn' = drawn + 1 /\ new.status = "generating" /\ new.key = drawn'
             /\ adder' = [adder EXCEPT ![a] = [pc |-> pc, new |-> new]]
    <2> DEFINE r == [pc |-> pc, new |-> new]
    <2>1. r \in [pc : Phases, new : Certificate] /\ r.pc # "save" /\ r.new = new
      BY DEF Phases
    <2>2. drawn \in Nat
      BY DrawnTypes DEF TypeInv
    <2>3. new.key \in 1..drawn'
      BY <1>3, <2>2
    <2> HIDE DEF r
    <2> QED
      BY <1>1, <1>2, <1>3, <2>1, <2>3, AdderStep DEF r
  <1>4. CASE /\ new.status \in {"notpassing", "restricted"}
             /\ adder' = [adder EXCEPT ![a] = [pc |-> "save", new |-> new]]
    <2> DEFINE r == [pc |-> "save", new |-> new]
    <2>1. r \in [pc : Phases, new : Certificate] /\ r.pc = "save" /\ r.new = new
      BY DEF Phases
    <2> HIDE DEF r
    <2> QED
      BY <1>1, <1>2, <1>4, <2>1, AdderStep DEF r
  <1> QED
    BY <1>3, <1>4 DEF Graded

\* Every step keeps the types.
LEMMA TypeNext == TypeInv /\ [Next]_vars => TypeInv'
  <1> SUFFICES ASSUME TypeInv, [Next]_vars PROVE TypeInv'
    OBVIOUS
  <1>1. /\ TypeOK /\ cert \in Certificate /\ drawn \in 0..MaxKeys
        /\ template \in [1..MaxKeys -> Modes \cup {"given", "none"}]
        /\ pending \in SUBSET (1..MaxKeys) /\ astray \in SUBSET (1..MaxKeys)
        /\ named \in SUBSET (1..MaxKeys) /\ drawn <= drawn /\ 1..drawn \subseteq 1..MaxKeys
    <2>1. drawn \in Nat /\ MaxKeys \in Nat /\ drawn <= MaxKeys
      BY DrawnTypes DEF TypeInv
    <2>2. drawn <= drawn /\ 1..drawn \subseteq 1..MaxKeys
      BY <2>1
    <2> QED
      BY <2>2 DEF TypeInv, TypeOK
  <1>2. \A x \in Certificate, status \in CertStatus :
            /\ [x EXCEPT !.status = status] \in Certificate
            /\ [x EXCEPT !.status = status].status = status
    BY DEF Certificate
  <1> DEFINE Started(r) == r \in {Idle, [pc |-> "regen"]} /\ r.pc \in {"idle", "regen"}
  <1>3. Started(Idle) /\ Started([pc |-> "regen"])
    BY DEF Idle
  <1>4. ASSUME NEW a \in Adders, UngeneratedCerts(a) \/ RegenAdds(a) \/ RequestCertificate(a)
        PROVE  TypeInv'
    <2>1. PICK pc \in {"save_send", "send_commit"} :
             /\ Grade(a, pc) /\ SameIdentity /\ Naming
             /\ UNCHANGED <<cert, template, pending, answer, astray>>
      BY <1>4 DEF Naming, SameIdentity, identity, UngeneratedCerts, RegenAdds, RequestCertificate
    <2> QED
      BY <1>1, <2>1, GradeEffect, GradedTypes
  <1>5. ASSUME NEW a \in Adders, RegenCert(a)
        PROVE  TypeInv'
    <2>1. cert' \in Certificate
      BY <1>1, <1>2, <1>5 DEF RegenCert, CertStatus
    <2>2. /\ adder' = [adder EXCEPT ![a] = [pc |-> "regen"]]
          /\ SameIdentity /\ answer' = answer /\ drawn' = drawn
          /\ UNCHANGED <<template, pending, named, astray>>
      BY <1>5 DEF RegenCert, SameIdentity, identity
    <2> QED
      BY <1>1, <1>3, <2>1, <2>2, AdderStep
  <1>6. ASSUME NEW a \in Adders, adder[a].pc = "save_send", SaveCert(a)
        PROVE  TypeInv'
    <2> DEFINE r == [adder[a] EXCEPT !.pc = "send"]
    <2>1. adder[a] \in [pc : Phases, new : Certificate] /\ Requesting(a)
      BY <1>1, <1>6, HoldingTypes DEF Holding, Requesting
    <2>2. r \in [pc : Phases, new : Certificate] /\ r.pc = "send" /\ r.new = adder[a].new
      BY <2>1 DEF Phases
    <2>3. adder[a].new.status = "generating" /\ adder[a].new.key \in 1..drawn
      BY <2>1 DEF TypeInv, RequestsDrawn
    <2>4. /\ adder' = [adder EXCEPT ![a] = r] /\ cert' = adder[a].new
          /\ SameIdentity /\ answer' = answer /\ drawn' = drawn
          /\ UNCHANGED <<template, pending, named, astray>>
      BY <1>6 DEF SaveCert, SameIdentity, identity
    <2> HIDE DEF r
    <2> QED
      BY <1>1, <2>1, <2>2, <2>3, <2>4, AdderStep
  <1>7. ASSUME NEW a \in Adders, adder[a].pc # "save_send", SaveCert(a)
        PROVE  TypeInv'
    <2>1. adder[a] \in [pc : Phases, new : Certificate]
      BY <1>1, <1>7, HoldingTypes DEF SaveCert, Holding
    <2>2. adder[a].pc = "commit" => adder[a].new.key \in 1..drawn
      BY DEF TypeInv, RequestsDrawn, Requesting, Holding
    <2>3. astray' \in SUBSET (1..MaxKeys)
      BY <1>1, <1>7, <2>2 DEF SaveCert
    <2>4. /\ adder' = [adder EXCEPT ![a] = Idle] /\ cert' = adder[a].new
          /\ SameIdentity /\ answer' = answer /\ drawn' = drawn
          /\ UNCHANGED <<template, pending, named>>
      BY <1>7 DEF SaveCert, SameIdentity, identity
    <2> QED
      BY <1>1, <1>3, <2>1, <2>3, <2>4, AdderStep
  <1>8. ASSUME NEW a \in Adders, adder[a].pc \in {"send", "send_commit"}, Send(a)
        PROVE  /\ adder[a] \in [pc : Phases, new : Certificate] /\ Requesting(a)
               /\ adder[a].new.status = "generating" /\ adder[a].new.key \in 1..drawn
               /\ template' \in [1..MaxKeys -> Modes \cup {"given", "none"}]
               /\ pending' \in SUBSET (1..MaxKeys)
    <2>1. adder[a] \in [pc : Phases, new : Certificate] /\ Requesting(a)
      BY <1>1, <1>8, HoldingTypes DEF Holding, Requesting
    <2>2. adder[a].new.status = "generating" /\ adder[a].new.key \in 1..drawn
      BY <2>1 DEF TypeInv, RequestsDrawn
    <2>3. TemplatePdf(adder[a].new.key, adder[a].new.mode) \in Modes \cup {"given"}
      BY <2>1 DEF Certificate, TemplatePdf
    <2> QED
      BY <1>1, <1>8, <2>1, <2>2, <2>3 DEF Send
  <1>9. ASSUME NEW a \in Adders, CommandSends(a)
        PROVE  TypeInv'
    <2>1. /\ adder' = [adder EXCEPT ![a] = Idle] /\ UNCHANGED <<cert, named, astray>>
          /\ SameIdentity /\ answer' = answer /\ drawn' = drawn
      BY <1>9 DEF CommandSends, SameIdentity, identity
    <2>2. template' \in [1..MaxKeys -> Modes \cup {"given", "none"}] /\ pending' \in SUBSET (1..MaxKeys)
      BY <1>8, <1>9 DEF CommandSends
    <2> QED
      BY <1>1, <1>3, <2>1, <2>2, AdderStep
  <1>10. ASSUME NEW a \in Adders, RequestSends(a)
         PROVE  TypeInv'
    <2> DEFINE r == [adder[a] EXCEPT !.pc = "commit"]
    <2>1. /\ adder[a] \in [pc : Phases, new : Certificate]
          /\ adder[a].new.status = "generating" /\ adder[a].new.key \in 1..drawn
          /\ template' \in [1..MaxKeys -> Modes \cup {"given", "none"}] /\ pending' \in SUBSET (1..MaxKeys)
      BY <1>8, <1>10 DEF RequestSends
    <2>2. r \in [pc : Phases, new : Certificate] /\ r.pc = "commit" /\ r.new = adder[a].new
      BY <2>1 DEF Phases
    <2>3. /\ adder' = [adder EXCEPT ![a] = r] /\ UNCHANGED <<cert, named, astray>>
          /\ SameIdentity /\ answer' = answer /\ drawn' = drawn
      BY <1>10 DEF RequestSends, SameIdentity, identity
    <2> HIDE DEF r
    <2> QED
      BY <1>1, <2>1, <2>2, <2>3, AdderStep
  <1>11. ASSUME NEW a \in Adders, AddDies(a)
         PROVE  TypeInv'
    <2>1. adder[a].pc = "send" => adder[a].new.key \in 1..drawn
      BY DEF TypeInv, RequestsDrawn, Requesting, Holding
    <2>2. astray' \in SUBSET (1..MaxKeys)
      BY <1>1, <1>11, <2>1 DEF AddDies
    <2>3. /\ adder' = [adder EXCEPT ![a] = Idle] /\ UNCHANGED <<cert, template, pending, named>>
          /\ SameIdentity /\ answer' = answer /\ drawn' = drawn
      BY <1>11 DEF AddDies, SameIdentity, identity
    <2> QED
      BY <1>1, <1>3, <2>2, <2>3, AdderStep
  <1>12. ASSUME NEW k \in pending, NEW error \in BOOLEAN, UpdateReads(k, error)
         PROVE  TypeInv'
    <2>1. Updated(error) \in Certificate /\ Updated(error).status # "generating"
      BY <1>1 DEF Updated, Certificate, CertStatus
    <2>2. answer' \in {Idle} \cup [pc : {"save"}, new : Certificate]
          /\ (answer' # Idle => answer'.new.status # "generating")
      BY <1>12, <2>1 DEF UpdateReads
    <2> QED
      BY <1>1, <1>12, <2>2
      DEF UpdateReads, TypeInv, TypeOK, Vouched, RequestsDrawn, identity, IdentityType,
          Requesting, Holding
  <1>13. ASSUME UpdateSaves
         PROVE  TypeInv'
    <2>1. cert' \in Certificate
      BY <1>1, <1>13, AnswerTypes DEF UpdateSaves
    <2> QED
      BY <1>1, <1>13, <2>1
      DEF UpdateSaves, TypeInv, TypeOK, Vouched, RequestsDrawn, identity, IdentityType,
          Requesting, Holding
  <1>14. ASSUME IdentityNext, UNCHANGED certVars
         PROVE  TypeInv'
    BY <1>14
    DEF IdentityNext, certVars, TypeInv, TypeOK, Vouched, RequestsDrawn, IdentityType,
        Requesting, Holding
  <1>15. ASSUME UNCHANGED vars
         PROVE  TypeInv'
    BY <1>15
    DEF vars, identity, certVars, TypeInv, TypeOK, Vouched, RequestsDrawn, IdentityType,
        Requesting, Holding
  <1> QED
    BY <1>4, <1>5, <1>6, <1>7, <1>9, <1>10, <1>11, <1>12, <1>13, <1>14, <1>15 DEF Next, CertNext

\* Every variable keeps its type.
THEOREM TypeCorrect == Spec => []TypeOK
  <1>1. TypeInv => TypeOK
    BY DEF TypeInv
  <1> QED
    BY <1>1, TypeInit, TypeNext, PTL DEF Spec

-----------------------------------------------------------------------------
(***************************************************************************)
(* The copies stay sound.                                                  *)
(***************************************************************************)
\* What the copies are, and their type.
LEMMA CopyMembers ==
    ASSUME TypeOK
    PROVE  /\ cert \in Copies /\ Copies \subseteq Certificate
           /\ \A a \in Adders : Holding(a) => adder[a].new \in Copies
           /\ answer # Idle => answer.new \in Copies
  <1>1. \A a \in Adders : Holding(a) => adder[a].new \in Certificate
    BY HoldingTypes
  <1>2. answer # Idle => answer.new \in Certificate
    BY AnswerTypes
  <1> QED
    BY <1>1, <1>2 DEF Copies, TypeOK

\* A step that adds one sound copy and keeps the others and the templates.
LEMMA OneMoreCopy ==
    ASSUME TypeInv, CopyInv, NEW n, Copies' \subseteq Copies \cup {n},
           Sound(n)', \A x \in Copies : Agree(n, x),
           SameIdentity, template' = template, pending' \subseteq pending,
           drawn' \in Nat, drawn <= drawn', Naming
    PROVE  CopyInv'
  <1>1. drawn \in Nat /\ \A x \in Copies : x.key \in Nat
    BY CopyMembers, DrawnTypes DEF TypeInv, Certificate
  <1>2. \A x \in Copies : Sound(x)'
    <2>1. SUFFICES ASSUME NEW x \in Copies PROVE Sound(x)'
      OBVIOUS
    <2>2. /\ Sound(x) /\ x \in Certificate /\ x.mode \in Modes
          /\ MaxKeys \in Nat /\ drawn <= MaxKeys
      BY CopyMembers, DrawnTypes DEF CopyInv, TypeInv, Certificate
    <2>3. \A k \in 1..drawn : \A m : TemplatePdf(k, m)' = TemplatePdf(k, m)
      BY <1>1 DEF Naming, TemplatePdf
    <2>4. x.status = "generating" => x.key \in 1..drawn
      BY <1>1, <2>2 DEF Sound
    <2>5. x.status = "downloadable" => x.pdf \in 1..drawn
      <3>1. TemplatePdf(x.pdf, x.mode) # "none"
        BY <2>2 DEF TemplatePdf, Modes
      <3> QED
        BY <1>1, <2>2, <3>1 DEF CopyInv, Sound, Certificate
    <2> QED
      BY <1>1, <2>2, <2>3, <2>4, <2>5 DEF Sound, SameIdentity
  <1>3. \A x, y \in Copies \cup {n} : Agree(x, y)
    BY DEF CopyInv, Agree
  <1>4. \A k \in 1..MaxKeys : k > drawn' => template'[k] = "none" /\ k \notin named'
    BY <1>1, DrawnTypes DEF CopyInv, TypeInv, Naming
  <1> QED
    BY <1>2, <1>3, <1>4 DEF CopyInv

\* A step that adds no copy.
LEMMA NoMoreCopies ==
    ASSUME TypeInv, CopyInv, Copies' \subseteq Copies,
           SameIdentity, template' = template, pending' \subseteq pending,
           UNCHANGED <<drawn, named>>
    PROVE  CopyInv'
  <1>1. drawn \in Nat
    BY DrawnTypes DEF TypeInv
  <1>2. PICK n \in Copies : TRUE
    BY CopyMembers DEF TypeInv
  <1>3. Sound(n)'
    BY <1>2 DEF CopyInv, Sound, SameIdentity, TemplatePdf
  <1> QED
    BY <1>1, <1>2, <1>3, OneMoreCopy DEF CopyInv, Naming

\* Replacing one execution by one that holds at most n.
LEMMA AdderCopies ==
    ASSUME TypeOK, NEW a \in Adders, NEW r, adder' = [adder EXCEPT ![a] = r], NEW n,
           r.pc \in {"idle", "regen"} \/ r.new = n,
           cert' \in Copies \cup {n}, answer' = answer
    PROVE  Copies' \subseteq Copies \cup {n}
  <1>1. \A b \in Adders : Holding(b)' => adder'[b].new \in Copies \cup {n}
    <2>1. SUFFICES ASSUME NEW b \in Adders, Holding(b)'
                   PROVE  adder'[b].new \in Copies \cup {n}
      OBVIOUS
    <2>2. adder'[b] = IF b = a THEN r ELSE adder[b]
      BY DEF TypeOK
    <2> QED
      BY <2>1, <2>2, CopyMembers DEF Holding
  <1>2. answer' # Idle => answer'.new \in Copies
    BY CopyMembers
  <1>3. \A x \in Copies' : \/ x = cert'
                           \/ \E b \in Adders : Holding(b)' /\ x = adder'[b].new
                           \/ answer' # Idle /\ x = answer'.new
    BY DEF Copies
  <1> QED
    BY <1>1, <1>2, <1>3

\* Sending a request sets the template that its row and its copies are of.
LEMMA SendCopies ==
    ASSUME TypeInv, CopyInv, NEW a \in Adders, adder[a].pc \in {"send", "send_commit"}, Send(a),
           Copies' \subseteq Copies, SameIdentity, UNCHANGED <<drawn, named>>
    PROVE  CopyInv'
  <1> DEFINE m == adder[a].new
             t == TemplatePdf(m.key, m.mode)
  <1>1. Holding(a) /\ Requesting(a)
    BY DEF Holding, Requesting
  <1>2. m \in Copies /\ m \in Certificate /\ m.status = "generating" /\ m.key \in 1..drawn
    BY <1>1, CopyMembers DEF TypeInv, RequestsDrawn
  <1>3. /\ m.key \in 1..MaxKeys /\ m.mode \in Modes /\ template[m.key] \in {"none", t}
        /\ t \in Modes \cup {"given"} /\ t # "none"
    BY <1>2, DrawnTypes DEF TypeInv, CopyInv, Sound, Certificate, TemplatePdf, Modes
  <1>4. /\ template' = [template EXCEPT ![m.key] = t] /\ pending' = pending \cup {m.key}
        /\ template \in [1..MaxKeys -> Modes \cup {"given", "none"}]
    BY DEF Send, TypeInv, TypeOK
  <1> HIDE DEF m, t
  <1>5. \A k \in 1..MaxKeys : template'[k] = IF k = m.key THEN t ELSE template[k]
    BY <1>4
  <1>6. ASSUME NEW x \in Copies
        PROVE  Sound(x)'
    <2>1. Sound(x) /\ Agree(x, m) /\ x \in Certificate
      BY <1>2, CopyMembers DEF CopyInv, TypeInv
    <2>2. x.key \in 0..MaxKeys /\ x.pdf \in 0..MaxKeys /\ x.mode \in Modes
      BY <2>1 DEF Certificate
    <2>3. MaxKeys \in Nat
      BY MaxKeysAssumption
    <2>4. \A k, mode : TemplatePdf(k, mode)' = TemplatePdf(k, mode)
      BY DEF TemplatePdf
    <2>5. x.status = "generating" =>
              x.key # 0 /\ template'[x.key] \in {"none", TemplatePdf(x.key, x.mode)}
      BY <1>2, <1>5, <2>1, <2>2, <2>3 DEF Sound, Agree, t
    <2>6. x.status = "downloadable" => x.pdf # 0 /\ template'[x.pdf] = TemplatePdf(x.pdf, x.mode)
      <3>1. TemplatePdf(x.pdf, x.mode) # "none"
        BY <2>2 DEF TemplatePdf, Modes
      <3> QED
        BY <1>3, <1>5, <2>1, <2>2, <2>3, <3>1 DEF Sound
    <2> QED
      BY <2>1, <2>4, <2>5, <2>6 DEF Sound, SameIdentity
  <1>7. \A x, y \in Copies' : Agree(x, y)
    BY DEF CopyInv
  <1>8. \A k \in pending' : template'[k] # "none"
    BY <1>3, <1>4, <1>5 DEF CopyInv, TypeInv, TypeOK
  <1>9. \A k \in 1..MaxKeys : k > drawn' => template'[k] = "none" /\ k \notin named'
    <2>1. drawn \in Nat
      BY DrawnTypes DEF TypeInv
    <2> QED
      BY <1>2, <1>5, <2>1 DEF CopyInv
  <1> QED
    BY <1>6, <1>7, <1>8, <1>9 DEF CopyInv

\* Initially the only copy is the row, which is not generated.
LEMMA CopyInit == Init => CopyInv
  <1> SUFFICES ASSUME Init PROVE CopyInv
    OBVIOUS
  <1>1. \A a \in Adders : ~Holding(a)
    BY DEF Init, Holding, Idle
  <1>2. Copies = {cert}
    BY <1>1 DEF Copies, Init
  <1>3. Sound(cert) /\ Agree(cert, cert)
    BY DEF Init, Sound, Agree
  <1>4. pending = {} /\ named = {} /\ \A k \in 1..MaxKeys : template[k] = "none"
    BY DEF Init
  <1> QED
    BY <1>2, <1>3, <1>4 DEF CopyInv

\* Every step keeps the copies sound.
LEMMA CopyNext == TypeInv /\ CopyInv /\ [Next]_vars => CopyInv'
  <1> SUFFICES ASSUME TypeInv, CopyInv, [Next]_vars PROVE CopyInv'
    OBVIOUS
  <1>1. /\ TypeOK /\ cert \in Copies /\ Copies \subseteq Certificate
        /\ \A a \in Adders : Holding(a) => adder[a].new \in Copies
        /\ answer # Idle => answer.new \in Copies
        /\ drawn \in Nat /\ drawn <= MaxKeys /\ MaxKeys \in Nat
    BY CopyMembers, DrawnTypes DEF TypeInv
  <1>2. ASSUME NEW a \in Adders, UngeneratedCerts(a) \/ RegenAdds(a) \/ RequestCertificate(a)
        PROVE  CopyInv'
    <2>1. PICK pc \in {"save_send", "send_commit"} :
             /\ Grade(a, pc) /\ SameIdentity /\ Naming
             /\ UNCHANGED <<cert, template, pending, answer, astray>>
      BY <1>2 DEF Naming, SameIdentity, identity, UngeneratedCerts, RegenAdds, RequestCertificate
    <2>2. PICK n \in Certificate : Graded(a, pc, n)
      BY <1>1, <2>1, GradeEffect
    <2>3. drawn' \in Nat /\ drawn <= drawn'
      BY <1>1, <2>2 DEF Graded
    <2>4. Copies' \subseteq Copies \cup {n}
      <3>1. PICK q : adder' = [adder EXCEPT ![a] = [pc |-> q, new |-> n]]
        BY <2>2 DEF Graded
      <3>2. [pc |-> q, new |-> n].new = n
        OBVIOUS
      <3> QED
        BY <1>1, <2>1, <3>1, <3>2, AdderCopies
    <2>5. n.mode = "verified" => earned = Windows \cup {Initial}
      BY <1>1, <2>2 DEF Graded, TypeInv, Vouched, TypeOK, IdentityType
    <2>6. CASE drawn' = drawn + 1 /\ drawn < MaxKeys /\ n.status = "generating" /\ n.key = drawn'
      <3>1. template[n.key] = "none"
        BY <1>1, <2>6 DEF CopyInv
      <3>2. Sound(n)'
        BY <1>1, <2>1, <2>5, <2>6, <3>1 DEF Sound, SameIdentity
      <3>3. \A x \in Copies : Agree(n, x)
        BY <1>1, <2>6 DEF CopyInv, Sound, Agree, Certificate
      <3> QED
        BY <2>1, <2>3, <2>4, <3>2, <3>3, OneMoreCopy
    <2>7. CASE drawn' = drawn /\ n.status \in {"notpassing", "restricted"} /\ n.key = cert.key
      <3>1. Sound(n)'
        BY <1>1, <2>1, <2>5, <2>7 DEF CopyInv, Sound, SameIdentity
      <3>2. \A x \in Copies : Agree(n, x)
        BY <2>7 DEF Agree
      <3> QED
        BY <2>1, <2>3, <2>4, <3>1, <3>2, OneMoreCopy
    <2> QED
      BY <2>2, <2>6, <2>7 DEF Graded
  <1>3. ASSUME NEW a \in Adders, RegenCert(a)
        PROVE  CopyInv'
    <2> DEFINE n == [cert EXCEPT !.status = "unavailable"]
    <2>1. n.status = "unavailable" /\ n.mode = cert.mode /\ n.key = cert.key
      BY <1>1 DEF Certificate
    <2>2. /\ cert' = n /\ SameIdentity /\ answer' = answer
          /\ UNCHANGED <<template, pending, drawn, named>>
          /\ adder' = [adder EXCEPT ![a] = [pc |-> "regen"]]
      BY <1>3 DEF RegenCert, SameIdentity, identity
    <2> HIDE DEF n
    <2>3. PICK m : m = n
      OBVIOUS
    <2>4. Copies' \subseteq Copies \cup {m}
      <3>1. PICK r : adder' = [adder EXCEPT ![a] = r] /\ r = [pc |-> "regen"]
        BY <2>2
      <3>2. r.pc = "regen"
        BY <3>1
      <3>3. cert' \in Copies \cup {m} /\ answer' = answer /\ m = n
        BY <2>2, <2>3
      <3>4. adder' = [adder EXCEPT ![a] = r] /\ r.pc \in {"idle", "regen"}
        BY <3>1, <3>2
      <3> QED
        BY <1>1, <3>3, <3>4, AdderCopies
    <2>5. Sound(m)' /\ \A x \in Copies : Agree(m, x)
      BY <1>1, <2>1, <2>2, <2>3 DEF CopyInv, Sound, SameIdentity, Agree
    <2> QED
      BY <1>1, <2>2, <2>4, <2>5, OneMoreCopy DEF Naming
  <1>4. ASSUME NEW a \in Adders, NEW r,
               r = Idle \/ (Holding(a) /\ r.new = adder[a].new),
               adder' = [adder EXCEPT ![a] = r], cert' = cert \/ (Holding(a) /\ cert' = adder[a].new),
               answer' = answer
        PROVE  Copies' \subseteq Copies
    <2>1. PICK n \in Copies : r = Idle \/ r.new = n
      BY <1>1, <1>4
    <2>2. r.pc \in {"idle", "regen"} \/ r.new = n
      BY <2>1 DEF Idle
    <2>3. cert' \in Copies \cup {n}
      BY <1>1, <1>4
    <2>4. Copies' \subseteq Copies \cup {n}
      BY <1>1, <1>4, <2>2, <2>3, AdderCopies
    <2> QED
      BY <2>1, <2>4
  <1>5. ASSUME NEW a \in Adders, SaveCert(a)
        PROVE  CopyInv'
    <2>1. Holding(a)
      BY <1>5 DEF SaveCert, Holding
    <2>2. adder[a] \in [pc : Phases, new : Certificate]
      BY <1>1, <2>1, HoldingTypes
    <2>3. PICK r : /\ adder' = [adder EXCEPT ![a] = r]
                   /\ r = IF adder[a].pc = "save_send" THEN [adder[a] EXCEPT !.pc = "send"] ELSE Idle
      BY <1>5 DEF SaveCert
    <2>4. r = Idle \/ r.new = adder[a].new
      BY <2>2, <2>3
    <2>5. cert' = adder[a].new /\ answer' = answer
      BY <1>5 DEF SaveCert
    <2>6. Copies' \subseteq Copies
      BY <1>4, <2>1, <2>3, <2>4, <2>5
    <2> QED
      BY <1>5, <2>6, NoMoreCopies DEF SaveCert, SameIdentity, identity
  <1>6. ASSUME NEW a \in Adders, CommandSends(a)
        PROVE  CopyInv'
    <2>1. Copies' \subseteq Copies
      BY <1>4, <1>6 DEF CommandSends
    <2> QED
      BY <1>6, <2>1, SendCopies DEF CommandSends, SameIdentity, identity
  <1>7. ASSUME NEW a \in Adders, RequestSends(a)
        PROVE  CopyInv'
    <2>1. Holding(a)
      BY <1>7 DEF RequestSends, Holding
    <2>2. adder[a] \in [pc : Phases, new : Certificate]
      BY <1>1, <2>1, HoldingTypes
    <2>3. PICK r : adder' = [adder EXCEPT ![a] = r] /\ r = [adder[a] EXCEPT !.pc = "commit"]
      BY <1>7 DEF RequestSends
    <2>4. r.new = adder[a].new
      BY <2>2, <2>3
    <2>5. Copies' \subseteq Copies
      BY <1>4, <1>7, <2>1, <2>3, <2>4 DEF RequestSends
    <2> QED
      BY <1>7, <2>5, SendCopies DEF RequestSends, SameIdentity, identity
  <1>8. ASSUME NEW a \in Adders, AddDies(a)
        PROVE  CopyInv'
    <2>1. Copies' \subseteq Copies
      BY <1>4, <1>8 DEF AddDies
    <2> QED
      BY <1>8, <2>1, NoMoreCopies DEF AddDies, SameIdentity, identity
  <1>9. ASSUME NEW k \in pending, NEW error \in BOOLEAN, UpdateReads(k, error)
        PROVE  CopyInv'
    <2>1. /\ SameIdentity /\ UNCHANGED <<cert, template, adder, drawn, named>>
          /\ pending' \subseteq pending /\ answer = Idle
      BY <1>9 DEF UpdateReads, SameIdentity, identity
    <2>2. CASE answer' = Idle
      <3>1. Copies' \subseteq Copies
        BY <2>1, <2>2 DEF Copies, Holding
      <3> QED
        BY <2>1, <3>1, NoMoreCopies
    <2>3. CASE /\ cert.key = k /\ (error \/ cert.status = "generating")
               /\ answer' = [pc |-> "save", new |-> Updated(error)]
      <3>1. PICK n : n = Updated(error) /\ answer'.new = n
        BY <2>3
      <3>2. Copies' \subseteq Copies \cup {n}
        BY <2>1, <3>1 DEF Copies, Holding
      <3>3. cert \in Certificate /\ Sound(cert)
        BY <1>1 DEF CopyInv
      <3>4. /\ n.mode = cert.mode /\ n.key = cert.key
            /\ n.status \in {"error", "downloadable"}
            /\ n.status = "downloadable" => n.pdf = k /\ cert.status = "generating"
        BY <2>3, <3>1, <3>3 DEF Updated, Certificate
      <3>5. n.status = "downloadable" => n.pdf # 0 /\ template[n.pdf] = TemplatePdf(n.pdf, n.mode)
        BY <2>3, <3>3, <3>4 DEF CopyInv, Sound
      <3>6. Sound(n)'
        BY <2>1, <3>3, <3>4, <3>5 DEF Sound, SameIdentity, TemplatePdf
      <3>7. \A x \in Copies : Agree(n, x)
        BY <3>4 DEF Agree
      <3> QED
        BY <1>1, <2>1, <3>2, <3>6, <3>7, OneMoreCopy DEF Naming
    <2> QED
      BY <1>9, <2>2, <2>3 DEF UpdateReads
  <1>10. ASSUME UpdateSaves
         PROVE  CopyInv'
    <2>1. Copies' \subseteq Copies
      BY <1>1, <1>10 DEF UpdateSaves, Copies, Holding
    <2> QED
      BY <1>10, <2>1, NoMoreCopies DEF UpdateSaves, SameIdentity, identity
  <1>11. ASSUME IdentityNext, UNCHANGED certVars
         PROVE  CopyInv'
    <2>1. Copies' = Copies /\ UNCHANGED <<template, drawn, named, pending>>
      BY <1>11 DEF certVars, Copies, Holding
    <2>2. earned = Windows \cup {Initial} => earned' = Windows \cup {Initial}
      BY <1>11 DEF IdentityNext
    <2>3. \A x \in Copies : Sound(x)'
      BY <2>1, <2>2 DEF CopyInv, Sound, TemplatePdf
    <2> QED
      BY <2>1, <2>3 DEF CopyInv
  <1>12. ASSUME UNCHANGED vars
         PROVE  CopyInv'
    <2>1. Copies' \subseteq Copies
      BY <1>12 DEF vars, certVars, Copies, Holding
    <2> QED
      BY <1>12, <2>1, NoMoreCopies DEF vars, certVars, SameIdentity, identity
  <1> QED
    BY <1>2, <1>3, <1>5, <1>6, <1>7, <1>8, <1>9, <1>10, <1>11, <1>12 DEF Next, CertNext

\* The file a student downloads is of the mode that the row records, or of the
\* template that the command named for its request: it was made for a request of
\* the row, and a copy is never saved over the answer to another.
THEOREM DownloadCorrect == Spec => []DownloadIsAsRecorded
  <1>1. TypeInv /\ CopyInv => DownloadIsAsRecorded
    BY CopyMembers DEF TypeInv, CopyInv, Sound, TemplatePdf, DownloadIsAsRecorded
  <1> QED
    BY <1>1, TypeInit, TypeNext, CopyInit, CopyNext, PTL DEF Spec

\* A verified certificate was earned, whatever became of the verification since.
THEOREM VerifiedCorrect == Spec => []VerifiedIsEarned
  <1>1. TypeInv /\ CopyInv => VerifiedIsEarned
    BY CopyMembers DEF TypeInv, CopyInv, Sound, VerifiedIsEarned
  <1> QED
    BY <1>1, TypeInit, TypeNext, CopyInit, CopyNext, PTL DEF Spec

-----------------------------------------------------------------------------
(***************************************************************************)
(* A certificate that is being generated has a request.                    *)
(***************************************************************************)
\* An execution is about to send the request of the row.
Sending(a) == adder[a].pc = "send" /\ adder[a].new.key = cert.key

\* Executions but one, and the row, are left alone: those about to send still are.
LEMMA SendersStay ==
    ASSUME TypeOK, NEW a \in Adders, NEW r, adder' = [adder EXCEPT ![a] = r], cert' = cert
    PROVE  \A b \in Adders \ {a} : Sending(b) => Sending(b)'
  BY DEF TypeOK, Sending

\* Every step keeps the request of a row that is being generated.
LEMMA RequestNext == TypeInv /\ GeneratingIsRequested /\ [Next]_vars => GeneratingIsRequested'
  <1> SUFFICES ASSUME TypeInv, GeneratingIsRequested, [Next]_vars,
                      cert'.status = "generating", cert'.key \notin astray'
               PROVE  \/ cert'.key \in pending'
                      \/ answer' # Idle /\ answer'.new.key = cert'.key
                      \/ \E a \in Adders : Sending(a)'
    BY DEF GeneratingIsRequested, Sending
  <1>1. TypeOK /\ cert \in Certificate
    BY DEF TypeInv, TypeOK
  <1>2. ASSUME cert' = cert, astray \subseteq astray'
        PROVE  \/ cert.key \in pending
               \/ answer # Idle /\ answer.new.key = cert.key
               \/ \E a \in Adders : Sending(a)
    BY <1>2 DEF GeneratingIsRequested, Sending
  <1>3. ASSUME NEW a \in Adders, UngeneratedCerts(a) \/ RegenAdds(a) \/ RequestCertificate(a)
        PROVE  \E b \in Adders : \/ cert'.key \in pending'
                                 \/ answer' # Idle /\ answer'.new.key = cert'.key
                                 \/ Sending(b)'
    <2>1. PICK pc \in {"save_send", "send_commit"} :
             Grade(a, pc) /\ UNCHANGED <<cert, template, pending, answer, astray>>
      BY <1>3 DEF UngeneratedCerts, RegenAdds, RequestCertificate
    <2>2. PICK r : adder' = [adder EXCEPT ![a] = r]
      BY <1>1, <2>1, GradeEffect DEF Graded
    <2>3. ~Sending(a)
      BY <1>3 DEF UngeneratedCerts, RegenAdds, RequestCertificate, Sending, Idle
    <2> QED
      BY <1>1, <1>2, <2>1, <2>2, <2>3, SendersStay
  <1>4. ASSUME NEW a \in Adders, RegenCert(a)
        PROVE  FALSE
    BY <1>1, <1>4 DEF RegenCert, Certificate
  <1>5. ASSUME NEW a \in Adders, SaveCert(a)
        PROVE  cert'.key \in pending' \/ Sending(a)'
    <2>1. cert' = adder[a].new /\ pending' = pending
      BY <1>5 DEF SaveCert
    <2>2. CASE adder[a].pc = "save"
      BY <2>1, <2>2 DEF TypeInv, RequestsDrawn
    <2>3. CASE adder[a].pc = "save_send"
      <3>1. adder[a] \in [pc : Phases, new : Certificate]
        BY <1>1, <2>3, HoldingTypes DEF Holding
      <3>2. adder' = [adder EXCEPT ![a] = [@ EXCEPT !.pc = "send"]]
        BY <1>5, <2>3 DEF SaveCert
      <3>3. adder'[a] = [adder[a] EXCEPT !.pc = "send"]
        BY <1>1, <3>2 DEF TypeOK
      <3> QED
        BY <2>1, <3>1, <3>3 DEF Sending
    <2>4. CASE adder[a].pc = "commit"
      BY <1>5, <2>1, <2>4 DEF SaveCert
    <2> QED
      BY <1>5, <2>2, <2>3, <2>4 DEF SaveCert
  <1>6. ASSUME NEW a \in Adders, adder[a].pc \in {"send", "send_commit"}, Send(a),
               NEW r, adder' = [adder EXCEPT ![a] = r], UNCHANGED <<cert, answer, astray>>
        PROVE  \E b \in Adders : \/ cert'.key \in pending'
                                 \/ answer' # Idle /\ answer'.new.key = cert'.key
                                 \/ Sending(b)'
    <2>1. pending' = pending \cup {adder[a].new.key}
      BY <1>6 DEF Send
    <2>2. Sending(a) => cert'.key \in pending'
      BY <1>6, <2>1 DEF Sending
    <2> QED
      BY <1>1, <1>2, <1>6, <2>1, <2>2, SendersStay
  <1>7. ASSUME NEW a \in Adders, CommandSends(a) \/ RequestSends(a)
        PROVE  \E b \in Adders : \/ cert'.key \in pending'
                                 \/ answer' # Idle /\ answer'.new.key = cert'.key
                                 \/ Sending(b)'
    <2>1. PICK r : adder' = [adder EXCEPT ![a] = r]
      BY <1>7 DEF CommandSends, RequestSends
    <2> QED
      BY <1>6, <1>7, <2>1 DEF CommandSends, RequestSends
  <1>8. ASSUME NEW a \in Adders, AddDies(a)
        PROVE  \E b \in Adders : \/ cert'.key \in pending'
                                 \/ answer' # Idle /\ answer'.new.key = cert'.key
                                 \/ Sending(b)'
    <2>1. Sending(a) => cert'.key \in astray'
      BY <1>8 DEF AddDies, Sending
    <2>2. astray \subseteq astray' /\ UNCHANGED <<cert, pending, answer>>
      BY <1>8 DEF AddDies
    <2>3. PICK r : adder' = [adder EXCEPT ![a] = r]
      BY <1>8 DEF AddDies
    <2> QED
      BY <1>1, <1>2, <2>1, <2>2, <2>3, SendersStay
  <1>9. ASSUME NEW k \in pending, NEW error \in BOOLEAN, UpdateReads(k, error)
        PROVE  \/ cert'.key \in pending'
               \/ answer' # Idle /\ answer'.new.key = cert'.key
               \/ \E a \in Adders : Sending(a)'
    <2>1. /\ UNCHANGED <<cert, adder, astray>> /\ answer = Idle /\ pending' = pending \ {k}
          /\ answer' = IF cert.key = k /\ (error \/ cert.status = "generating")
                       THEN [pc |-> "save", new |-> Updated(error)] ELSE Idle
      BY <1>9 DEF UpdateReads
    <2>2. CASE cert.key = k
      <3>1. answer' = [pc |-> "save", new |-> Updated(error)]
        BY <2>1, <2>2
      <3>2. answer' # Idle /\ answer'.new = Updated(error)
        BY <3>1 DEF Idle
      <3>3. Updated(error).key = cert.key
        BY <1>1 DEF Updated, Certificate
      <3> QED
        BY <2>1, <3>2, <3>3
    <2>3. CASE cert.key # k
      BY <1>2, <2>1, <2>3 DEF Sending
    <2> QED
      BY <2>2, <2>3
  <1>10. ASSUME UpdateSaves
         PROVE  FALSE
    BY <1>10 DEF UpdateSaves, TypeInv, RequestsDrawn
  <1>11. ASSUME UNCHANGED certVars
         PROVE  \/ cert'.key \in pending'
                \/ answer' # Idle /\ answer'.new.key = cert'.key
                \/ \E a \in Adders : Sending(a)'
    BY <1>2, <1>11 DEF certVars, Sending
  <1> QED
    BY <1>3, <1>4, <1>5, <1>7, <1>8, <1>9, <1>10, <1>11 DEF Next, CertNext, vars

\* A certificate that is being generated has a request the agent will answer.
THEOREM RequestCorrect == Spec => []GeneratingIsRequested
  <1>1. Init => GeneratingIsRequested
    BY DEF Init, GeneratingIsRequested
  <1> QED
    BY <1>1, TypeInit, TypeNext, RequestNext, PTL DEF Spec

=============================================================================
