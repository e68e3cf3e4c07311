----------------------------- MODULE DesignProofs -----------------------------
(***************************************************************************)
(* What holds of the interview, of a review's findings and of the plan a   *)
(* developer works off, for any project, tables and questions.             *)
(***************************************************************************)
EXTENDS Design, TLAPS

(***************************************************************************)
(* The interview                                                           *)
(***************************************************************************)

AnswerStates == {"not_asked", "unknown", "answered"}

\* A context configure can have: only answers that were given have a value, and the tenant
\* model is the value of its question.
IsContext(c) ==
  /\ c \in [answers : [Questions -> AnswerStates], given : SUBSET Questions, hollow : SUBSET Questions,
            tenant : TenantModels \cup {"unknown"}]
  /\ \A q \in c.given : c.answers[q] = "answered"
  /\ c.hollow \subseteq c.given
  /\ TenantQuestion \in c.given <=> c.tenant # "unknown"

\* The reply a context holds to a question, if any.
ReplyIn(c, q) ==
  IF c.answers[q] = "unknown" THEN "blank"
  ELSE IF q \in c.hollow THEN "headless"
  ELSE IF q \notin c.given THEN "noise"
  ELSE IF q = TenantQuestion THEN c.tenant ELSE "value"
Heard(c, q) == IF c.answers[q] = "not_asked" THEN <<>> ELSE <<ReplyIn(c, q)>>

DraftIs(c, said, base, tenantColumn) ==
  /\ draft = [context |-> c, rest |-> Kept(base), base |-> base, tenantColumn |-> tenantColumn, said |-> said]
  /\ \A q \in Questions :
       /\ (\A r \in said : r[1] # q) => told[q] = Heard(c, q)
       /\ \A r \in said : r[1] = q => Heard(c, q) = <<r[2]>>

\* Outside write_text the file holds what was told; while it is asked the draft holds what
\* was said since and else what was told.  The rest of the file is what the developer wrote,
\* or what configure has made of it.
InterviewInv ==
  /\ phase \in {"idle", "asking", "writing"}
  /\ told = [q \in Questions |-> told[q]]
  /\ wanted \in Rest
  /\ phase # "writing" =>
       \E c, rest : IsContext(c) /\ file = [context |-> ToToml(c), rest |-> rest]
                    /\ rest \in {wanted, Kept(wanted)}
                    /\ \A q \in Questions : told[q] = Heard(c, q)
  /\ phase = "writing" => file = [context |-> EmptyTable, rest |-> NoRest]
  /\ phase # "idle" =>
       \E c, said, base, tenantColumn :
         IsContext(c) /\ base \in Rest /\ DraftIs(c, said, base, tenantColumn)

\* What configure makes of the rest it has made already.
LEMMA KeptAgain ==
  ASSUME NEW rest \in Rest
  PROVE  /\ Kept(rest) \in Rest /\ Kept(Kept(rest)) = Kept(rest)
         /\ Kept(rest).sections = rest.sections /\ (Kept(rest).runner = "absent" <=> rest.runner = "absent")
<1>1. PICK k : k = Kept(rest)
  OBVIOUS
<1>2. k = [sections |-> rest.sections, runner |-> IF rest.runner = "brief" THEN "full" ELSE rest.runner,
           loose |-> FALSE]
  BY <1>1 DEF Kept, Rest
<1>3. k \in Rest /\ k.sections = rest.sections /\ (k.runner = "absent" <=> rest.runner = "absent")
  BY <1>2 DEF Rest
<1>4. Kept(k) = k
  <2>1. k.runner # "brief" /\ k.loose = FALSE
    BY <1>2
  <2>2. Kept(k) = [k EXCEPT !.runner = k.runner, !.loose = FALSE]
    BY <2>1 DEF Kept
  <2>3. QED
    BY <1>2, <2>1, <2>2
<1>5. QED
  BY <1>1, <1>3, <1>4

LEMMA NoRestIsOne == NoRest \in Rest
BY RestAssumption DEF NoRest, Rest

LEMMA NoContextIsOne == IsContext(NoContext) /\ \A q \in Questions : Heard(NoContext, q) = <<>>
BY TenantAssumption DEF IsContext, NoContext, AnswerStates, Heard

\* What is read back is what was written.
LEMMA FromTo ==
  ASSUME NEW c, IsContext(c)
  PROVE  FromToml(ToToml(c)) = c
<1> DEFINE table == ToToml(c)
<1>1. /\ c = [answers |-> c.answers, given |-> c.given, hollow |-> c.hollow, tenant |-> c.tenant]
      /\ c.answers \in [Questions -> AnswerStates]
  BY DEF IsContext
<1>2. /\ table.answers = {<<q, c.answers[q]>> : q \in {p \in Questions : c.answers[p] # "not_asked"}}
      /\ table.given = c.given /\ table.hollow = c.hollow /\ table.tenant = {c.tenant} \ {"unknown"}
  BY DEF ToToml
<1> HIDE DEF table
<1>3. ASSUME NEW q \in Questions
      PROVE  (IF \E a \in table.answers : a[1] = q
              THEN (CHOOSE a \in table.answers : a[1] = q)[2] ELSE "not_asked") = c.answers[q]
  <2>1. CASE c.answers[q] = "not_asked"
    BY <1>2, <2>1
  <2>2. CASE c.answers[q] # "not_asked"
    <3>1. <<q, c.answers[q]>> \in table.answers
      BY <1>2, <2>2
    <3>2. \A a \in table.answers : a[1] = q => a[2] = c.answers[q]
      BY <1>2
    <3>3. \E a \in table.answers : a[1] = q
      BY <3>1
    <3>4. PICK b : b = CHOOSE a \in table.answers : a[1] = q
      OBVIOUS
    <3>5. b \in table.answers /\ b[1] = q
      BY <3>3, <3>4
    <3>6. QED
      BY <3>2, <3>3, <3>4, <3>5
  <2>3. QED
    BY <2>1, <2>2
<1>4. [q \in Questions |-> IF \E a \in table.answers : a[1] = q
                           THEN (CHOOSE a \in table.answers : a[1] = q)[2] ELSE "not_asked"] = c.answers
  BY <1>1, <1>3
<1>5. (IF table.tenant = {} THEN "unknown" ELSE CHOOSE m \in table.tenant : TRUE) = c.tenant
  <2>1. CASE c.tenant = "unknown"
    BY <1>2, <2>1
  <2>2. CASE c.tenant # "unknown"
    <3>1. table.tenant = {c.tenant}
      BY <1>2, <2>2
    <3>2. QED
      BY <3>1
  <2>3. QED
    BY <2>1, <2>2
<1>6. QED
  BY <1>1, <1>2, <1>4, <1>5 DEF FromToml, table

\* A reply to a question that was not asked is what the context holds then, and no other
\* question's reply is touched.
LEMMA AppliedHolds ==
  ASSUME NEW c, IsContext(c), NEW q \in Questions, c.answers[q] = "not_asked", NEW reply \in Replies(q)
  PROVE  /\ IsContext(Applied(c, q, reply))
         /\ Heard(Applied(c, q, reply), q) = <<reply>>
         /\ \A p \in Questions : p # q => Heard(Applied(c, q, reply), p) = Heard(c, p)
<1> DEFINE d == Applied(c, q, reply)
           valued == reply \notin {"blank", "noise"}
<1>1. /\ c.answers \in [Questions -> AnswerStates] /\ c.given \subseteq Questions
      /\ c.tenant \in TenantModels \cup {"unknown"} /\ q \notin c.given /\ c.hollow \subseteq c.given
      /\ \A p \in c.given : c.answers[p] = "answered"
      /\ TenantQuestion \in c.given <=> c.tenant # "unknown"
  BY DEF IsContext
<1>2. /\ d.answers = [c.answers EXCEPT ![q] = IF reply = "blank" THEN "unknown" ELSE "answered"]
      /\ d.given = IF valued THEN c.given \cup {q} ELSE c.given
      /\ d.hollow = IF reply = "headless" THEN c.hollow \cup {q} ELSE c.hollow
      /\ d.tenant = IF valued /\ q = TenantQuestion THEN reply ELSE c.tenant
      /\ d = [answers |-> d.answers, given |-> d.given, hollow |-> d.hollow, tenant |-> d.tenant]
  BY DEF Applied
<1> HIDE DEF d
<1>3. d.answers \in [Questions -> AnswerStates]
  BY <1>1, <1>2 DEF AnswerStates
<1>4. d.given \subseteq Questions /\ d.hollow \subseteq d.given
  BY <1>1, <1>2
<1>5. valued => IF q = TenantQuestion THEN reply \in TenantModels /\ reply \notin {"unknown", "headless"}
                ELSE reply \in {"value", "headless"}
  BY TenantAssumption DEF Replies
<1>6. d.tenant \in TenantModels \cup {"unknown"}
  BY <1>1, <1>2, <1>5
<1>7. \A p \in d.given : d.answers[p] = "answered"
  BY <1>1, <1>2
<1>8. TenantQuestion \in d.given <=> d.tenant # "unknown"
  BY <1>1, <1>2, <1>5
<1>9. IsContext(d)
  BY <1>2, <1>3, <1>4, <1>6, <1>7, <1>8 DEF IsContext
<1>10. Heard(d, q) = <<reply>>
  BY <1>1, <1>2, <1>5 DEF Heard, ReplyIn
<1>11. \A p \in Questions : p # q => Heard(d, p) = Heard(c, p)
  BY <1>1, <1>2 DEF Heard, ReplyIn
<1>12. QED
  BY <1>9, <1>10, <1>11 DEF d

LEMMA InterviewInvInit == InterviewInit => InterviewInv
<1> SUFFICES ASSUME InterviewInit PROVE InterviewInv
  OBVIOUS
<1>1. wanted \in Rest /\ phase = "idle" /\ file = [context |-> ToToml(NoContext), rest |-> wanted]
  BY RestAssumption DEF InterviewInit, EmptyTable
<1>2. told = [q \in Questions |-> <<>>]
  BY DEF InterviewInit
<1>3. QED
  BY <1>1, <1>2, NoContextIsOne DEF InterviewInv

LEMMA StartConfigureHolds ==
  ASSUME InterviewInv, NEW b, StartConfigure(b)
  PROVE  InterviewInv'
<1>1. phase = "idle" /\ phase' = "asking" /\ UNCHANGED <<file, told, wanted>>
  BY DEF StartConfigure
<1>2. PICK c, rest : /\ IsContext(c) /\ file = [context |-> ToToml(c), rest |-> rest]
                     /\ rest \in {wanted, Kept(wanted)} /\ wanted \in Rest
                     /\ \A q \in Questions : told[q] = Heard(c, q)
  BY <1>1 DEF InterviewInv
<1>3. draft' = [context |-> c, rest |-> Kept(wanted), base |-> wanted, tenantColumn |-> b, said |-> {}]
  <2>1. file.context = ToToml(c) /\ file.rest = rest
    BY <1>2
  <2>2. FromToml(file.context) = c
    BY <1>2, <2>1, FromTo
  <2>3. Kept(file.rest) = Kept(wanted)
    BY <1>2, <2>1, KeptAgain
  <2>4. QED
    BY <2>2, <2>3 DEF StartConfigure
<1>4. told' = [q \in Questions |-> told'[q]]
  BY <1>1 DEF InterviewInv
<1>5. DraftIs(c, {}, wanted, b)'
  BY <1>1, <1>2, <1>3 DEF DraftIs
<1>6. QED
  BY <1>1, <1>2, <1>4, <1>5 DEF InterviewInv

LEMMA AnswerHolds ==
  ASSUME InterviewInv, NEW reply, Answer(reply)
  PROVE  InterviewInv'
<1>1. phase = "asking" /\ UNCHANGED <<file, phase, told, wanted>>
  BY DEF Answer
<1>2. PICK c, said, base, b :
        /\ IsContext(c) /\ base \in Rest
        /\ draft = [context |-> c, rest |-> Kept(base), base |-> base, tenantColumn |-> b, said |-> said]
        /\ \A q \in Questions :
             /\ (\A r \in said : r[1] # q) => told[q] = Heard(c, q)
             /\ \A r \in said : r[1] = q => Heard(c, q) = <<r[2]>>
  BY <1>1 DEF InterviewInv, DraftIs
<1>3. PICK q \in Left : /\ reply \in Replies(q)
                        /\ draft' = [draft EXCEPT !.context = Applied(draft.context, q, reply),
                                                  !.said = draft.said \cup {<<q, reply>>}]
  BY DEF Answer
<1>4. q \in Questions /\ c.answers[q] = "not_asked"
  BY <1>2 DEF Left, Remaining, Applicable
<1>5. PICK d : d = Applied(c, q, reply)
  OBVIOUS
<1>6. /\ IsContext(d) /\ Heard(d, q) = <<reply>>
      /\ \A p \in Questions : p # q => Heard(d, p) = Heard(c, p)
  BY <1>2, <1>3, <1>4, <1>5, AppliedHolds
<1>7. draft' = [context |-> d, rest |-> Kept(base), base |-> base, tenantColumn |-> b,
                said |-> said \cup {<<q, reply>>}]
  BY <1>2, <1>3, <1>5
<1>8. \A r \in said : r[1] # q
  BY <1>2, <1>4 DEF Heard
<1>9. \A p \in Questions :
        /\ (\A r \in said \cup {<<q, reply>>} : r[1] # p) => told'[p] = Heard(d, p)
        /\ \A r \in said \cup {<<q, reply>>} : r[1] = p => Heard(d, p) = <<r[2]>>
  <2>1. SUFFICES ASSUME NEW p \in Questions
                 PROVE  /\ (\A r \in said \cup {<<q, reply>>} : r[1] # p) => told'[p] = Heard(d, p)
                        /\ \A r \in said \cup {<<q, reply>>} : r[1] = p => Heard(d, p) = <<r[2]>>
    OBVIOUS
  <2>2. CASE p = q
    <3>1. \A r \in said \cup {<<q, reply>>} : r[1] = q => r = <<q, reply>>
      BY <1>8
    <3>2. <<q, reply>>[1] = q /\ <<q, reply>>[2] = reply
      OBVIOUS
    <3>3. QED
      BY <1>6, <2>2, <3>1, <3>2
  <2>3. CASE p # q
    <3>1. \A r \in said \cup {<<q, reply>>} : r[1] = p => r \in said
      BY <2>3
    <3>2. (\A r \in said : r[1] # p) => told'[p] = Heard(d, p)
      BY <1>1, <1>2, <1>6, <2>3
    <3>3. \A r \in said : r[1] = p => Heard(d, p) = <<r[2]>>
      BY <1>2, <1>6, <2>3
    <3>4. QED
      BY <3>1, <3>2, <3>3
  <2>4. QED
    BY <2>2, <2>3
<1>10. told' = [p \in Questions |-> told'[p]]
  BY <1>1 DEF InterviewInv
<1>11. phase' # "writing" =>
         \E k, rest : IsContext(k) /\ file' = [context |-> ToToml(k), rest |-> rest]
                      /\ rest \in {wanted', Kept(wanted')}
                      /\ \A p \in Questions : told'[p] = Heard(k, p)
  BY <1>1 DEF InterviewInv
<1>12. DraftIs(d, said \cup {<<q, reply>>}, base, b)'
  BY <1>7, <1>9 DEF DraftIs
<1>13. wanted' \in Rest
  BY <1>1 DEF InterviewInv
<1>14. QED
  BY <1>1, <1>2, <1>6, <1>10, <1>11, <1>12, <1>13 DEF InterviewInv

LEMMA FillHolds ==
  ASSUME InterviewInv, Fill
  PROVE  InterviewInv'
<1>1. /\ phase = "writing" /\ phase' = "idle"
      /\ file' = [context |-> ToToml(draft.context), rest |-> draft.rest]
      /\ told' = [q \in Questions |-> IF Said(q) = {} THEN told[q]
                                      ELSE <<(CHOOSE r \in Said(q) : TRUE)[2]>>]
      /\ wanted' = IF wanted = draft.base THEN wanted ELSE draft.rest
  BY DEF Fill
<1>2. PICK c, said, base, b :
        /\ IsContext(c) /\ base \in Rest
        /\ draft = [context |-> c, rest |-> Kept(base), base |-> base, tenantColumn |-> b, said |-> said]
        /\ \A q \in Questions :
             /\ (\A r \in said : r[1] # q) => told[q] = Heard(c, q)
             /\ \A r \in said : r[1] = q => Heard(c, q) = <<r[2]>>
  BY <1>1 DEF InterviewInv, DraftIs
<1>3. /\ file' = [context |-> ToToml(c), rest |-> Kept(base)] /\ wanted' \in Rest
      /\ Kept(base) \in {wanted', Kept(wanted')}
  BY <1>1, <1>2, KeptAgain DEF InterviewInv
<1>4. ASSUME NEW q \in Questions PROVE told'[q] = Heard(c, q)
  <2>1. CASE Said(q) = {}
    BY <1>1, <1>2, <2>1 DEF Said
  <2>2. CASE Said(q) # {}
    <3>1. PICK r : r = CHOOSE x \in Said(q) : TRUE
      OBVIOUS
    <3>2. r \in Said(q)
      BY <2>2, <3>1
    <3>3. r \in said /\ r[1] = q
      BY <1>2, <3>2 DEF Said
    <3>4. told'[q] = <<r[2]>>
      BY <1>1, <2>2, <3>1
    <3>5. QED
      BY <1>2, <3>3, <3>4
  <2>3. QED
    BY <2>1, <2>2
<1>5. told' = [q \in Questions |-> told'[q]]
  BY <1>1
<1>6. QED
  BY <1>1, <1>2, <1>3, <1>4, <1>5 DEF InterviewInv

LEMMA InterviewHolds ==
  ASSUME InterviewInv, InterviewStep \/ InterviewMishap
  PROVE  InterviewInv'
<1>1. ASSUME NEW reply, Answer(reply) PROVE InterviewInv'
  BY <1>1, AnswerHolds
<1>2. CASE Truncate
  <2>1. /\ phase = "asking" /\ phase' = "writing" /\ UNCHANGED <<draft, told, wanted>>
        /\ file' = [context |-> EmptyTable, rest |-> NoRest]
    BY <1>2 DEF Truncate
  <2>2. QED
    BY <2>1 DEF InterviewInv, DraftIs
<1>3. CASE Fill
  BY <1>3, FillHolds
<1>4. CASE Abandon \/ AnswerRaises
  <2>1. phase = "asking" /\ phase' = "idle" /\ UNCHANGED <<file, told, wanted>>
    BY <1>4 DEF Abandon, AnswerRaises
  <2>2. QED
    BY <2>1 DEF InterviewInv, DraftIs
<1>5. CASE CrashWriting
  <2>1. /\ phase = "writing" /\ phase' = "idle" /\ wanted' = NoRest /\ UNCHANGED file
        /\ told' = [q \in Questions |-> <<>>]
    BY <1>5 DEF CrashWriting
  <2>2. file' = [context |-> ToToml(NoContext), rest |-> wanted'] /\ wanted' \in Rest
    BY <2>1, NoRestIsOne DEF InterviewInv, EmptyTable
  <2>3. QED
    BY <2>1, <2>2, NoContextIsOne DEF InterviewInv
<1>6. CASE \E rest \in Rests : Edit(rest)
  <2>1. PICK rest : /\ rest \in Rest /\ phase # "writing" /\ UNCHANGED <<phase, draft, told>>
                    /\ file' = [file EXCEPT !.rest = rest] /\ wanted' = rest
    BY <1>6, RestAssumption DEF Edit
  <2>2. PICK c, old : /\ IsContext(c) /\ file = [context |-> ToToml(c), rest |-> old]
                      /\ \A q \in Questions : told[q] = Heard(c, q)
    BY <2>1 DEF InterviewInv
  <2>3. file' = [context |-> ToToml(c), rest |-> rest]
    BY <2>1, <2>2
  <2>4. \A d, said, base, b : DraftIs(d, said, base, b)' <=> DraftIs(d, said, base, b)
    BY <2>1 DEF DraftIs
  <2>5. QED
    BY <2>1, <2>2, <2>3, <2>4 DEF InterviewInv
<1>7. QED
  BY <1>1, <1>2, <1>3, <1>4, <1>5, <1>6 DEF InterviewStep, InterviewMishap

LEMMA SavedStays == InterviewInv => SavedIsKept
<1> SUFFICES ASSUME InterviewInv, phase # "writing" PROVE SavedIsKept
  BY DEF SavedIsKept
<1>1. PICK c, rest : /\ IsContext(c) /\ file = [context |-> ToToml(c), rest |-> rest]
                     /\ rest \in {wanted, Kept(wanted)} /\ wanted \in Rest
                     /\ \A q \in Questions : told[q] = Heard(c, q)
  BY DEF InterviewInv
<1>2. FromToml(file.context) = c
  BY <1>1, FromTo
<1>3. \A q \in Questions : told[q] # <<>> => Recorded(q) = told[q][1]
  <2>1. SUFFICES ASSUME NEW q \in Questions, told[q] # <<>> PROVE Recorded(q) = told[q][1]
    OBVIOUS
  <2>2. c.answers[q] # "not_asked" /\ told[q] = <<ReplyIn(c, q)>>
    BY <1>1, <2>1 DEF Heard
  <2>3. Recorded(q) = ReplyIn(c, q)
    BY <1>2, <2>2 DEF Recorded, ReplyIn
  <2>4. QED
    BY <2>2, <2>3
<1>4. file.rest.sections = wanted.sections /\ (file.rest.runner = "absent" <=> wanted.runner = "absent")
  BY <1>1, KeptAgain
<1>5. QED
  BY <1>3, <1>4 DEF SavedIsKept

LEMMA SameInterview ==
  ASSUME InterviewInv, UNCHANGED interviewVars
  PROVE  InterviewInv'
<1>1. file' = file /\ phase' = phase /\ draft' = draft /\ told' = told /\ wanted' = wanted
  BY DEF interviewVars
<1>2. \A c, said, rest, b : DraftIs(c, said, rest, b)' <=> DraftIs(c, said, rest, b)
  BY <1>1 DEF DraftIs
<1>3. QED
  BY <1>1, <1>2 DEF InterviewInv

(***************************************************************************)
(* What a review finds                                                     *)
(***************************************************************************)

Context == FromToml(file.context)
Models == ParseModels(source)
Observed == Reconcile(SelectPhysical, Models)
Findings == ConstraintsToAdd(Observed, Context) \cup IndexesToAdd(SelectPhysical)
Asks == RuleQuestions(SelectPhysical, Models, Context) \cup Blockers(Scenario, Context)
Named == Observed.missing \cup Models.unsupported

ProjectFacts ==
  /\ source \in [Tables -> Classes] /\ database \in [Tables -> Histories] /\ linear \in BOOLEAN
  /\ \A t \in Tables :
       /\ source[t].relationship # None => Target[t] # None
       /\ database[t].foreign # {} =>
            Target[t] # None /\ database[t].table # "absent" /\ database[t].ref # "none"

LEMMA NumberedTables ==
  ASSUME NEW found, NEW prefix
  PROVE  /\ \A r \in Numbered(found, prefix) : r.on \in found /\ r.id[1] = prefix[r.on]
         /\ \A t \in found : \E r \in Numbered(found, prefix) : r.on = t /\ r.id[1] = prefix[t]
<1> DEFINE Count(t) == Cardinality({u \in found : prefix[u] = prefix[t] /\ Place[u] <= Place[t]})
<1>1. Numbered(found, prefix) = {[id |-> <<prefix[t], Count(t)>>, on |-> t] : t \in found}
  BY DEF Numbered
<1> HIDE DEF Count
<1>2. ASSUME NEW t \in found PROVE \E r \in Numbered(found, prefix) : r.on = t /\ r.id[1] = prefix[t]
  <2>1. PICK r : r = [id |-> <<prefix[t], Count(t)>>, on |-> t]
    OBVIOUS
  <2>2. r \in Numbered(found, prefix) /\ r.on = t /\ r.id[1] = prefix[t]
    BY <1>1, <2>1
  <2>3. QED
    BY <2>2
<1>3. \A r \in Numbered(found, prefix) : r.on \in found /\ r.id[1] = prefix[r.on]
  BY <1>1
<1>4. QED
  BY <1>2, <1>3

\* A foreign key is recommended for the pairs only the models have, under the prefix the
\* tenant model decides; an index for the keys nothing covers, unless one was not read.
Holders(observed) == {t \in Tables : <<t, Target[t]>> \in observed.ormOnly}
Bare(physical) ==
  IF physical.incomplete THEN {} ELSE Uncovered(physical, physical.indexed \cup physical.keys)
Names == Tables \cup {Former[t] : t \in Tables}

LEMMA ConstraintTables ==
  ASSUME NEW observed, NEW context
  PROVE  /\ \A r \in ConstraintsToAdd(observed, context) :
              /\ r.on \in Holders(observed) /\ r.id[1] \in Tenancy
              /\ r.id[1] = IF TenantRelated(context, Target[r.on]) THEN "TENANT" ELSE "SCHEMA"
         /\ \A t \in Holders(observed) : \E r \in ConstraintsToAdd(observed, context) :
              r.on = t /\ r.id[1] \in Tenancy
<1> DEFINE prefix == [t \in Tables |-> IF TenantRelated(context, Target[t]) THEN "TENANT" ELSE "SCHEMA"]
<1>1. ConstraintsToAdd(observed, context) = Numbered(Holders(observed), prefix)
  BY DEF ConstraintsToAdd, Holders
<1>2. \A t \in Holders(observed) : /\ prefix[t] \in Tenancy
                                   /\ prefix[t] = IF TenantRelated(context, Target[t]) THEN "TENANT" ELSE "SCHEMA"
  BY DEF Holders, Tenancy
<1> HIDE DEF prefix
<1>3. /\ \A r \in Numbered(Holders(observed), prefix) : r.on \in Holders(observed) /\ r.id[1] = prefix[r.on]
      /\ \A t \in Holders(observed) : \E r \in Numbered(Holders(observed), prefix) : r.on = t /\ r.id[1] = prefix[t]
  BY NumberedTables
<1>4. QED
  BY <1>1, <1>2, <1>3

LEMMA IndexTables ==
  ASSUME NEW physical, \A p \in physical.foreign : p[1] \in Names
  PROVE  /\ \A r \in IndexesToAdd(physical) : r.on \in Bare(physical) /\ r.id[1] = "IDX"
         /\ \A t \in Bare(physical) : \E r \in IndexesToAdd(physical) : r.on = t /\ r.id[1] = "IDX"
<1>1. CASE physical.incomplete
  BY <1>1 DEF IndexesToAdd, Bare
<1>2. CASE ~physical.incomplete
  <2>1. IndexesToAdd(physical) = Numbered(Bare(physical), IndexPrefix)
    BY <1>2 DEF IndexesToAdd, Bare
  <2>2. \A t \in Bare(physical) : IndexPrefix[t] = "IDX"
    BY <1>2 DEF Bare, Uncovered, IndexPrefix, Names
  <2>3. /\ \A r \in Numbered(Bare(physical), IndexPrefix) :
             r.on \in Bare(physical) /\ r.id[1] = IndexPrefix[r.on]
        /\ \A t \in Bare(physical) : \E r \in Numbered(Bare(physical), IndexPrefix) :
             r.on = t /\ r.id[1] = IndexPrefix[t]
    BY NumberedTables
  <2>4. QED
    BY <2>1, <2>2, <2>3
<1>3. QED
  BY <1>1, <1>2

\* The replay has a foreign key for the tables whose key has a statement of its own, under
\* the name the table had then.
LEMMA PhysicalKeys ==
  /\ \A p \in SelectPhysical.foreign : \E t \in Tables :
       /\ linear
       /\ \/ p = <<t, Target[t]>> /\ database[t].foreign \cap {"constraint", "dropped"} # {}
          \/ p = <<Former[t], Target[t]>> /\ "renamed" \in database[t].foreign
  /\ \A t \in Tables : linear =>
       /\ database[t].foreign \cap {"constraint", "dropped"} # {} => <<t, Target[t]>> \in SelectPhysical.foreign
       /\ "renamed" \in database[t].foreign => <<Former[t], Target[t]>> \in SelectPhysical.foreign
  /\ SelectPhysical.tables = {t \in Tables : linear /\ database[t].table = "created"}
  /\ \A p \in SelectPhysical.foreign : p[1] \in Names
<1>1. SelectPhysical.foreign = IF linear THEN UNION {Pairs(t) : t \in Tables} ELSE {}
  BY DEF SelectPhysical, EmptySchema, Replayed
<1>2. SelectPhysical.tables = {t \in Tables : linear /\ database[t].table = "created"}
  BY DEF SelectPhysical, EmptySchema, Replayed
<1>3. ASSUME NEW t \in Tables
      PROVE  /\ \A p \in Pairs(t) :
                  \/ p = <<t, Target[t]>> /\ database[t].foreign \cap {"constraint", "dropped"} # {}
                  \/ p = <<Former[t], Target[t]>> /\ "renamed" \in database[t].foreign
             /\ database[t].foreign \cap {"constraint", "dropped"} # {} => <<t, Target[t]>> \in Pairs(t)
             /\ "renamed" \in database[t].foreign => <<Former[t], Target[t]>> \in Pairs(t)
  BY DEF Pairs
<1>4. ASSUME NEW p \in SelectPhysical.foreign
      PROVE  \E t \in Tables :
               /\ linear
               /\ \/ p = <<t, Target[t]>> /\ database[t].foreign \cap {"constraint", "dropped"} # {}
                  \/ p = <<Former[t], Target[t]>> /\ "renamed" \in database[t].foreign
  <2>1. linear /\ \E t \in Tables : p \in Pairs(t)
    BY <1>1
  <2>2. QED
    BY <1>3, <2>1
<1>5. ASSUME NEW t \in Tables, linear
      PROVE  /\ database[t].foreign \cap {"constraint", "dropped"} # {} => <<t, Target[t]>> \in SelectPhysical.foreign
             /\ "renamed" \in database[t].foreign => <<Former[t], Target[t]>> \in SelectPhysical.foreign
  <2>1. Pairs(t) \subseteq SelectPhysical.foreign
    BY <1>1, <1>5
  <2>2. QED
    BY <1>3, <2>1
<1>6. ASSUME NEW p \in SelectPhysical.foreign PROVE p[1] \in Names
  BY <1>4 DEF Names
<1>7. QED
  BY <1>2, <1>4, <1>5, <1>6

\* No table has another's name, or had it before.
LEMMA PairOfTable ==
  ASSUME NEW t \in Tables, <<t, Target[t]>> \in SelectPhysical.foreign
  PROVE  linear /\ database[t].foreign \cap {"constraint", "dropped"} # {}
<1>1. PICK u \in Tables :
        /\ linear
        /\ \/ <<t, Target[t]>> = <<u, Target[u]>> /\ database[u].foreign \cap {"constraint", "dropped"} # {}
           \/ <<t, Target[t]>> = <<Former[u], Target[u]>>
  BY PhysicalKeys
<1>2. <<t, Target[t]>> # <<Former[u], Target[u]>>
  BY FormerAssumption
<1>3. QED
  BY <1>1, <1>2

LEMMA RecommendedTables ==
  ASSUME published.recommendations = Findings
  PROVE  Recommended(Tenancy) = Holders(Observed) /\ Recommended({"IDX"}) = Bare(SelectPhysical)
<1>1. /\ \A r \in ConstraintsToAdd(Observed, Context) : r.on \in Holders(Observed) /\ r.id[1] \in Tenancy
      /\ \A t \in Holders(Observed) : \E r \in ConstraintsToAdd(Observed, Context) : r.on = t /\ r.id[1] \in Tenancy
  BY ConstraintTables
<1>2. /\ \A r \in IndexesToAdd(SelectPhysical) : r.on \in Bare(SelectPhysical) /\ r.id[1] = "IDX"
      /\ \A t \in Bare(SelectPhysical) : \E r \in IndexesToAdd(SelectPhysical) : r.on = t /\ r.id[1] = "IDX"
  BY IndexTables, PhysicalKeys
<1>3. "IDX" \notin Tenancy
  BY DEF Tenancy
<1>4. Recommended(Tenancy) = Holders(Observed)
  <2>1. \A t \in Recommended(Tenancy) : t \in Holders(Observed)
    BY <1>1, <1>2, <1>3 DEF Recommended, Findings
  <2>2. \A t \in Holders(Observed) : t \in Recommended(Tenancy)
    BY <1>1 DEF Recommended, Findings
  <2>3. QED
    BY <2>1, <2>2
<1>5. Recommended({"IDX"}) = Bare(SelectPhysical)
  <2>1. \A t \in Recommended({"IDX"}) : t \in Bare(SelectPhysical)
    BY <1>1, <1>2, <1>3 DEF Recommended, Findings
  <2>2. \A t \in Bare(SelectPhysical) : t \in Recommended({"IDX"})
    BY <1>2 DEF Recommended, Findings
  <2>3. QED
    BY <2>1, <2>2
<1>6. QED
  BY <1>4, <1>5

\* The models' pairs are those they say in words the analysis can read.
LEMMA ModelPairs ==
  ASSUME ProjectFacts
  PROVE  /\ \A p \in HoldingPairs(Models) : \E t \in Tables :
              p = <<t, Target[t]>> /\ SaysItHolds(t) /\ Readable(t) /\ Target[t] \in Tables /\ Readable(Target[t])
         /\ \A t \in Tables : SaysItHolds(t) /\ Readable(t) /\ Readable(Target[t])
              => <<t, Target[t]>> \in HoldingPairs(Models)
         /\ Models.tables = {t \in Tables : Readable(t)}
         /\ \A r \in Models.relationships : r.from \in Models.tables /\ r.to \in Models.tables
<1>1. /\ Models.tables = Mapped(source) /\ Models.relationships = Relationships(source)
      /\ Mapped(source) = {t \in Tables : Readable(t)}
  BY DEF Models, ParseModels, Mapped, Readable
<1>2. \A r \in Relationships(source) : \E t \in Mapped(source) :
        /\ Resolves(source, t)
        /\ r.from = t /\ r.to = Target[t] /\ r.cardinality = CardinalityOf(source[t].relationship)
  BY DEF Relationships
<1>3. \A t \in Mapped(source) : Resolves(source, t) => \E r \in Relationships(source) :
        r.from = t /\ r.to = Target[t] /\ r.cardinality = CardinalityOf(source[t].relationship)
  <2>1. SUFFICES ASSUME NEW t \in Mapped(source), Resolves(source, t)
                 PROVE  \E r \in Relationships(source) :
                          r.from = t /\ r.to = Target[t] /\ r.cardinality = CardinalityOf(source[t].relationship)
    OBVIOUS
  <2>2. PICK r : r = [from |-> t, to |-> Target[t], cardinality |-> CardinalityOf(source[t].relationship),
                      via |-> source[t].relationship.secondary = "variable"]
    OBVIOUS
  <2>3. r \in Relationships(source)
    BY <2>1, <2>2 DEF Relationships
  <2>4. QED
    BY <2>2, <2>3
<1>4. ASSUME NEW t \in Tables
      PROVE  /\ Resolves(source, t) => Target[t] \in Mapped(source)
             /\ Resolves(source, t) /\ CardinalityOf(source[t].relationship) = "many_to_one" => SaysItHolds(t)
             /\ SaysItHolds(t) /\ Target[t] \in Mapped(source) =>
                  Resolves(source, t) /\ CardinalityOf(source[t].relationship) = "many_to_one"
  BY DEF Resolves, CardinalityOf, SaysItHolds
<1>5. ASSUME NEW p \in HoldingPairs(Models)
      PROVE  \E t \in Tables :
               p = <<t, Target[t]>> /\ SaysItHolds(t) /\ Readable(t) /\ Target[t] \in Tables /\ Readable(Target[t])
  <2>1. PICK r \in Relationships(source) : r.cardinality = "many_to_one" /\ p = <<r.from, r.to>>
    BY <1>1 DEF HoldingPairs
  <2>2. PICK t \in Mapped(source) : /\ Resolves(source, t) /\ r.from = t /\ r.to = Target[t]
                                    /\ r.cardinality = CardinalityOf(source[t].relationship)
    BY <1>2
  <2>3. QED
    BY <1>1, <1>4, <2>1, <2>2
<1>6. ASSUME NEW t \in Tables, SaysItHolds(t), Readable(t), Readable(Target[t])
      PROVE  <<t, Target[t]>> \in HoldingPairs(Models)
  <2>1. Target[t] \in Tables
    BY <1>6, TargetAssumption DEF ProjectFacts, SaysItHolds
  <2>2. t \in Mapped(source) /\ Target[t] \in Mapped(source)
    BY <1>1, <1>6, <2>1
  <2>3. PICK r \in Relationships(source) : r.from = t /\ r.to = Target[t] /\ r.cardinality = "many_to_one"
    BY <1>3, <1>4, <1>6, <2>2
  <2>4. QED
    BY <1>1, <2>3 DEF HoldingPairs
<1>7. \A r \in Relationships(source) : r.from \in Mapped(source) /\ r.to \in Mapped(source)
  <2>1. SUFFICES ASSUME NEW r \in Relationships(source) PROVE r.from \in Mapped(source) /\ r.to \in Mapped(source)
    OBVIOUS
  <2>2. PICK t \in Mapped(source) : Resolves(source, t) /\ r.from = t /\ r.to = Target[t]
    BY <1>2
  <2>3. QED
    BY <1>1, <1>4, <2>2
<1>8. QED
  BY <1>1, <1>5, <1>6, <1>7

LEMMA ObservedPairs ==
  /\ Observed.ormOnly = HoldingPairs(Models) \ SelectPhysical.foreign
  /\ Observed.missing = Missing(SelectPhysical, Models)
BY DEF Observed, Reconcile

\* An index covers the column of the table, or of the name it had, that it was made on; the
\* key of a table is another column.
LEMMA CoveredColumns ==
  ASSUME NEW t \in Tables
  PROVE  /\ Ref(t) \in Replayed.indexed \cup Replayed.keys <=> database[t].index \cap {"plain", "dropped"} # {}
         /\ Ref(Former[t]) \in Replayed.indexed \cup Replayed.keys <=> "renamed" \in database[t].index
<1> DEFINE now == {Ref(u) : u \in {v \in Tables : database[v].index \cap {"plain", "dropped"} # {}}}
           before == {Ref(Former[u]) : u \in {v \in Tables : "renamed" \in database[v].index}}
<1>1. Replayed.indexed = now \cup before
  BY DEF Replayed
<1>2. \A k \in Replayed.keys : k[2] = "id"
  BY DEF Replayed
<1>3. \A n : Ref(n)[1] = n /\ Ref(n)[2] = RefColumn[n]
  BY DEF Ref
<1>4. RefColumn[t] # "id" /\ RefColumn[Former[t]] # "id"
  BY TargetAssumption, FormerAssumption
<1>5. Ref(t) \notin Replayed.keys /\ Ref(Former[t]) \notin Replayed.keys
  BY <1>2, <1>3, <1>4
<1>6. \A u \in Tables : t # Former[u] /\ Former[t] # u /\ (Former[t] = Former[u] => t = u)
  BY FormerAssumption
<1>7. Ref(t) \in now <=> database[t].index \cap {"plain", "dropped"} # {}
  BY <1>3
<1>8. Ref(t) \notin before
  BY <1>3, <1>6
<1>9. Ref(Former[t]) \notin now
  BY <1>3, <1>6
<1>10. Ref(Former[t]) \in before <=> "renamed" \in database[t].index
  <2>1. ASSUME Ref(Former[t]) \in before PROVE "renamed" \in database[t].index
    <3>1. PICK u \in Tables : "renamed" \in database[u].index /\ Ref(Former[t]) = Ref(Former[u])
      BY <2>1
    <3>2. Former[t] = Former[u]
      BY <1>3, <3>1
    <3>3. QED
      BY <1>6, <3>1, <3>2
  <2>2. QED
    BY <2>1
<1> HIDE DEF now, before
<1>11. QED
  BY <1>1, <1>5, <1>7, <1>8, <1>9, <1>10

\* A recommendation is about the database as it is.
LEMMA FindingsHold ==
  ASSUME ProjectFacts, published.recommendations = Findings
  PROVE  FindingsAreReal
<1>1. Recommended(Tenancy) = Holders(Observed) /\ Recommended({"IDX"}) = Bare(SelectPhysical)
  BY RecommendedTables
<1>2. ASSUME NEW t \in Recommended(Tenancy)
      PROVE  SaysItHolds(t) /\ Readable(t) /\ (linear => database[t].foreign \subseteq {"inline", "renamed"})
  <2>1. t \in Tables /\ <<t, Target[t]>> \in HoldingPairs(Models) /\ <<t, Target[t]>> \notin SelectPhysical.foreign
    BY <1>1, ObservedPairs DEF Holders
  <2>2. SaysItHolds(t) /\ Readable(t)
    <3>1. PICK u \in Tables : <<t, Target[t]>> = <<u, Target[u]>> /\ SaysItHolds(u) /\ Readable(u)
      BY <2>1, ModelPairs
    <3>2. QED
      BY <3>1
  <2>3. linear => database[t].foreign \cap {"constraint", "dropped"} = {}
    BY <2>1, PhysicalKeys
  <2>4. database[t].foreign \subseteq KeyKinds
    BY <2>1 DEF ProjectFacts, Histories
  <2>5. QED
    BY <2>2, <2>3, <2>4 DEF KeyKinds
<1>3. ASSUME NEW t \in Tables, SaysItHolds(t), Readable(t), Readable(Target[t]), database[t].foreign = {}
      PROVE  t \in Recommended(Tenancy)
  <2>1. <<t, Target[t]>> \in HoldingPairs(Models)
    BY <1>3, ModelPairs
  <2>2. <<t, Target[t]>> \notin SelectPhysical.foreign
    BY <1>3, PairOfTable
  <2>3. QED
    BY <1>1, <2>1, <2>2, ObservedPairs DEF Holders
<1>4. ASSUME NEW t \in Tables
      PROVE  /\ Ref(t) \in Replayed.indexed \cup Replayed.keys <=> database[t].index \cap {"plain", "dropped"} # {}
             /\ Ref(Former[t]) \in Replayed.indexed \cup Replayed.keys <=> "renamed" \in database[t].index
  BY CoveredColumns
<1>5. ASSUME NEW name \in Recommended({"IDX"})
      PROVE  \E t \in Tables :
               \/ /\ name = t /\ database[t].foreign \cap {"constraint", "dropped"} # {}
                  /\ database[t].index \subseteq {"sql", "conditional", "renamed"}
               \/ name = Former[t] /\ "renamed" \in database[t].foreign /\ "renamed" \notin database[t].index
  <2>1. /\ ~SelectPhysical.incomplete /\ Ref(name) \notin SelectPhysical.indexed \cup SelectPhysical.keys
        /\ \E p \in SelectPhysical.foreign : p[1] = name
    BY <1>1 DEF Bare, Uncovered
  <2>2. PICK p \in SelectPhysical.foreign : p[1] = name
    BY <2>1
  <2>3. PICK t \in Tables :
          /\ linear
          /\ \/ p = <<t, Target[t]>> /\ database[t].foreign \cap {"constraint", "dropped"} # {}
             \/ p = <<Former[t], Target[t]>> /\ "renamed" \in database[t].foreign
    BY PhysicalKeys
  <2>4. SelectPhysical = Replayed
    BY <2>3 DEF SelectPhysical
  <2>5. "computed" \notin database[t].index
    BY <2>1, <2>4 DEF Replayed
  <2>6. database[t].index \subseteq IndexKinds
    BY DEF ProjectFacts, Histories
  <2>7. CASE p = <<t, Target[t]>> /\ database[t].foreign \cap {"constraint", "dropped"} # {}
    <3>1. name = t
      BY <2>2, <2>7
    <3>2. database[t].index \cap {"plain", "dropped"} = {}
      BY <1>4, <2>1, <2>4, <3>1
    <3>3. database[t].index \subseteq {"sql", "conditional", "renamed"}
      BY <2>5, <2>6, <3>2 DEF IndexKinds
    <3>4. QED
      BY <2>7, <3>1, <3>3
  <2>8. CASE p = <<Former[t], Target[t]>> /\ "renamed" \in database[t].foreign
    <3>1. name = Former[t]
      BY <2>2, <2>8
    <3>2. "renamed" \notin database[t].index
      BY <1>4, <2>1, <2>4, <3>1
    <3>3. QED
      BY <2>8, <3>1, <3>2
  <2>9. QED
    BY <2>3, <2>7, <2>8
<1>6. ASSUME linear, \A t \in Tables : "computed" \notin database[t].index, NEW t \in Tables, Unindexed(t)
      PROVE  {t, Former[t]} \cap Recommended({"IDX"}) # {}
  <2>1. database[t].foreign \cap {"constraint", "renamed"} # {} /\ database[t].index = {}
    BY <1>6 DEF Unindexed
  <2>2. SelectPhysical = Replayed
    BY <1>6 DEF SelectPhysical
  <2>3. ~SelectPhysical.incomplete
    BY <1>6, <2>2 DEF Replayed
  <2>4. Ref(t) \notin SelectPhysical.indexed \cup SelectPhysical.keys
    BY <1>4, <2>1, <2>2
  <2>5. Ref(Former[t]) \notin SelectPhysical.indexed \cup SelectPhysical.keys
    BY <1>4, <2>1, <2>2
  <2>6. CASE "constraint" \in database[t].foreign
    <3>1. PICK p : p = <<t, Target[t]>>
      OBVIOUS
    <3>2. p \in SelectPhysical.foreign /\ p[1] = t
      BY <1>6, <2>6, <3>1, PhysicalKeys
    <3>3. t \in Bare(SelectPhysical)
      BY <2>3, <2>4, <3>2 DEF Bare, Uncovered
    <3>4. QED
      BY <1>1, <3>3
  <2>7. CASE "renamed" \in database[t].foreign
    <3>1. PICK p : p = <<Former[t], Target[t]>>
      OBVIOUS
    <3>2. p \in SelectPhysical.foreign /\ p[1] = Former[t]
      BY <1>6, <2>7, <3>1, PhysicalKeys
    <3>3. Former[t] \in Bare(SelectPhysical)
      BY <2>3, <2>5, <3>2 DEF Bare, Uncovered
    <3>4. QED
      BY <1>1, <3>3
  <2>8. QED
    BY <2>1, <2>6, <2>7
<1>7. QED
  BY <1>2, <1>3, <1>5, <1>6 DEF FindingsAreReal

(***************************************************************************)
(* A review                                                                *)
(***************************************************************************)

\* What a review holds is of the project and the file as they are, because no step of the
\* plan and no interview comes in between, and what it publishes is what it found.
WorkIs(context, found, asks) ==
  work = [physical |-> SelectPhysical, orm |-> Models, observed |-> Observed, context |-> context,
          recommendations |-> found, questions |-> asks]
Working == \E context, found, asks : WorkIs(context, found, asks)
Informed == \E found, asks : WorkIs(Context, found, asks)

ReviewFacts ==
  /\ stage \in {"idle", "context", "rules", "documents", "graph"}
  /\ stage # "idle" =>
       /\ phase = "idle"
       /\ Working
  /\ stage = "rules" => Informed
  /\ stage \in {"documents", "graph"} => WorkIs(Context, Findings, Asks)
  /\ stage = "graph" =>
       published.made /\ published.recommendations = Findings /\ published.questions = Asks
  /\ published.made => published.named = Named
  /\ ~published.made => todo = {} /\ refused = {}

LEMMA SameProject ==
  ASSUME UNCHANGED Project
  PROVE  /\ SelectPhysical' = SelectPhysical /\ Models' = Models /\ Observed' = Observed /\ Named' = Named
         /\ ProjectFacts => ProjectFacts'
         /\ \A t : (SaysItHolds(t)' <=> SaysItHolds(t)) /\ (Readable(t)' <=> Readable(t))
<1>1. source' = source /\ database' = database /\ linear' = linear
  BY DEF Project
<1>2. SelectPhysical' = SelectPhysical
  BY <1>1 DEF SelectPhysical, Replayed, Pairs, MadeAs
<1>3. Models' = Models
  BY <1>1 DEF Models
<1>4. Observed' = Observed
  BY <1>2, <1>3 DEF Observed
<1>5. Named' = Named
  BY <1>3, <1>4 DEF Named
<1>6. ProjectFacts => ProjectFacts'
  BY <1>1 DEF ProjectFacts
<1>7. \A t : (SaysItHolds(t)' <=> SaysItHolds(t)) /\ (Readable(t)' <=> Readable(t))
  BY <1>1 DEF SaysItHolds, Readable
<1>8. QED
  BY <1>2, <1>3, <1>4, <1>5, <1>6, <1>7

LEMMA SameFindings ==
  ASSUME UNCHANGED Project, file'.context = file.context
  PROVE  Context' = Context /\ Findings' = Findings /\ Asks' = Asks
<1>1. SelectPhysical' = SelectPhysical /\ Models' = Models /\ Observed' = Observed
  BY SameProject
<1>2. Context' = Context
  BY DEF Context
<1>3. Findings' = Findings
  BY <1>1, <1>2 DEF Findings
<1>4. Asks' = Asks
  BY <1>1, <1>2 DEF Asks
<1>5. QED
  BY <1>2, <1>3, <1>4

LEMMA ReviewStepHolds ==
  ASSUME ProjectFacts, ReviewFacts, ReviewStep
  PROVE  ProjectFacts' /\ ReviewFacts' /\ UNCHANGED interviewVars
<1>1. UNCHANGED <<Project, refused, interviewVars>>
  BY DEF ReviewStep, Reconstruct, ResolveContext, ContextFails, Decide, WriteDocuments, WriteGraph
<1>2. /\ SelectPhysical' = SelectPhysical /\ Models' = Models /\ Observed' = Observed /\ Named' = Named
      /\ ProjectFacts'
  BY <1>1, SameProject
<1>3. phase' = phase /\ file' = file /\ refused' = refused
  BY <1>1 DEF interviewVars
<1>4. Context' = Context /\ Findings' = Findings /\ Asks' = Asks
  BY <1>1, <1>3, SameFindings
<1> SUFFICES ReviewFacts'
  BY <1>1, <1>2
<1>5. CASE Reconstruct
  <2>1. /\ stage' = "context" /\ UNCHANGED <<published, todo>> /\ phase = "idle"
        /\ work' = [NoWork EXCEPT !.physical = SelectPhysical, !.orm = Models, !.observed = Observed]
    BY <1>5 DEF Reconstruct, Models, Observed
  <2>2. work' = [physical |-> SelectPhysical, orm |-> Models, observed |-> Observed, context |-> NoContext,
                 recommendations |-> {}, questions |-> {}]
    BY <2>1 DEF NoWork
  <2>3. WorkIs(NoContext, {}, {})'
    BY <1>2, <2>2 DEF WorkIs
  <2>4. Working'
    BY <2>3 DEF Working
  <2>5. QED
    BY <1>2, <1>3, <2>1, <2>4 DEF ReviewFacts
<1>6. CASE ResolveContext
  <2>1. /\ stage = "context" /\ stage' = "rules" /\ UNCHANGED <<published, todo>>
        /\ work' = [work EXCEPT !.context = Context]
    BY <1>6 DEF ResolveContext, Context
  <2>2. PICK context, found, asks : WorkIs(context, found, asks)
    BY <2>1 DEF ReviewFacts, Working
  <2>3. work' = [physical |-> SelectPhysical, orm |-> Models, observed |-> Observed, context |-> Context,
                 recommendations |-> found, questions |-> asks]
    BY <2>1, <2>2 DEF WorkIs
  <2>4. WorkIs(Context, found, asks)'
    BY <1>2, <1>4, <2>3 DEF WorkIs
  <2>5. Informed' /\ Working'
    BY <2>4 DEF Informed, Working
  <2>6. QED
    BY <1>2, <1>3, <1>4, <2>1, <2>5 DEF ReviewFacts
<1>7. CASE Decide
  <2>1. stage = "rules" /\ stage' = "documents" /\ UNCHANGED <<published, todo>>
    BY <1>7 DEF Decide
  <2>2. PICK found, asks : WorkIs(Context, found, asks)
    BY <2>1 DEF ReviewFacts, Informed
  <2>3. work' = [work EXCEPT !.recommendations = Findings, !.questions = Asks]
    BY <1>7, <2>2 DEF Decide, Findings, Asks, WorkIs
  <2>4. work' = [physical |-> SelectPhysical, orm |-> Models, observed |-> Observed, context |-> Context,
                 recommendations |-> Findings, questions |-> Asks]
    BY <2>2, <2>3 DEF WorkIs
  <2>5. WorkIs(Context, Findings, Asks)'
    BY <1>2, <1>4, <2>4 DEF WorkIs
  <2>6. Working'
    BY <2>5 DEF Working
  <2>7. QED
    BY <1>2, <1>3, <2>1, <2>5, <2>6 DEF ReviewFacts
<1>8. CASE WriteDocuments
  <2>1. /\ stage = "documents" /\ stage' = "graph" /\ UNCHANGED work
        /\ published' = [made |-> TRUE, recommendations |-> work.recommendations, questions |-> work.questions,
                         named |-> work.observed.missing \cup work.orm.unsupported]
    BY <1>8 DEF WriteDocuments
  <2>2. WorkIs(Context, Findings, Asks)
    BY <2>1 DEF ReviewFacts
  <2>3. published' = [made |-> TRUE, recommendations |-> Findings, questions |-> Asks, named |-> Named]
    BY <2>1, <2>2 DEF Named, WorkIs
  <2>4. WorkIs(Context, Findings, Asks)'
    BY <1>2, <1>4, <2>1, <2>2 DEF WorkIs
  <2>5. Working'
    BY <2>4 DEF Working
  <2>6. phase = "idle"
    BY <2>1 DEF ReviewFacts
  <2>7. QED
    BY <1>2, <1>3, <1>4, <2>1, <2>3, <2>4, <2>5, <2>6 DEF ReviewFacts
<1>9. CASE WriteGraph
  <2>1. stage = "graph" /\ stage' = "idle" /\ UNCHANGED <<published, todo>>
    BY <1>9 DEF WriteGraph
  <2>2. QED
    BY <1>2, <1>3, <2>1 DEF ReviewFacts
<1>10. CASE ContextFails
  <2>1. stage = "context" /\ stage' = "idle" /\ UNCHANGED <<published, todo>>
    BY <1>10 DEF ContextFails
  <2>2. QED
    BY <1>2, <1>3, <2>1 DEF ReviewFacts
<1>11. QED
  BY <1>5, <1>6, <1>7, <1>8, <1>9, <1>10 DEF ReviewStep

\* A step of the plan changes keys and indexes, and no table or column.
LEMMA RunStepChanges ==
  ASSUME ProjectFacts, NEW x, x.action \in {"not_valid", "validate", "index"},
         x.on \in Tables \/ x.action = "index", RunStep(x)
  PROVE  /\ UNCHANGED <<source, linear>> /\ stage = "idle" /\ UNCHANGED <<reviewVars, interviewVars>>
         /\ database' \in [Tables -> Histories]
         /\ \A t \in Tables : /\ database'[t].table = database[t].table /\ database'[t].ref = database[t].ref
                              /\ database'[t].moved = database[t].moved
                              /\ database[t].foreign \subseteq database'[t].foreign
                              /\ database'[t].foreign = database[t].foreign
                                   \/ (HasRef(t) /\ Exists(Target[t]) /\ t = x.on /\ x.action = "not_valid")
         /\ ~Runs(x) => UNCHANGED database
         /\ Runs(x) /\ x.action = "not_valid" => "constraint" \in database'[x.on].foreign
<1>1. UNCHANGED <<source, linear>> /\ stage = "idle" /\ UNCHANGED <<reviewVars, interviewVars>>
  BY DEF RunStep
<1>2. CASE ~Runs(x)
  <2>1. database' = database
    BY <1>2 DEF RunStep
  <2>2. QED
    BY <1>1, <1>2, <2>1 DEF ProjectFacts
<1>3. CASE Runs(x)
  <2>1. PICK o, h : o = x.on /\ h = Changed(database[o], x.action)
    OBVIOUS
  <2>2. o \in Tables
    BY <1>3, <2>1 DEF Runs
  <2>3. database' = [database EXCEPT ![o] = h] /\ database[o] \in Histories
    BY <1>3, <2>1, <2>2 DEF RunStep, ProjectFacts
  <2>4. /\ h \in Histories /\ h.table = database[o].table /\ h.ref = database[o].ref
        /\ h.moved = database[o].moved
        /\ h.foreign = IF x.action = "not_valid" THEN database[o].foreign \cup {"constraint"} ELSE database[o].foreign
    <3>1. CASE x.action = "not_valid"
      BY <2>1, <2>3, <3>1 DEF Changed, Histories, KeyKinds
    <3>2. CASE x.action = "validate"
      BY <2>1, <2>3, <3>2 DEF Changed, Histories
    <3>3. CASE x.action = "index"
      BY <2>1, <2>3, <3>3 DEF Changed, Histories, IndexKinds
    <3>4. QED
      BY <3>1, <3>2, <3>3
  <2>5. x.action = "not_valid" => HasRef(o) /\ Exists(Target[o])
    BY <1>3, <2>1 DEF Runs
  <2>6. database' \in [Tables -> Histories]
    BY <2>2, <2>3, <2>4 DEF ProjectFacts
  <2>7. \A t \in Tables : database'[t] = IF t = o THEN h ELSE database[t]
    BY <2>2, <2>3 DEF ProjectFacts
  <2>8. \A t \in Tables : /\ database'[t].table = database[t].table /\ database'[t].ref = database[t].ref
                          /\ database'[t].moved = database[t].moved
                          /\ database[t].foreign \subseteq database'[t].foreign
                          /\ database'[t].foreign = database[t].foreign
                               \/ (HasRef(t) /\ Exists(Target[t]) /\ t = x.on /\ x.action = "not_valid")
    BY <2>1, <2>4, <2>5, <2>7
  <2>9. x.action = "not_valid" => "constraint" \in database'[x.on].foreign
    BY <2>1, <2>2, <2>4, <2>7
  <2>10. QED
    BY <1>1, <1>3, <2>6, <2>8, <2>9
<1>4. QED
  BY <1>2, <1>3

LEMMA RunStepReviewed ==
  ASSUME ProjectFacts, ReviewFacts, NEW x \in todo, RunStep(x),
         x.action \in {"not_valid", "validate", "index"}, x.on \in Tables \/ x.action = "index",
         x.action = "not_valid" => Target[x.on] \in Tables
  PROVE  ProjectFacts' /\ ReviewFacts' /\ UNCHANGED interviewVars /\ Named' = Named
<1>1. /\ UNCHANGED <<source, linear>> /\ stage = "idle" /\ UNCHANGED <<reviewVars, interviewVars>>
      /\ database' \in [Tables -> Histories]
      /\ \A t \in Tables : /\ database'[t].table = database[t].table /\ database'[t].ref = database[t].ref
                           /\ database'[t].moved = database[t].moved
                           /\ database'[t].foreign = database[t].foreign
                                \/ (HasRef(t) /\ Exists(Target[t]) /\ t = x.on /\ x.action = "not_valid")
  BY RunStepChanges
<1>2. stage' = "idle" /\ published' = published
  BY <1>1 DEF reviewVars
<1>3. ProjectFacts'
  <2>1. SUFFICES ASSUME NEW t \in Tables, database'[t].foreign # {}
                 PROVE  Target[t] # None /\ database'[t].table # "absent" /\ database'[t].ref # "none"
    BY <1>1 DEF ProjectFacts
  <2>2. CASE database'[t].foreign = database[t].foreign
    BY <1>1, <2>1, <2>2 DEF ProjectFacts
  <2>3. CASE HasRef(t) /\ Exists(Target[t]) /\ x.action = "not_valid" /\ t = x.on
    <3>1. database'[t].table # "absent" /\ database'[t].ref # "none"
      BY <1>1, <2>3 DEF HasRef, Exists
    <3>2. QED
      BY <2>3, <3>1, TablesAssumption
  <2>4. QED
    BY <1>1, <2>2, <2>3
<1>4. Named' = Named
  <2>1. /\ SelectPhysical'.tables = SelectPhysical.tables
        /\ SelectPhysical'.columns = SelectPhysical.columns
    <3>1. {t \in Tables : database'[t].table = "created"} = {t \in Tables : database[t].table = "created"}
      BY <1>1
    <3>2. PICK created : created = {t \in Tables : database[t].table = "created"}
      OBVIOUS
    <3>3. {u \in created : database'[u].ref # "none"} = {u \in created : database[u].ref # "none"}
      BY <1>1, <3>2
    <3>4. {[table |-> MadeAs(t)', column |-> RefColumn[t], nullable |-> database'[t].ref = "nullable"] :
             t \in {u \in created : database[u].ref # "none"}}
          = {[table |-> MadeAs(t), column |-> RefColumn[t], nullable |-> database[t].ref = "nullable"] :
               t \in {u \in created : database[u].ref # "none"}}
      BY <1>1, <3>2 DEF MadeAs
    <3>7. {[table |-> MadeAs(t)', column |-> "id", nullable |-> TRUE] : t \in created}
          = {[table |-> MadeAs(t), column |-> "id", nullable |-> TRUE] : t \in created}
      BY <1>1, <3>2 DEF MadeAs
    <3>5. Replayed'.tables = Replayed.tables /\ Replayed'.columns = Replayed.columns
      BY <3>1, <3>2, <3>3, <3>4, <3>7 DEF Replayed
    <3>6. QED
      BY <1>1, <3>5 DEF SelectPhysical
  <2>2. Models' = Models
    BY <1>1 DEF Models
  <2>3. Missing(SelectPhysical', Models) = Missing(SelectPhysical, Models)
    BY <2>1 DEF Missing, ColumnsOf
  <2>4. Missing(SelectPhysical, Models)' = Missing(SelectPhysical', Models)
    BY <2>2
  <2>5. Observed.missing' = Observed.missing
    BY <2>3, <2>4 DEF Observed, Reconcile
  <2>6. QED
    BY <2>2, <2>5 DEF Named
<1>5. ~published.made => FALSE
  BY DEF ReviewFacts
<1>6. QED
  BY <1>1, <1>2, <1>3, <1>4, <1>5 DEF ReviewFacts

(***************************************************************************)
(* The plan                                                                *)
(***************************************************************************)

\* What a step needs is still to come or was done: a key to validate is in the database,
\* or the step that adds it is still in the plan and this one waits for it.
StepIs(x) ==
  \/ /\ x.action = "not_valid" /\ x.needs = {} /\ x.on \in Tables
     /\ SaysItHolds(x.on) /\ Readable(x.on) /\ Target[x.on] \in Tables /\ Readable(Target[x.on])
  \/ x.action = "index" /\ x.needs = {} /\ (x.on \in Tables => database[x.on].foreign # {})
  \/ /\ x.action = "validate" /\ x.on \in Tables
     /\ \/ "constraint" \in database[x.on].foreign
        \/ \E s \in todo : s.action = "not_valid" /\ s.on = x.on /\ x.needs = {s.id}

TodoFacts == \A x \in todo : StepIs(x)

\* The plan of a review that has found what it holds.
LEMMA PlanHolds ==
  ASSUME ProjectFacts, todo' = MigrationPlan(Findings), UNCHANGED Project
  PROVE  TodoFacts'
<1>1. source' = source /\ database' = database /\ linear' = linear
  BY DEF Project
<1>2. ASSUME NEW rec \in ConstraintsToAdd(Observed, Context), NEW x \in ExpandChange(rec)
      PROVE  StepIs(x)'
  <2>1. rec.on \in Holders(Observed) /\ rec.id[1] \in Tenancy
    BY ConstraintTables
  <2>2. rec.on \in Tables /\ <<rec.on, Target[rec.on]>> \in HoldingPairs(Models)
    BY <2>1, ObservedPairs DEF Holders
  <2>3. /\ SaysItHolds(rec.on) /\ Readable(rec.on)
        /\ Target[rec.on] \in Tables /\ Readable(Target[rec.on])
    BY <2>2, ModelPairs
  <2>4. /\ SaysItHolds(rec.on)' /\ Readable(rec.on)' /\ Readable(Target[rec.on])'
    BY <2>3, SameProject
  <2>5. rec.id[1] # "IDX"
    BY <2>1 DEF Tenancy
  <2>6. rec \in Findings
    BY DEF Findings
  <2> DEFINE first == Step(rec, 0, "not_valid", {})
             second == Step(rec, 1, "validate", {<<rec.id, 0>>})
  <2>7. ExpandChange(rec) = {first, second}
    BY <2>5 DEF ExpandChange
  <2>8. /\ first.action = "not_valid" /\ first.needs = {} /\ first.on = rec.on /\ first.id = <<rec.id, 0>>
        /\ second.action = "validate" /\ second.needs = {first.id} /\ second.on = rec.on
    BY DEF Step
  <2>9. first \in todo'
    BY <2>6, <2>7 DEF MigrationPlan
  <2> HIDE DEF first, second
  <2>10. CASE x = first
    BY <2>2, <2>3, <2>4, <2>8, <2>10 DEF StepIs
  <2>11. CASE x = second
    BY <2>2, <2>8, <2>9, <2>11 DEF StepIs
  <2>12. QED
    BY <2>7, <2>10, <2>11
<1>3. ASSUME NEW rec \in IndexesToAdd(SelectPhysical), NEW x \in ExpandChange(rec)
      PROVE  StepIs(x)'
  <2>1. rec.on \in Bare(SelectPhysical) /\ rec.id[1] = "IDX"
    BY IndexTables, PhysicalKeys
  <2>2. rec.on \in Tables => database[rec.on].foreign # {}
    <3>1. PICK p \in SelectPhysical.foreign : p[1] = rec.on
      BY <2>1 DEF Bare, Uncovered
    <3>2. PICK t \in Tables : \/ p[1] = t /\ database[t].foreign # {}
                             \/ p[1] = Former[t]
      BY PhysicalKeys
    <3>3. QED
      BY <3>1, <3>2, FormerAssumption
  <2>3. x.action = "index" /\ x.needs = {} /\ x.on = rec.on
    BY <2>1 DEF ExpandChange, Step
  <2>4. QED
    BY <1>1, <2>2, <2>3 DEF StepIs
<1>4. ASSUME NEW x \in todo' PROVE StepIs(x)'
  <2>1. PICK rec \in Findings : x \in ExpandChange(rec)
    BY DEF MigrationPlan
  <2>2. QED
    BY <1>2, <1>3, <2>1 DEF Findings
<1>5. QED
  BY <1>4 DEF TodoFacts

LEMMA StepKinds ==
  ASSUME TodoFacts, NEW x \in todo
  PROVE  /\ x.action \in {"not_valid", "validate", "index"} /\ (x.on \in Tables \/ x.action = "index")
         /\ x.action = "not_valid" => Target[x.on] \in Tables
BY DEF TodoFacts, StepIs

\* Once what it needs is done, a step to validate is never refused, nor an index on a table
\* that has its name.
LEMMA RefusedIsAKey ==
  ASSUME ProjectFacts, TodoFacts, NEW x \in todo, RunStep(x), ~Runs(x)
  PROVE  x.action = "not_valid" \/ (x.action = "index" /\ x.on \notin Tables)
<1>1. StepIs(x)
  BY DEF TodoFacts
<1>2. \A s \in todo : s.id \notin x.needs
  BY DEF RunStep
<1>3. x.action # "validate"
  BY <1>1, <1>2 DEF StepIs, Runs
<1>4. x.action = "index" => x.on \notin Tables
  BY <1>1 DEF StepIs, Runs, HasRef, Exists, ProjectFacts
<1>5. QED
  BY <1>1, <1>3, <1>4 DEF StepIs

LEMMA RunStepTodo ==
  ASSUME ProjectFacts, TodoFacts, NEW x \in todo, RunStep(x)
  PROVE  TodoFacts'
<1>1. /\ x.action \in {"not_valid", "validate", "index"} /\ (x.on \in Tables \/ x.action = "index")
  BY StepKinds
<1>2. /\ UNCHANGED <<source, linear>>
      /\ \A t \in Tables : database[t].foreign \subseteq database'[t].foreign
      /\ Runs(x) /\ x.action = "not_valid" => "constraint" \in database'[x.on].foreign
  BY <1>1, RunStepChanges
<1>3. \A t : (SaysItHolds(t)' <=> SaysItHolds(t)) /\ (Readable(t)' <=> Readable(t))
  BY <1>2 DEF SaysItHolds, Readable
<1>4. todo' = IF Runs(x) THEN todo \ {x} ELSE {s \in todo \ {x} : x.id \notin s.needs}
  BY DEF RunStep
<1>5. ASSUME NEW y \in todo' PROVE StepIs(y)'
  <2>1. y \in todo /\ (~Runs(x) => x.id \notin y.needs) /\ StepIs(y)
    BY <1>4 DEF TodoFacts
  <2>2. CASE y.action = "not_valid"
    BY <1>3, <2>1, <2>2 DEF StepIs
  <2>3. CASE y.action = "index"
    BY <1>2, <2>1, <2>3 DEF StepIs
  <2>4. CASE y.action = "validate"
    <3>1. CASE "constraint" \in database[y.on].foreign
      BY <1>2, <2>1, <2>4, <3>1 DEF StepIs
    <3>2. CASE \E s \in todo : s.action = "not_valid" /\ s.on = y.on /\ y.needs = {s.id}
      <4>1. PICK s \in todo : s.action = "not_valid" /\ s.on = y.on /\ y.needs = {s.id}
        BY <3>2
      <4>2. s.needs = {} /\ y.on \in Tables
        BY <2>1, <2>4, <4>1 DEF TodoFacts, StepIs
      <4>3. CASE s = x
        <5>1. Runs(x)
          BY <2>1, <4>1, <4>3
        <5>2. "constraint" \in database'[y.on].foreign
          BY <1>2, <4>1, <4>3, <5>1
        <5>3. QED
          BY <2>4, <4>2, <5>2 DEF StepIs
      <4>4. CASE s # x
        <5>1. s \in todo'
          BY <1>4, <4>2, <4>4
        <5>2. QED
          BY <2>4, <4>1, <4>2, <5>1 DEF StepIs
      <4>5. QED
        BY <4>3, <4>4
    <3>3. QED
      BY <2>1, <2>4, <3>1, <3>2 DEF StepIs
  <2>5. QED
    BY <2>1, <2>2, <2>3, <2>4 DEF StepIs
<1>6. QED
  BY <1>5 DEF TodoFacts

\* A key that is refused lacks its table, its target or its column; the review has named
\* what no migration makes.
LEMMA RefusedIsNamed ==
  ASSUME ProjectFacts, NEW t \in Tables, SaysItHolds(t), Readable(t),
         Target[t] \in Tables, Readable(Target[t]), ~(HasRef(t) /\ Exists(Target[t])), source[t].ref # None
  PROVE  Named \cap {<<t>>, <<Target[t]>>, Ref(t), <<t, "column">>} # {}
<1>1. /\ Models.tables = {u \in Tables : Readable(u)}
      /\ Models.columns = Columns(source)
      /\ Models.unsupported = UnsupportedClasses(source) \cup UnsupportedStatements(source)
      /\ Mapped(source) = {u \in Tables : Readable(u)}
  BY DEF Models, ParseModels, Mapped, Readable
<1>2. Named = Missing(SelectPhysical, Models) \cup UnsupportedClasses(source) \cup UnsupportedStatements(source)
  BY <1>1, ObservedPairs DEF Named
<1>3. \A u \in Tables : Readable(u) /\ u \notin SelectPhysical.tables => <<u>> \in Named
  BY <1>1, <1>2 DEF Missing
<1>4. \A u \in Tables : ~Exists(u) => u \notin SelectPhysical.tables
  BY PhysicalKeys DEF Exists
<1>5. CASE ~Exists(Target[t])
  BY <1>3, <1>4, <1>5
<1>6. CASE t \notin SelectPhysical.tables
  BY <1>3, <1>6
<1>7. CASE t \in SelectPhysical.tables /\ Exists(Target[t])
  <2>1. database[t].ref = "none" /\ SelectPhysical = Replayed
    BY <1>4, <1>7, PhysicalKeys DEF HasRef, SelectPhysical
  <2>2. CASE t \in RefDeclared(source)
    <3>1. Ref(t) \in ColumnsOf(Models, t)
      <4>1. PICK c : c = [table |-> t, column |-> RefColumn[t], nullable |-> Nullable(source[t].ref)]
        OBVIOUS
      <4>2. c \in Models.columns
        BY <1>1, <2>2, <4>1 DEF Columns
      <4>3. QED
        BY <4>1, <4>2 DEF ColumnsOf, Ref
    <3>2. Ref(t) \notin ColumnsOf(SelectPhysical, t)
      <4>1. \A u \in Tables : MadeAs(u) = t => u = t
        BY FormerAssumption DEF MadeAs
      <4>2. \A c \in Replayed.columns : c.table = t => c.column = "id"
        BY <2>1, <4>1 DEF Replayed
      <4>3. RefColumn[t] # "id"
        BY TargetAssumption
      <4>4. QED
        BY <2>1, <4>2, <4>3 DEF ColumnsOf, Ref
    <3>3. t \in Models.tables \cap SelectPhysical.tables
      BY <1>1, <1>7
    <3>4. Ref(t) \in Missing(SelectPhysical, Models)
      BY <3>1, <3>2, <3>3 DEF Missing
    <3>5. QED
      BY <1>2, <3>4
  <2>3. CASE t \notin RefDeclared(source)
    <3>1. <<t, "column">> \in UnsupportedStatements(source)
      BY <1>1, <2>3 DEF UnsupportedStatements
    <3>2. QED
      BY <1>2, <3>1
  <2>4. QED
    BY <2>2, <2>3
<1>8. QED
  BY <1>5, <1>6, <1>7

ForetoldIs(x) ==
  \/ /\ x.action = "not_valid"
     /\ \/ Named \cap {<<x.on>>, <<Target[x.on]>>, Ref(x.on), <<x.on, "column">>} # {}
        \/ source[x.on].ref = None
  \/ x.action = "index" /\ x.on \notin Tables
Foretold == \A x \in refused : ForetoldIs(x)

LEMMA ForetoldIsPublished ==
  ASSUME ReviewFacts, Foretold
  PROVE  RefusalsAreForetold
<1>1. ASSUME NEW x \in refused PROVE published.named = Named /\ ForetoldIs(x)
  BY <1>1 DEF ReviewFacts, Foretold
<1>2. QED
  BY <1>1 DEF RefusalsAreForetold, ForetoldIs

LEMMA RunStepForetold ==
  ASSUME ProjectFacts, TodoFacts, Foretold, NEW x \in todo, RunStep(x), Named' = Named
  PROVE  Foretold'
<1>1. source' = source
  BY DEF RunStep
<1>2. \A y \in refused : ForetoldIs(y)'
  BY <1>1 DEF Foretold, ForetoldIs, Ref
<1>3. CASE Runs(x)
  <2>1. refused' = refused
    BY <1>3 DEF RunStep
  <2>2. QED
    BY <1>2, <2>1 DEF Foretold
<1>4. CASE ~Runs(x)
  <2>1. PICK y : y = [action |-> x.action, on |-> x.on]
    OBVIOUS
  <2>2. refused' = refused \cup {y} /\ y.action = x.action /\ y.on = x.on
    BY <1>4, <2>1 DEF RunStep
  <2>3. ForetoldIs(x)
    <3>1. CASE x.action = "not_valid"
      <4>1. /\ x.on \in Tables /\ SaysItHolds(x.on) /\ Readable(x.on)
            /\ Target[x.on] \in Tables /\ Readable(Target[x.on])
        BY <3>1 DEF TodoFacts, StepIs
      <4>2. ~(HasRef(x.on) /\ Exists(Target[x.on]))
        BY <1>4, <3>1 DEF Runs
      <4>3. source[x.on].ref # None => Named \cap {<<x.on>>, <<Target[x.on]>>, Ref(x.on), <<x.on, "column">>} # {}
        BY <4>1, <4>2, RefusedIsNamed
      <4>4. QED
        BY <3>1, <4>3 DEF ForetoldIs
    <3>2. CASE x.action = "index" /\ x.on \notin Tables
      BY <3>2 DEF ForetoldIs
    <3>3. QED
      BY <1>4, <3>1, <3>2, RefusedIsAKey
  <2>7. ForetoldIs(y)
    BY <2>2, <2>3 DEF ForetoldIs
  <2>8. ForetoldIs(y)'
    BY <1>1, <2>7 DEF ForetoldIs, Ref
  <2>9. QED
    BY <1>2, <2>2, <2>8 DEF Foretold
<1>5. QED
  BY <1>3, <1>4

(***************************************************************************)
(* The drawing                                                             *)
(***************************************************************************)

\* The drawing either shows what was found, or a key ends where there is no table to draw.
LEMMA DrawingHolds ==
  ASSUME ProjectFacts
  PROVE  \/ Closed(Drawn(SelectPhysical, Models))
         \/ \E t \in Tables : linear /\ Dangling(t)
<1> DEFINE drawing == Drawn(SelectPhysical, Models)
<1>1. /\ drawing.tables = SelectPhysical.tables \cup Models.tables /\ drawing.solid = SelectPhysical.foreign
      /\ drawing.dashed = HoldingPairs(Models) \ SelectPhysical.foreign
      /\ drawing.via = {<<r.from, r.to>> : r \in {s \in Models.relationships : s.via}}
  BY DEF Drawn, DrawnTables
<1>2. SUFFICES ASSUME ~Closed(drawing)
               PROVE  \E t \in Tables : linear /\ Dangling(t)
  OBVIOUS
<1> HIDE DEF drawing
<1>3. PICK p \in drawing.solid \cup drawing.dashed \cup drawing.via :
        \E u \in {p[1], p[2]} : u \notin drawing.tables
  BY <1>2 DEF Closed, Endpoints
<1>4. Models.tables = {t \in Tables : Readable(t)}
  BY ModelPairs
<1>5. p \notin drawing.dashed
  <2>1. SUFFICES ASSUME p \in HoldingPairs(Models) PROVE FALSE
    BY <1>1
  <2>2. PICK t \in Tables : p = <<t, Target[t]>> /\ Readable(t) /\ Target[t] \in Tables /\ Readable(Target[t])
    BY <2>1, ModelPairs
  <2>3. QED
    BY <1>1, <1>3, <1>4, <2>2
<1>6. p \notin drawing.via
  <2>1. SUFFICES ASSUME NEW r \in Models.relationships, p = <<r.from, r.to>> PROVE FALSE
    BY <1>1
  <2>2. r.from \in Models.tables /\ r.to \in Models.tables
    BY ModelPairs
  <2>3. QED
    BY <1>1, <1>3, <2>1, <2>2
<1>7. p \in SelectPhysical.foreign
  BY <1>1, <1>3, <1>5, <1>6
<1>8. PICK t \in Tables :
        /\ linear
        /\ \/ p = <<t, Target[t]>> /\ database[t].foreign \cap {"constraint", "dropped"} # {}
           \/ "renamed" \in database[t].foreign
  BY <1>7, PhysicalKeys
<1>9. CASE "renamed" \in database[t].foreign
  BY <1>8, <1>9 DEF Dangling
<1>10. CASE p = <<t, Target[t]>> /\ database[t].foreign \cap {"constraint", "dropped"} # {}
  <2>1. Target[t] \in Tables
    BY <1>10, TargetAssumption DEF ProjectFacts
  <2>2. PICK u \in {t, Target[t]} : u \notin drawing.tables
    BY <1>3, <1>10
  <2>3. database[u].table # "created" /\ ~Readable(u)
    BY <1>1, <1>4, <1>8, <2>1, <2>2, PhysicalKeys
  <2>4. QED
    BY <1>8, <1>10, <2>2, <2>3 DEF Dangling
<1>11. QED
  BY <1>8, <1>9, <1>10

\* Until a review has written its documents, the drawing is that of the documents.
DrawingKept == stage # "graph" /\ published.made => DrawingAgrees

LEMMA ReviewStepArtifacts ==
  ASSUME ProjectFacts, ReviewFacts, DrawingKept, ReviewStep
  PROVE  DrawingKept'
<1>1. CASE Reconstruct \/ ResolveContext \/ ContextFails \/ Decide
  <2>1. UNCHANGED <<Project, published, graph>> /\ stage # "graph"
    BY <1>1 DEF Reconstruct, ResolveContext, ContextFails, Decide
  <2>2. source' = source /\ database' = database /\ linear' = linear /\ published' = published /\ graph' = graph
    BY <2>1 DEF Project
  <2>3. DrawingAgrees' <=> DrawingAgrees
    BY <2>2 DEF DrawingAgrees, Dangling, Readable, Recommended
  <2>4. QED
    BY <2>1, <2>2, <2>3 DEF DrawingKept
<1>4. CASE WriteDocuments
  BY <1>4 DEF WriteDocuments, DrawingKept
<1>2. CASE WriteGraph
  <2>1. /\ stage = "graph" /\ UNCHANGED <<Project, published>>
        /\ graph' = IF Closed(Drawn(work.physical, work.orm))
                    THEN [made |-> TRUE, drawing |-> Drawn(work.physical, work.orm)] ELSE graph
    BY <1>2 DEF WriteGraph
  <2>2. work.physical = SelectPhysical /\ work.orm = Models /\ published.recommendations = Findings
    BY <2>1 DEF ReviewFacts, WorkIs
  <2>3. source' = source /\ database' = database /\ linear' = linear
    BY <2>1 DEF Project
  <2>4. CASE Closed(Drawn(SelectPhysical, Models))
    <3>1. graph' = [made |-> TRUE, drawing |-> Drawn(SelectPhysical, Models)]
      BY <2>1, <2>2, <2>4
    <3>2. /\ graph'.made /\ graph'.drawing.solid = SelectPhysical.foreign
          /\ graph'.drawing.dashed = HoldingPairs(Models) \ SelectPhysical.foreign
      BY <3>1 DEF Drawn
    <3>3. Recommended(Tenancy)' = Holders(Observed) /\ Recommended({"IDX"})' = Bare(SelectPhysical)
      BY <2>1, <2>2, RecommendedTables DEF Recommended
    <3>4. graph'.drawing.dashed = {<<t, Target[t]>> : t \in Holders(Observed)}
      <4>1. \A p \in HoldingPairs(Models) : \E t \in Tables : p = <<t, Target[t]>>
        BY ModelPairs
      <4>2. \A p \in graph'.drawing.dashed : \E t \in Holders(Observed) : p = <<t, Target[t]>>
        BY <3>2, <4>1, ObservedPairs DEF Holders
      <4>3. \A t \in Holders(Observed) : <<t, Target[t]>> \in graph'.drawing.dashed
        BY <3>2, ObservedPairs DEF Holders
      <4>4. QED
        BY <4>2, <4>3
    <3>5. {<<t, Target[t]>> : t \in Bare(SelectPhysical) \cap Tables} \subseteq graph'.drawing.solid
      <4>1. SUFFICES ASSUME NEW t \in Bare(SelectPhysical), t \in Tables
                     PROVE  <<t, Target[t]>> \in SelectPhysical.foreign
        BY <3>2
      <4>2. PICK p \in SelectPhysical.foreign : p[1] = t
        BY <4>1 DEF Bare, Uncovered
      <4>3. PICK u \in Tables : p = <<u, Target[u]>> \/ p = <<Former[u], Target[u]>>
        BY PhysicalKeys
      <4>4. p = <<t, Target[t]>>
        BY <4>1, <4>2, <4>3, FormerAssumption
      <4>5. QED
        BY <4>4
    <3>6. graph'.drawing.solid \cap graph'.drawing.dashed = {}
      BY <3>2
    <3>7. QED
      BY <3>2, <3>3, <3>4, <3>5, <3>6 DEF DrawingKept, DrawingAgrees
  <2>5. CASE \E t \in Tables : linear /\ Dangling(t)
    BY <2>3, <2>5 DEF DrawingKept, DrawingAgrees, Dangling, Readable
  <2>6. QED
    BY <2>4, <2>5, DrawingHolds
<1>3. QED
  BY <1>1, <1>2, <1>4 DEF ReviewStep

LEMMA RunStepArtifacts ==
  ASSUME ProjectFacts, TodoFacts, DrawingKept, NEW x \in todo, RunStep(x)
  PROVE  DrawingKept'
<1>1. /\ x.action \in {"not_valid", "validate", "index"} /\ (x.on \in Tables \/ x.action = "index")
  BY StepKinds
<1>2. /\ UNCHANGED <<source, linear>> /\ stage = "idle" /\ UNCHANGED <<reviewVars, interviewVars>>
      /\ \A t \in Tables : /\ database'[t].table = database[t].table
                           /\ database[t].foreign \subseteq database'[t].foreign
  BY <1>1, RunStepChanges
<1>3. stage' = stage /\ published' = published /\ graph' = graph /\ source' = source /\ linear' = linear
  BY <1>2 DEF reviewVars
<1>4. \A prefixes : Recommended(prefixes)' = Recommended(prefixes)
  BY <1>3 DEF Recommended
<1>5. ASSUME NEW t \in Tables, Dangling(t) PROVE Dangling(t)'
  <2>1. CASE "renamed" \in database[t].foreign
    BY <1>2, <2>1 DEF Dangling
  <2>2. CASE "renamed" \notin database[t].foreign
    <3>1. database[t].foreign \cap {"constraint", "dropped"} # {}
      BY <1>5, <2>2 DEF Dangling
    <3>2. PICK u \in {t, Target[t]} : database[u].table # "created" /\ ~Readable(u)
      BY <1>5, <2>2 DEF Dangling
    <3>3. u \in Tables
      BY <3>1, <3>2, TargetAssumption DEF ProjectFacts
    <3>4. database'[t].foreign \cap {"constraint", "dropped"} # {}
      BY <1>2, <3>1
    <3>5. database'[u].table # "created" /\ ~Readable(u)'
      BY <1>2, <1>3, <3>2, <3>3 DEF Readable
    <3>6. QED
      BY <3>2, <3>4, <3>5 DEF Dangling
  <2>3. QED
    BY <2>1, <2>2
<1>6. DrawingAgrees => DrawingAgrees'
  BY <1>3, <1>4, <1>5 DEF DrawingAgrees
<1>7. QED
  BY <1>2, <1>3, <1>6 DEF DrawingKept

(***************************************************************************)
(* Answers and questions                                                   *)
(***************************************************************************)

LEMMA AnswersHold ==
  ASSUME InterviewInv, ReviewFacts
  PROVE  AnswersDecide
<1> SUFFICES ASSUME stage = "graph" PROVE AnswersDecide
  BY DEF AnswersDecide
<1>1. /\ phase = "idle" /\ WorkIs(Context, Findings, Asks)
      /\ published.recommendations = Findings /\ published.questions = Asks
  BY DEF ReviewFacts
<1>2. PICK c, rest : IsContext(c) /\ file = [context |-> ToToml(c), rest |-> rest]
                     /\ \A q \in Questions : told[q] = Heard(c, q)
  BY <1>1 DEF InterviewInv
<1>3. Context = c
  BY <1>2, FromTo DEF Context
<1>4. work.orm = Models
  BY <1>1 DEF WorkIs
<1>5. /\ c.answers \in [Questions -> AnswerStates]
      /\ (\A q \in c.given : c.answers[q] = "answered") /\ c.hollow \subseteq c.given
      /\ TenantQuestion \in c.given <=> c.tenant # "unknown"
  BY <1>2 DEF IsContext
<1>6. ASSUME NEW q \in published.questions
      PROVE  \/ told[q] \in {<<"blank">>, <<"noise">>}
             \/ q \in Remaining(HasTenantColumn(work.orm), work.context)
             \/ q = TenantQuestion /\ ~HasTenantColumn(work.orm)
  <2>1. work.context = c
    BY <1>1, <1>3 DEF WorkIs
  <2>2. /\ q \in Questions
        /\ c.answers[q] # "answered" \/ (q = TenantQuestion /\ c.tenant = "unknown")
    BY <1>1, <1>3, <1>6, TenantAssumption DEF Asks, RuleQuestions, Blockers
  <2>3. CASE c.answers[q] = "not_asked"
    BY <2>1, <2>2, <2>3 DEF Remaining, Applicable
  <2>4. CASE c.answers[q] # "not_asked"
    <3>1. ReplyIn(c, q) \in {"blank", "noise"}
      BY <1>5, <2>2, <2>4 DEF ReplyIn, AnswerStates
    <3>2. told[q] = <<ReplyIn(c, q)>>
      BY <1>2, <2>2, <2>4 DEF Heard
    <3>3. QED
      BY <3>1, <3>2
  <2>5. QED
    BY <2>3, <2>4
<1>7. ASSUME NEW m \in TenantModels, told[TenantQuestion] = <<m>>,
             NEW r \in published.recommendations, r.id[1] \in Tenancy
      PROVE  (r.id[1] = "TENANT") = (told[TenantQuestion] # <<"single_tenant">>)
  <2>1. m \notin {"unknown", "blank", "noise", "headless"}
    BY TenantAssumption
  <2>2. c.tenant = m
    <3>1. Heard(c, TenantQuestion) = <<m>>
      BY <1>2, <1>7, TenantAssumption
    <3>2. ReplyIn(c, TenantQuestion) = m
      <4>1. <<>> # <<m>>
        OBVIOUS
      <4>2. c.answers[TenantQuestion] # "not_asked"
        BY <3>1, <4>1 DEF Heard
      <4>3. <<ReplyIn(c, TenantQuestion)>> = <<m>>
        BY <3>1, <4>2 DEF Heard
      <4>4. QED
        BY <4>3
    <3>3. QED
      BY <2>1, <3>2 DEF ReplyIn
  <2>3. r \in ConstraintsToAdd(Observed, Context)
    <3>1. r \notin IndexesToAdd(SelectPhysical)
      BY <1>7, IndexTables, PhysicalKeys DEF Tenancy
    <3>2. QED
      BY <1>1, <3>1 DEF Findings
  <2>4. r.id[1] = IF TenantRelated(c, Target[r.on]) THEN "TENANT" ELSE "SCHEMA"
    BY <1>3, <2>3, ConstraintTables
  <2>5. TenantRelated(c, Target[r.on]) = (m # "single_tenant")
    BY <2>1, <2>2 DEF TenantRelated
  <2>6. (told[TenantQuestion] # <<"single_tenant">>) = (m # "single_tenant")
    BY <1>7
  <2>7. QED
    BY <2>4, <2>5, <2>6
<1>8. QED
  BY <1>6, <1>7 DEF AnswersDecide

(***************************************************************************)
(* The specification                                                       *)
(***************************************************************************)

DesignInv ==
  /\ ProjectFacts
  /\ InterviewInv
  /\ ReviewFacts
  /\ TodoFacts
  /\ Foretold
  /\ DrawingKept

LEMMA DesignInit == Init => DesignInv
<1> SUFFICES ASSUME Init PROVE DesignInv
  OBVIOUS
<1>1. ProjectFacts
  BY ProjectsAssumption DEF Init, ProjectFacts
<1>2. InterviewInv
  BY InterviewInvInit DEF Init
<1>3. /\ stage = "idle" /\ published = NothingPublished /\ todo = {} /\ refused = {}
  BY DEF Init
<1>4. ~published.made
  BY <1>3 DEF NothingPublished
<1>5. ReviewFacts
  BY <1>3, <1>4 DEF ReviewFacts
<1>6. TodoFacts /\ Foretold
  BY <1>3 DEF TodoFacts, Foretold
<1>7. DrawingKept
  BY <1>4 DEF DrawingKept
<1>8. QED
  BY <1>1, <1>2, <1>5, <1>6, <1>7 DEF DesignInv

\* The interview touches no project and nothing of a review, which has read its context
\* while no interview was under way.
LEMMA InterviewKeeps ==
  ASSUME ProjectFacts, InterviewInv, ReviewFacts, TodoFacts, Foretold, DrawingKept, UNCHANGED designVars,
         stage # "idle" => phase' = "idle" /\ file'.context = file.context
  PROVE  ProjectFacts' /\ ReviewFacts' /\ TodoFacts' /\ Foretold' /\ DrawingKept'
<1>1. /\ UNCHANGED Project /\ UNCHANGED <<stage, work, published, graph, todo, refused>>
  BY DEF designVars, Project
<1>2. /\ SelectPhysical' = SelectPhysical /\ Models' = Models /\ Observed' = Observed /\ Named' = Named
      /\ ProjectFacts' /\ \A t : (SaysItHolds(t)' <=> SaysItHolds(t)) /\ (Readable(t)' <=> Readable(t))
  BY <1>1, SameProject
<1>3. source' = source /\ database' = database /\ linear' = linear
  BY <1>1 DEF Project
<1>4. TodoFacts'
  BY <1>1, <1>2, <1>3 DEF TodoFacts, StepIs
<1>5. Foretold'
  BY <1>1, <1>2, <1>3 DEF Foretold, ForetoldIs, Ref
<1>6. DrawingKept'
  BY <1>1, <1>2, <1>3 DEF DrawingKept, DrawingAgrees, Dangling, Recommended
<1>7. ReviewFacts'
  <2>1. CASE stage = "idle"
    BY <1>1, <1>2, <2>1 DEF ReviewFacts
  <2>2. CASE stage # "idle"
    <3>1. Context' = Context /\ Findings' = Findings /\ Asks' = Asks
      BY <1>1, <2>2, SameFindings
    <3>2. \A c, f, a : WorkIs(c, f, a)' <=> WorkIs(c, f, a)
      BY <1>1, <1>2 DEF WorkIs
    <3>3. WorkIs(Context, Findings, Asks)' <=> WorkIs(Context, Findings, Asks)
      BY <1>1, <1>2, <3>1 DEF WorkIs
    <3>4. (Working' <=> Working) /\ (Informed' <=> Informed)
      BY <3>1, <3>2 DEF Working, Informed
    <3>5. QED
      BY <1>1, <1>2, <2>2, <3>1, <3>3, <3>4 DEF ReviewFacts
  <2>3. QED
    BY <2>1, <2>2
<1>8. QED
  BY <1>2, <1>4, <1>5, <1>6, <1>7

LEMMA DesignStep == DesignInv /\ [Next]_vars => DesignInv'
<1> SUFFICES ASSUME DesignInv, [Next]_vars PROVE DesignInv'
  OBVIOUS
<1> USE DEF DesignInv
<1>1. CASE ReviewStep
  <2>1. ProjectFacts' /\ ReviewFacts' /\ UNCHANGED interviewVars
    BY <1>1, ReviewStepHolds
  <2>2. DrawingKept'
    BY <1>1, ReviewStepArtifacts
  <2>3. InterviewInv'
    BY <2>1, SameInterview
  <2>4. UNCHANGED Project /\ refused' = refused
    BY <1>1 DEF ReviewStep, Reconstruct, ResolveContext, ContextFails, Decide, WriteDocuments, WriteGraph
  <2>5. /\ source' = source /\ database' = database /\ linear' = linear
    BY <2>4 DEF Project
  <2>6. /\ Named' = Named
        /\ \A t : (SaysItHolds(t)' <=> SaysItHolds(t)) /\ (Readable(t)' <=> Readable(t))
    BY <2>4, SameProject
  <2>7. Foretold'
    BY <2>4, <2>5, <2>6 DEF Foretold, ForetoldIs, Ref
  <2>8. TodoFacts'
    <3>1. CASE WriteDocuments
      <4>1. work.recommendations = Findings /\ todo' = MigrationPlan(work.recommendations)
        BY <3>1 DEF WriteDocuments, ReviewFacts, WorkIs
      <4>2. QED
        BY <2>4, <4>1, PlanHolds
    <3>2. CASE todo' = todo
      BY <2>5, <2>6, <3>2 DEF TodoFacts, StepIs
    <3>3. QED
      BY <1>1, <3>1, <3>2 DEF ReviewStep, Reconstruct, ResolveContext, ContextFails, Decide, WriteGraph
  <2>9. QED
    BY <2>1, <2>2, <2>3, <2>7, <2>8
<1>2. CASE \E x \in todo : RunStep(x)
  <2>1. PICK x \in todo : RunStep(x)
    BY <1>2
  <2>2. /\ x.action \in {"not_valid", "validate", "index"} /\ (x.on \in Tables \/ x.action = "index")
        /\ x.action = "not_valid" => Target[x.on] \in Tables
    BY StepKinds
  <2>3. ProjectFacts' /\ ReviewFacts' /\ UNCHANGED interviewVars /\ Named' = Named
    BY <2>1, <2>2, RunStepReviewed
  <2>4. TodoFacts' /\ Foretold' /\ DrawingKept'
    BY <2>1, <2>3, RunStepTodo, RunStepForetold, RunStepArtifacts
  <2>5. InterviewInv'
    BY <2>3, SameInterview
  <2>6. QED
    BY <2>3, <2>4, <2>5
<1>3. CASE Configure
  <2>1. stage = "idle" /\ UNCHANGED designVars /\ StartConfigure(HasTenantColumn(ParseModels(source)))
    BY <1>3 DEF Configure
  <2>2. InterviewInv'
    BY <2>1, StartConfigureHolds
  <2>3. QED
    BY <2>1, <2>2, InterviewKeeps
<1>4. CASE (InterviewStep \/ InterviewMishap) /\ UNCHANGED designVars
  <2>1. InterviewInv'
    BY <1>4, InterviewHolds
  <2>2. stage # "idle" => phase' = "idle" /\ file'.context = file.context
    <3>1. SUFFICES ASSUME stage # "idle" PROVE phase' = "idle" /\ file'.context = file.context
      OBVIOUS
    <3>2. phase = "idle"
      BY <3>1 DEF ReviewFacts
    <3>3. PICK rest \in Rests : Edit(rest)
      BY <1>4, <3>2 DEF InterviewStep, InterviewMishap, Answer, AnswerRaises, Truncate, Fill, Abandon, CrashWriting
    <3>4. phase' = phase /\ file' = [file EXCEPT !.rest = rest]
      BY <3>3 DEF Edit
    <3>5. PICK c, old : file = [context |-> ToToml(c), rest |-> old]
      BY <3>2 DEF InterviewInv
    <3>6. QED
      BY <3>2, <3>4, <3>5
  <2>3. QED
    BY <1>4, <2>1, <2>2, InterviewKeeps
<1>5. CASE UNCHANGED vars
  <2>1. UNCHANGED designVars /\ UNCHANGED interviewVars
    BY <1>5 DEF vars
  <2>2. phase' = phase /\ file' = file
    BY <2>1 DEF interviewVars
  <2>3. InterviewInv'
    BY <2>1, SameInterview
  <2>4. stage # "idle" => phase' = "idle" /\ file'.context = file.context
    BY <2>2 DEF ReviewFacts
  <2>5. QED
    BY <2>1, <2>3, <2>4, InterviewKeeps
<1>6. QED
  BY <1>1, <1>2, <1>3, <1>4, <1>5 DEF Next

LEMMA DesignAlways == Spec => []DesignInv
BY DesignInit, DesignStep, PTL DEF Spec

\* A review neither cries wolf nor looks away: what it recommends the database lacks, and
\* what the database lacks it recommends, but for keys inside columns, renamed tables,
\* ambiguous revisions and statements the replay does not read (rules/schema.py,
\* rules/workload.py).
THEOREM FindingsHoldAlways == Spec => []FindingsAreReal
<1>1. DesignInv => FindingsAreReal
  <2>1. CASE stage = "graph"
    BY <2>1, FindingsHold DEF DesignInv, ReviewFacts
  <2>2. CASE stage # "graph"
    BY <2>2 DEF FindingsAreReal
  <2>3. QED
    BY <2>1, <2>2
<1>2. QED
  BY <1>1, DesignAlways, PTL

\* In whatever order the steps of a plan are run that their dependencies allow, the database
\* refuses only the adding of a key, and the review has named what it lacks or the class has
\* no column for it, or an index on a table under its former name
\* (domain/migration_plan.py, domain/reconciliation.py).
THEOREM RefusalsHold == Spec => []RefusalsAreForetold
<1>1. DesignInv => RefusalsAreForetold
  BY ForetoldIsPublished DEF DesignInv
<1>2. QED
  BY <1>1, DesignAlways, PTL

\* The drawing and the recommendations agree on every relationship and key, or a key the
\* replay holds ends at a table nothing declares (adapters/diagrams/graph_ir.py, domain/graph.py).
THEOREM ArtifactsHold == Spec => []ArtifactsAgree
<1>1. DesignInv => ArtifactsAgree
  BY DEF DesignInv, DrawingKept, ArtifactsAgree
<1>2. QED
  BY <1>1, DesignAlways, PTL

\* What the developer answered stays answered, whatever is abandoned, edited or begun again,
\* unless a crash empties the file while it is written, and decides what a review asks and recommends (application/configure.py,
\* adapters/repository/config_toml.py).
THEOREM AnswersHoldAlways == Spec => []AnswersCount
<1>1. DesignInv => AnswersCount
  <2>1. ASSUME DesignInv PROVE AnswersDecide
    BY <2>1, AnswersHold DEF DesignInv
  <2>2. ASSUME DesignInv PROVE SavedIsKept
    BY <2>2, SavedStays DEF DesignInv
  <2>3. QED
    BY <2>1, <2>2 DEF AnswersCount
<1>2. QED
  BY <1>1, DesignAlways, PTL
=============================================================================
