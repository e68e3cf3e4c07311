------------------------------ MODULE Interview ------------------------------
(***************************************************************************)
(* `pgproof configure` (cli/commands/configure.py, application/            *)
(* configure.py, domain/questions.py) and the pgproof.toml it keeps its    *)
(* answers in (adapters/repository/config_toml.py), which the developer    *)
(* edits too.                                                              *)
(***************************************************************************)
EXTENDS Naturals, Sequences, FiniteSets

CONSTANTS
  Questions,       \* CORE_QUESTIONS
  Asked,           \* the place of each in the order they are asked in
  TenantQuestion,  \* the one of them whose answer is a choice
  TenantModels,    \* its choices
  ScaleQuestion,   \* CORE_TABLE_SCALE
  PairQuestions,   \* those whose answer is split in two at a comma
  Sections,        \* what the tables other than [context] and [runner] can hold
  Rests,           \* what the developer can write beside [context], see Rest
  FirstRest        \* and has written at first

ASSUME QuestionsAssumption == \A q, r \in Questions : Asked[q] \in Nat /\ (Asked[q] = Asked[r] => q = r)
ASSUME TenantAssumption ==
  /\ TenantQuestion \in Questions /\ TenantModels \cap {"unknown", "blank", "noise", "headless"} = {}
  /\ TenantQuestion \notin PairQuestions

\* The other tables; [runner], with some of its fields ("brief") or with all; and is there
\* anything else at the top, a value or an array of tables?
Rest == [sections : Sections, runner : {"absent", "brief", "full"}, loose : BOOLEAN]
NoSection == "none"
NoRest == [sections |-> NoSection, runner |-> "absent", loose |-> FALSE]
ASSUME RestAssumption == NoSection \in Sections /\ FirstRest \in Rests /\ Rests \subseteq Rest

VARIABLES
  file,      \* pgproof.toml: what the tables of [context] hold, and the rest
  phase,     \* of configure: "idle", "asking", "writing"
  draft,     \* the configuration in its memory
  told,      \* the reply to each question in the interviews that were completed, unless a
             \* crash has emptied the file since
  wanted     \* the rest as the developer last wrote it, unless a crash has emptied the
             \* file since or configure was asking meanwhile

interviewVars == <<file, phase, draft, told, wanted>>

(***************************************************************************)
(* The context and its table in pgproof.toml                               *)
(***************************************************************************)

\* An answer's state; the questions that gave a field of the context a value; those that
\* gave one the empty text; the tenant model.
NoContext ==
  [answers |-> [q \in Questions |-> "not_asked"], given |-> {}, hollow |-> {}, tenant |-> "unknown"]

\* (fault) an answer that is unknown is left out, like any default.
ToToml_Known(c) ==
  [answers |-> {<<q, c.answers[q]>> : q \in {p \in Questions : c.answers[p] = "answered"}},
   given |-> c.given, hollow |-> c.hollow, tenant |-> {c.tenant} \ {"unknown"}]

\* _context_to_toml leaves out what has its default value.
ToToml(c) ==
  [answers |-> {<<q, c.answers[q]>> : q \in {p \in Questions : c.answers[p] # "not_asked"}},
   given |-> c.given, hollow |-> c.hollow, tenant |-> {c.tenant} \ {"unknown"}]

EmptyTable == ToToml(NoContext)

\* read_config raises for an empty text, which write_config wrote without a look.
Legible == file.context.hollow = {}

\* _toml_to_context: what is absent has its default value.
FromToml(table) ==
  [answers |-> [q \in Questions |->
                  IF \E a \in table.answers : a[1] = q
                  THEN (CHOOSE a \in table.answers : a[1] = q)[2] ELSE "not_asked"],
   given |-> table.given, hollow |-> table.hollow,
   tenant |-> IF table.tenant = {} THEN "unknown" ELSE CHOOSE m \in table.tenant : TRUE]

(***************************************************************************)
(* The interview                                                           *)
(***************************************************************************)

\* (fault) without a tenant column nothing is asked.
Applicable_Short(tenantColumn) == {q \in Questions : tenantColumn}

Applicable(tenantColumn) == {q \in Questions : tenantColumn \/ q # TenantQuestion}

Remaining(tenantColumn, c) == {q \in Applicable(tenantColumn) : c.answers[q] = "not_asked"}

\* What is typed: nothing; a value; a text no value can be taken from; one that begins
\* with the comma of a pair; or, for table scales, one with a count that is no number.
Replies(q) ==
  {"blank"} \cup (IF q \in PairQuestions THEN {"headless"} ELSE {"noise"})
  \cup (IF q = TenantQuestion THEN TenantModels ELSE {"value"})

\* apply_core_answer and apply_table_scale_answer: model_copy checks no value.
Applied(c, q, reply) ==
  LET valued == reply \notin {"blank", "noise"}
  IN  [answers |-> [c.answers EXCEPT ![q] = IF reply = "blank" THEN "unknown" ELSE "answered"],
       given |-> IF valued THEN c.given \cup {q} ELSE c.given,
       hollow |-> IF reply = "headless" THEN c.hollow \cup {q} ELSE c.hollow,
       tenant |-> IF valued /\ q = TenantQuestion THEN reply ELSE c.tenant]

\* (fault) a file is written without the tables this version does not know.
Kept_Known(rest) == [rest EXCEPT !.sections = NoSection, !.loose = FALSE]

\* What read_config and then write_config make of the rest: of what is not a table nothing
\* is read, and every field of [runner] is written.
Kept(rest) == [rest EXCEPT !.runner = IF rest.runner = "brief" THEN "full" ELSE rest.runner,
                           !.loose = FALSE]

InterviewInit ==
  /\ wanted = FirstRest
  /\ file = [context |-> EmptyTable, rest |-> wanted]
  /\ phase = "idle"
  /\ draft = <<>>
  /\ told = [q \in Questions |-> <<>>]

NoDraft == <<>>

\* The models are parsed, then the file is read.
StartConfigure(tenantColumn) ==
  /\ phase = "idle" /\ Legible
  /\ phase' = "asking"
  /\ draft' = [context |-> FromToml(file.context), rest |-> Kept(file.rest), base |-> wanted,
               tenantColumn |-> tenantColumn, said |-> {}]
  /\ UNCHANGED <<file, told, wanted>>

Left == Remaining(draft.tenantColumn, draft.context)

\* The first question that is left gets the reply.
IsNext(q) == \A p \in Left : Asked[q] <= Asked[p]

Answer(reply) ==
  /\ phase = "asking"
  /\ \E q \in Left :
       /\ IsNext(q)
       /\ reply \in Replies(q)
       /\ draft' = [draft EXCEPT !.context = Applied(draft.context, q, reply),
                                 !.said = draft.said \cup {<<q, reply>>}]
  /\ UNCHANGED <<file, phase, told, wanted>>

\* A count of a table's rows that is no number raises in TableScale, and what was said in
\* this interview is lost.
AnswerRaises ==
  /\ phase = "asking" /\ ScaleQuestion \in Left /\ IsNext(ScaleQuestion)
  /\ phase' = "idle" /\ draft' = NoDraft
  /\ UNCHANGED <<file, told, wanted>>

\* --non-interactive with a question left, an interrupt, a kill: nothing was written.
Abandon ==
  /\ phase = "asking"
  /\ phase' = "idle" /\ draft' = NoDraft
  /\ UNCHANGED <<file, told, wanted>>

\* write_text empties the file, then fills it.
Truncate ==
  /\ phase = "asking" /\ Left = {}
  /\ phase' = "writing"
  /\ file' = [context |-> EmptyTable, rest |-> NoRest]
  /\ UNCHANGED <<draft, told, wanted>>

Said(q) == {r \in draft.said : r[1] = q}

Fill ==
  /\ phase = "writing"
  /\ phase' = "idle" /\ draft' = NoDraft
  /\ file' = [context |-> ToToml(draft.context), rest |-> draft.rest]
  /\ told' = [q \in Questions |-> IF Said(q) = {} THEN told[q]
                                  ELSE <<(CHOOSE r \in Said(q) : TRUE)[2]>>]
  /\ wanted' = IF wanted = draft.base THEN wanted ELSE draft.rest

CrashWriting ==
  /\ phase = "writing"
  /\ phase' = "idle" /\ draft' = NoDraft
  /\ told' = [q \in Questions |-> <<>>]
  /\ wanted' = NoRest
  /\ UNCHANGED file

Edit(rest) ==
  /\ phase # "writing" /\ rest # file.rest
  /\ file' = [file EXCEPT !.rest = rest]
  /\ wanted' = rest
  /\ UNCHANGED <<phase, draft, told>>

InterviewStep ==
  \/ (\E reply \in {"blank", "noise", "headless", "value"} \cup TenantModels : Answer(reply))
  \/ Truncate \/ Fill

InterviewMishap == Abandon \/ AnswerRaises \/ CrashWriting \/ (\E rest \in Rests : Edit(rest))

(***************************************************************************)
(* Properties                                                              *)
(***************************************************************************)

\* What the file says of a question: the reply of an interview, as far as it can be told.
Recorded(q) ==
  LET c == FromToml(file.context)
  IN  IF c.answers[q] = "not_asked" THEN "nothing"
      ELSE IF c.answers[q] = "unknown" THEN "blank"
      ELSE IF q \in c.hollow THEN "headless"
      ELSE IF q \notin c.given THEN "noise"
      ELSE IF q = TenantQuestion THEN c.tenant ELSE "value"

\* No completed interview is forgotten by a later one, nor a table of the file that
\* configure does not interpret, nor [runner], which it writes out in full: only a crash
\* between the two halves of write_text loses them, and only an edit made while configure
\* was asking is written over.
SavedIsKept ==
  phase # "writing" =>
    /\ \A q \in Questions : told[q] # <<>> => Recorded(q) = told[q][1]
    /\ phase = "idle" =>
         /\ file.rest.sections = wanted.sections
         /\ file.rest.runner = "absent" <=> wanted.runner = "absent"

\* write_config: "Every section this module does not interpret is written back unchanged"
\* (config_toml.py:189), an array of tables too.
OthersAreKept == phase = "idle" => file.rest.loose = wanted.loose

\* A configuration that was written can be read again (tests/unit/test_config_toml.py:52).
WrittenCanBeRead == phase = "idle" => Legible
=============================================================================
