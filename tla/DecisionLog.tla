---------------------------- MODULE DecisionLog ----------------------------
(***************************************************************************)
(* The decision log (domain/decisions.py) behind the local API             *)
(* (local_api/app.py): PUT /decisions requests, each on a thread of the    *)
(* server's pool, read recommendations.json, read decisions.json, and      *)
(* replace it, while reviews replace recommendations.json.  No lock is     *)
(* held from the read of the log to its write.  A single write or read of  *)
(* a file is atomic (AtomicWrite).                                         *)
(***************************************************************************)
EXTENDS Naturals, Sequences, FiniteSets

CONSTANTS
  Requests,         \* PUT /decisions requests, each made once
  Recommendations,  \* recommendation ids
  Evidence,         \* what a review can find about a recommendation
  MaxReviews,       \* bound: reviews of the project
  MaxConcurrent     \* threads of the pool that serves the requests

ASSUME RequestsAssumption == IsFiniteSet(Requests)
ASSUME MaxReviewsAssumption == MaxReviews \in Nat
ASSUME MaxConcurrentAssumption == MaxConcurrent \in Nat \ {0}

VARIABLES
  reviews,          \* how many reviews have been written
  recommendations,  \* recommendations.json: <<>> or <<its document>>
  log,              \* decisions.json
  progress,         \* of each request: "new", "read", "log", "write", "answered", "refused"
  asked,            \* what the request's document asks for
  draft,            \* the Decision the request has made
  base,             \* the log the request has read
  written,          \* history: the requests that have written the log, in that order
  heard             \* history: how many had when the request read it

logVars == <<reviews, recommendations, log, progress, asked, draft, base, written, heard>>

history == <<written, heard>>

Kinds == {"accepted", "rejected", "deferred"}

\* What a review found: the evidence of each recommendation it makes.
Findings == UNION {[S -> Evidence] : S \in SUBSET Recommendations}

\* The envelope also holds the run id and the time of its review.
Envelopes == [found : Findings, review : 1..MaxReviews]

\* content_hash of the whole envelope: as good as the envelope.
Hash(document) == document

Decisions == [recommendation : Recommendations, kind : Kinds, request : Requests,
              input_manifest_hash : Envelopes]
Asks == [recommendation : Recommendations, kind : Kinds \cup {"invalid"}]

LogTypeOK ==
  /\ reviews \in 0..MaxReviews
  /\ recommendations \in {<<>>} \cup {<<d>> : d \in Envelopes}
  /\ log \in Seq(Decisions)
  /\ progress \in [Requests -> {"new", "read", "log", "write", "answered", "refused"}]
  /\ asked \in [Requests -> Asks]
  /\ draft \in [Requests -> {<<>>} \cup {<<d>> : d \in Decisions}]
  /\ base \in [Requests -> Seq(Decisions)]
  /\ written \in Seq(Requests) /\ heard \in [Requests -> Nat]

InitLog ==
  /\ reviews = 0 /\ recommendations = <<>> /\ log = <<>>
  /\ progress = [q \in Requests |-> "new"]
  /\ asked \in [Requests -> Asks]
  /\ draft = [q \in Requests |-> <<>>]
  /\ base = [q \in Requests |-> <<>>]
  /\ written = <<>> /\ heard = [q \in Requests |-> 0]

InFlight == {q \in Requests : progress[q] \in {"read", "log", "write"}}

Receive(q) ==
  /\ progress[q] = "new" /\ Cardinality(InFlight) < MaxConcurrent
  /\ progress' = [progress EXCEPT ![q] = "read"]
  /\ UNCHANGED <<reviews, recommendations, log, asked, draft, base, history>>

\* What the request is turned down for: no recommendations, an id they do not
\* list (404), a document that makes no Decision (422).
Refused(q) ==
  \/ recommendations = <<>>
  \/ asked[q].recommendation \notin DOMAIN recommendations[1].found
  \/ asked[q].kind \notin Kinds

Decision(q) == [recommendation |-> asked[q].recommendation, kind |-> asked[q].kind,
                request |-> q, input_manifest_hash |-> Hash(recommendations[1])]

\* put_decision reads recommendations.json once, and decides on what it read.
ReadRecommendations(q) ==
  /\ progress[q] = "read"
  /\ IF Refused(q)
       THEN progress' = [progress EXCEPT ![q] = "refused"] /\ UNCHANGED draft
       ELSE /\ draft' = [draft EXCEPT ![q] = <<Decision(q)>>]
            /\ progress' = [progress EXCEPT ![q] = "log"]
  /\ UNCHANGED <<reviews, recommendations, log, asked, base, history>>

ReadLog(q) ==
  /\ progress[q] = "log"
  /\ base' = [base EXCEPT ![q] = log]
  /\ heard' = [heard EXCEPT ![q] = Len(written)]
  /\ progress' = [progress EXCEPT ![q] = "write"]
  /\ UNCHANGED <<reviews, recommendations, log, asked, draft, written>>

\* (fault) only the first decision of a recommendation is kept.
WriteLog_Once(q) ==
  /\ progress[q] = "write"
  /\ log' = IF \E k \in DOMAIN base[q] : base[q][k].recommendation = draft[q][1].recommendation
            THEN base[q] ELSE base[q] \o draft[q]
  /\ progress' = [progress EXCEPT ![q] = "answered"]
  /\ written' = Append(written, q)
  /\ UNCHANGED <<reviews, recommendations, asked, draft, base, heard>>

\* (fault) the newest decision comes first.
WriteLog_Prepended(q) ==
  /\ progress[q] = "write"
  /\ log' = draft[q] \o base[q]
  /\ progress' = [progress EXCEPT ![q] = "answered"]
  /\ written' = Append(written, q)
  /\ UNCHANGED <<reviews, recommendations, asked, draft, base, heard>>

\* (fault) the evidence is what is on disk by the time of the write.
WriteLog_Rehash(q) ==
  /\ progress[q] = "write"
  /\ log' = Append(base[q], [draft[q][1] EXCEPT !.input_manifest_hash = recommendations[1]])
  /\ progress' = [progress EXCEPT ![q] = "answered"]
  /\ written' = Append(written, q)
  /\ UNCHANGED <<reviews, recommendations, asked, draft, base, heard>>

\* The log that was read, one decision longer, replaces the file.
WriteLog(q) ==
  /\ progress[q] = "write"
  /\ log' = base[q] \o draft[q]
  /\ progress' = [progress EXCEPT ![q] = "answered"]
  /\ written' = Append(written, q)
  /\ UNCHANGED <<reviews, recommendations, asked, draft, base, heard>>

\* `pgproof review` replaces recommendations.json.
Review ==
  /\ reviews < MaxReviews
  /\ reviews' = reviews + 1
  /\ recommendations' \in {<<[found |-> f, review |-> reviews + 1]>> : f \in Findings}
  /\ UNCHANGED <<log, progress, asked, draft, base, history>>

Handle(q) == Receive(q) \/ ReadRecommendations(q) \/ ReadLog(q) \/ WriteLog(q)

NextLog == (\E q \in Requests : Handle(q)) \/ Review

SpecLog == InitLog /\ [][NextLog]_logVars

(***************************************************************************)
(* domain/decisions.py                                                     *)
(***************************************************************************)

OfRecommendation(c) == {k \in DOMAIN log : log[k].recommendation = c}

LatestDecision(c) ==
  log[CHOOSE k \in OfRecommendation(c) : \A j \in OfRecommendation(c) : j <= k]

ShouldReactivate(decision, current) ==
  decision.kind # "accepted" /\ decision.input_manifest_hash # Hash(current)

(***************************************************************************)
(* Properties                                                              *)
(***************************************************************************)

\* A decision is only recorded of a recommendation that the document it names
\* as its evidence really made, whatever reviews replaced in the meantime
\* (app.py:163-168).
DecisionsAreGrounded ==
  \A k \in DOMAIN log : log[k].recommendation \in DOMAIN log[k].input_manifest_hash.found

\* The j-th write was taken back by one made of a log read before it.
Overtaken(j) == \E k \in DOMAIN written : k > j /\ heard[written[k]] < j

\* The log loses no decision but to a request that had read it before the
\* decision was written and wrote after that: a client that waits for each
\* answer, or never has two requests at once, finds all it was told in the log,
\* whatever other requests do to each other (app.py:192-202).
LostOnlyToOverlap ==
  /\ \A q \in Requests : progress[q] = "answered" => \E j \in DOMAIN written : written[j] = q
  /\ \A j \in DOMAIN written :
       Overtaken(j) \/ \E k \in DOMAIN log : <<log[k]>> = draft[written[j]]

\* "a re-decision is a new entry, not an edit in place, so the last matching
\* entry wins" (decisions.py:47-48): of the decisions of a recommendation the
\* one that was written last is the latest, unless a request that had read the
\* log before overtook it; no older one ever comes back in its stead.
LatestWins ==
  \A j \in DOMAIN written : LET d == draft[written[j]][1] IN
    /\ ~Overtaken(j)
    /\ \A k \in DOMAIN written : k > j =>
         draft[written[k]][1].recommendation # d.recommendation
    => LatestDecision(d.recommendation) = d

\* "`decisions` is append-only" (decisions.py:47): an entry stays.
AnsweredAreKept ==
  \A q \in Requests : progress[q] = "answered" => \E k \in DOMAIN log : <<log[k]>> = draft[q]

Suppressed(c) ==
  /\ OfRecommendation(c) # {} /\ recommendations # <<>>
  /\ c \in DOMAIN recommendations[1].found
  /\ LatestDecision(c).kind # "accepted"

\* "a rejected/deferred recommendation does not reappear unless its evidence or
\* revisit condition changes" (decisions.py:3-5).
ReactivatesOnChange ==
  \A c \in Recommendations :
    /\ Suppressed(c)
    /\ ShouldReactivate(LatestDecision(c), recommendations[1])
    => LatestDecision(c).input_manifest_hash.found # recommendations[1].found
=============================================================================
