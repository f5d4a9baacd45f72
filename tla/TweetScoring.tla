---------------------------- MODULE TweetScoring ----------------------------
(* From the pages of a feed to decisions and action requests: the fetch of   *)
(* an account's sources, the scoring of what it inserts, the backfill of     *)
(* what was left unscored (app/fetching/service.py), the generation of a     *)
(* decision, by the LLM or reused from another row of the same tweet         *)
(* (app/actions/service.py, app/llm/service.py), and the deletion of tweets  *)
(* with their logs and actions (app/accounts/service.py).                    *)
(* No foreign key ties the logs and the actions to the rows, and every       *)
(* method is a chain of sessions of its own.                                 *)
EXTENDS Integers, FiniteSets, Sequences, SequencesExt

CONSTANTS Workers, Handlers,    \* workers fetch; handlers serve the API
          Accounts, SourcesOf,  \* account -> its sources, in the order they are fetched
          Tweets, Item,         \* tweet -> what a feed says of it
          Feeds,                \* what a source may answer: sequences of pages of tweets
          IncludeReplies, IncludeRetweets,
          Limit,                \* source.limit and settings.fetch_limit_default
          Answers,              \* what the LLM may answer
          Hopeless,             \* tweets the LLM never answers usefully
          Absent, Words,        \* a field that is missing; one that should be a number and is not
          None,
          MaxRows, MaxLogs      \* bounds: rows ever inserted, logs beside which a generation is asked for

VARIABLES
    key,                 \* row id -> account, source and tweet; kept when the row is deleted
    live,                \* ids of the rows of fetched_tweets
    logs,                \* the successful decision logs (ai_log_records), oldest first
    acts,                \* the action requests that name a row
    pc, my,              \* actor -> place, locals
    told,                \* history: rows with what the LLM decided of them
    interrupted,         \* history: rows whose generation ended between decision and actions
    bereft,              \* history: actions deleted with a row although another row of the tweet stays
    doomed,              \* history: rows deleted while a generation had them in hand
    crossed              \* history: tweets decided while another decision of theirs was being written

data == <<key, live, logs, acts>>
history == <<told, interrupted, bereft, doomed, crossed>>
vars == <<data, pc, my, history>>

Actors == Workers \union Handlers
Ids == 1 .. MaxRows
Kinds == {"like", "reply"}
Sources == UNION {Range(SourcesOf[a]) : a \in Accounts}
Rows == {[account |-> a, source |-> s, tweet |-> t] :
            a \in Accounts, s \in Sources, t \in Tweets}
(* origin is source_fetched_tweet_id; the LLM's own logs have none.          *)
Logs == [row : Ids, decision : SUBSET Kinds, origin : Ids \union {None}]
Actions == [row : Ids, account : Accounts, tweet : Tweets, kind : Kinds]
Places == {"idle", "source", "persist", "score", "reuse", "ask", "answered", "like", "reply",
           "delete"}
Deciding == {"reuse", "ask", "answered", "like", "reply"}

AtRest == [account |-> None, sources |-> <<>>, pages |-> <<>>, todo |-> <<>>, then |-> "idle",
           found |-> None, answer |-> None, decision |-> {}, gone |-> {}]

(* A feed is pages of tweets, an answer has its fields, and None is nothing. *)
ASSUME ScoringAssumption ==
    /\ Limit \in Nat /\ MaxRows \in Nat /\ MaxLogs \in Nat
    /\ \A a \in Accounts : SourcesOf[a] \in Seq(Range(SourcesOf[a]))
    /\ Feeds \subseteq Seq(Seq(Tweets))
    /\ \A x \in Answers :
          x = [form |-> x.form, like |-> x.like, draft |-> x.draft, score |-> x.score,
               confidence |-> x.confidence, unknown |-> x.unknown]
    /\ None \notin Accounts /\ None \notin Ids /\ None \notin Rows
    /\ None \notin Logs /\ None \notin Answers

Init ==
    /\ key = [r \in Ids |-> None] /\ live = {} /\ logs = <<>> /\ acts = {}
    /\ pc = [g \in Actors |-> "idle"] /\ my = [g \in Actors |-> AtRest]
    /\ told = {} /\ interrupted = {} /\ bereft = {} /\ doomed = {} /\ crossed = {}

-----------------------------------------------------------------------------
(* The members of a finite set of numbers, ascending; the part of a sequence *)
(* at some of its places; and the part that passes a test.  (SortSeq and     *)
(* SelectSeq, in a form that the prover can expand.)                         *)
InOrder(S) ==
    [i \in 1 .. Cardinality(S) |-> CHOOSE n \in S : Cardinality({m \in S : m < n}) = i - 1]
Part(seq, places) == LET at == InOrder(places) IN [i \in DOMAIN at |-> seq[at[i]]]
Filter(seq, Test(_)) == Part(seq, {n \in DOMAIN seq : Test(seq[n])})

-----------------------------------------------------------------------------
(* The pages of a source.                                                    *)
Passes(s, t) ==
    /\ Item[t].reply => IncludeReplies
    /\ Item[t].retweet => IncludeRetweets
    /\ s = "popular" => Item[t].popular

AddItem(kept, t) ==
    IF t \in Range(kept) \/ ~Item[t].recent \/ Len(kept) = Limit THEN kept ELSE Append(kept, t)
(* Faulty: the boundary is looked for among what is left after the filters.  *)
AddPageFiltered(s, sofar, page) ==
    IF sofar.done \/ page = <<>> THEN [sofar EXCEPT !.done = TRUE]
    ELSE LET filtered == Filter(page, LAMBDA t : Passes(s, t))
             kept == FoldLeft(AddItem, sofar.kept, filtered)
         IN  [kept |-> kept,
              done |-> Len(kept) = Limit \/ \E t \in Range(filtered) : ~Item[t].recent]
(* One turn of the loop: an empty page, a full batch and a page that reaches *)
(* the boundary of the recent window end it.                                 *)
AddPage(s, sofar, page) ==
    IF sofar.done \/ page = <<>> THEN [sofar EXCEPT !.done = TRUE]
    ELSE LET filtered == Filter(page, LAMBDA t : Passes(s, t))
             kept == FoldLeft(AddItem, sofar.kept, filtered)
         IN  [kept |-> kept,
              done |-> Len(kept) = Limit \/ \E t \in Range(page) : ~Item[t].recent]
Collected(s, pages) ==
    FoldLeft(LAMBDA sofar, page : AddPage(s, sofar, page),
             [kept |-> <<>>, done |-> FALSE], pages).kept

(* What the LLM's answer is taken for.                                       *)
Number(v) == IF v \in {Absent, Words} THEN 0 ELSE IF v < 0 THEN 0 ELSE IF v > 10 THEN 10 ELSE v
(* Key: value lines carry a number only if they have one.                    *)
FromLines(v) == IF v = Words THEN Absent ELSE v
Fields(answer) ==
    IF answer.form = "lines"
    THEN [answer EXCEPT !.score = FromLines(@), !.confidence = FromLines(@)]
    ELSE answer
(* Prose has no fields; an unknown key is refused by the schema, and so is a *)
(* legacy key beside the one that replaced it.                               *)
Readable(answer) == answer.form # "prose" /\ ~answer.unknown
(* Faulty: "none" is only understood in JSON.                                *)
NormalisedLiterally(answer) ==
    LET f == Fields(answer)
        draft == IF answer.form = "json" THEN f.draft = "text" ELSE f.draft # Absent
    IN  [like |-> f.like = "true", draft |-> draft, score |-> Number(f.score),
         confidence |-> IF f.confidence # Absent THEN Number(f.confidence)
                        ELSE IF draft THEN Number(f.score) ELSE 0]
Normalised(answer) ==
    LET f == Fields(answer)
        draft == f.draft = "text"
    IN  [like |-> f.like = "true", draft |-> draft, score |-> Number(f.score),
         confidence |-> IF f.confidence # Absent THEN Number(f.confidence)
                        ELSE IF draft THEN Number(f.score) ELSE 0]
Wanted(answer) ==
    LET d == Normalised(answer) IN
    {k \in Kinds : (k = "like" /\ d.like) \/ (k = "reply" /\ d.draft)}

-----------------------------------------------------------------------------
Hand(g) == Head(my[g].todo)
InHand(g) == pc[g] \in Deciding
TweetOf(r) == key[r].tweet
Scored(r) == \E n \in DOMAIN logs : logs[n].row = r
Acted(r) == \E a \in acts : a.row = r

(* Faulty: only a row of the same source is looked for.                      *)
ReusableOfSource(r) ==
    LET found == {n \in DOMAIN logs :
                    /\ logs[n].row \in live /\ logs[n].row # r
                    /\ key[logs[n].row] = key[r]}
    IN  IF found = {} THEN None ELSE logs[Max(found)]
(* _find_reusable_decision: the newest decision of another row of the tweet. *)
Reusable(r) ==
    LET found == {n \in DOMAIN logs :
                    /\ logs[n].row \in live /\ logs[n].row # r
                    /\ TweetOf(logs[n].row) = TweetOf(r)}
    IN  IF found = {} THEN None ELSE logs[Max(found)]

(* The last decision of a row, among these logs; do a tweet's rows agree?    *)
Decided(lg, r) == {n \in DOMAIN lg : lg[n].row = r}
Agreed(t, rows, lg) ==
    \A r, x \in {r \in rows : key[r].tweet = t /\ Decided(lg, r) # {}} :
        lg[Max(Decided(lg, r))].decision = lg[Max(Decided(lg, x))].decision

Goes(g, place) == pc' = [pc EXCEPT ![g] = place]
(* The row in hand is done: the next one, or what comes after the last.      *)
Ended(g) ==
    LET rest == Tail(my[g].todo)
        place == IF rest = <<>> THEN my[g].then ELSE "score"
    IN  /\ Goes(g, place)
        /\ my' = [my EXCEPT ![g] =
                     IF place = "idle" THEN AtRest
                     ELSE [@ EXCEPT !.todo = rest, !.found = None, !.answer = None, !.decision = {}]]
Rests(g) == Goes(g, "idle") /\ my' = [my EXCEPT ![g] = AtRest]
(* A list of rows to score, perhaps empty, and the place after it.           *)
Scores(g, todo, then) ==
    /\ Goes(g, IF todo = <<>> THEN then ELSE "score")
    /\ my' = [my EXCEPT ![g] =
                 IF todo = <<>> /\ then = "idle" THEN AtRest
                 ELSE [@ EXCEPT !.pages = <<>>, !.todo = todo, !.then = then]]

-----------------------------------------------------------------------------
(* fetch_account, in a worker that has the account's lock.                   *)
FetchBegins(w) ==
    /\ pc[w] = "idle"
    /\ \E a \in Accounts :
          /\ \A v \in Workers : my[v].account # a
          /\ my' = [my EXCEPT ![w] = [AtRest EXCEPT !.account = a, !.sources = SourcesOf[a]]]
    /\ Goes(w, "source")
    /\ UNCHANGED <<data, history>>

(* The loop over the pages of the next source; what it keeps is decided when *)
(* it is stored.                                                             *)
Requests(w) ==
    /\ pc[w] = "source" /\ my[w].sources # <<>>
    /\ \E pages \in Feeds : my' = [my EXCEPT ![w].pages = pages]
    /\ Goes(w, "persist")
    /\ UNCHANGED <<data, history>>

Room == {r \in Ids : key[r] = None}
(* _persist_batch, in one transaction: what the source has not been stored   *)
(* with yet gets a row, as long as the bound leaves ids.  The new rows are   *)
(* scored, unless AI is off or the account read_only: either may have been   *)
(* changed at any time, here and below.                                      *)
Persists(w) ==
    /\ pc[w] = "persist"
    /\ LET a == my[w].account
           s == Head(my[w].sources)
           Known(t) == [account |-> a, source |-> s, tweet |-> t] \in {key[r] : r \in live}
           new == Filter(Collected(s, my[w].pages), LAMBDA t : ~Known(t))
           ids == [n \in 1 .. Min({Len(new), Cardinality(Room)}) |-> Min(Room) + n - 1]
       IN  /\ key' = [r \in Ids |->
                        IF r \in Range(ids)
                        THEN [account |-> a, source |-> s, tweet |-> new[r - Min(Room) + 1]]
                        ELSE key[r]]
           /\ live' = live \union Range(ids)
           /\ \E todo \in {ids, <<>>} :
              /\ Goes(w, IF todo = <<>> THEN "source" ELSE "score")
              /\ my' = [my EXCEPT ![w].pages = <<>>, ![w].sources = Tail(@),
                                  ![w].todo = todo, ![w].then = "source"]
    /\ UNCHANGED <<logs, acts, history>>

(* A source raises, or the insert: what follows is left out.                 *)
FetchFails(w) ==
    /\ pc[w] \in {"source", "persist"}
    /\ Rests(w)
    /\ UNCHANGED <<data, history>>

(* Rows of an account, newest first; a window of four times the limit.  Rows *)
(* that have left the recent window are passed over.                         *)
NewestFirst(a) == Reverse(InOrder({r \in live : key[r].account = a}))
Prefix(seq, n) == SubSeq(seq, 1, Min({n, Len(seq)}))
NeedsScoring(r) == r \in live /\ ~Scored(r) /\ ~Acted(r)
(* Faulty: the limit is applied before the scored rows are dropped.          *)
CandidatesLimitedFirst(a, old) ==
    Filter(Prefix(NewestFirst(a), Limit), LAMBDA r : r \notin old /\ NeedsScoring(r))
Candidates(a, old) ==
    Prefix(Filter(Prefix(NewestFirst(a), 4 * Limit), LAMBDA r : r \notin old /\ NeedsScoring(r)),
           Limit)

(* backfill_recent_unscored_tweets for one account, after the last source of *)
(* a fetch or asked for through the API (for all accounts: one after the     *)
(* other).  It finds nothing to do if AI is off.                             *)
WorkerBackfills(w) ==
    /\ pc[w] = "source" /\ my[w].sources = <<>>
    /\ \E old \in SUBSET live : Scores(w, Candidates(my[w].account, old), "idle")
    /\ UNCHANGED <<data, history>>
HandlerBackfills(h) ==
    /\ pc[h] = "idle"
    /\ \E a \in Accounts, old \in SUBSET live : Scores(h, Candidates(a, old), "idle")
    /\ UNCHANGED <<data, history>>

-----------------------------------------------------------------------------
(* generate_reply_for_tweet.                                                 *)
HandlerGenerates(h) ==
    /\ pc[h] = "idle" /\ Len(logs) < MaxLogs
    /\ \E r \in live : Scores(h, <<r>>, "idle")
    /\ UNCHANGED <<data, history>>

(* It raises: AI is off, the account is read_only or gone, or the row is.    *)
GenerateRefuses(g) ==
    /\ pc[g] = "score"
    /\ Ended(g)
    /\ UNCHANGED <<data, history>>

GenerateReuses(g) ==
    /\ pc[g] = "score" /\ Hand(g) \in live
    /\ Reusable(Hand(g)) # None
    /\ my' = [my EXCEPT ![g].found = Reusable(Hand(g))]
    /\ Goes(g, "reuse")
    /\ UNCHANGED <<data, history>>

GenerateAsks(g) ==
    /\ pc[g] = "score" /\ Hand(g) \in live
    /\ Reusable(Hand(g)) = None
    /\ Goes(g, "ask") /\ UNCHANGED my
    /\ UNCHANGED <<data, history>>

(* The log of a decision.  It crosses another one if the decisions of the    *)
(* other rows are no longer what this generation found.                      *)
Decides(g, decision, origin) ==
    LET r == Hand(g)
        t == TweetOf(r)
    IN  /\ logs' = Append(logs, [row |-> r, decision |-> decision, origin |-> origin])
        /\ crossed' = {x \in crossed \union (IF Reusable(r) # my[g].found THEN {t} ELSE {}) :
                        ~Agreed(x, live, logs')}
        /\ my' = [my EXCEPT ![g].decision = decision, ![g].answer = None]
        /\ Goes(g, "like")

(* Faulty: the row reused from is named, not the one it was made for.        *)
OriginNearest(found) == found.row
Origin(found) == IF found.origin = None THEN found.row ELSE found.origin

ReuseRecords(g) ==
    /\ pc[g] = "reuse"
    /\ Decides(g, my[g].found.decision, Origin(my[g].found))
    /\ UNCHANGED <<key, live, acts, told, interrupted, bereft, doomed>>

LLMAnswers(g) ==
    /\ pc[g] = "ask"
    /\ \E answer \in Answers :
          /\ TweetOf(Hand(g)) \in Hopeless => ~Readable(answer)
          /\ my' = [my EXCEPT ![g].answer = answer]
    /\ Goes(g, "answered")
    /\ UNCHANGED <<data, history>>

DecisionRecords(g) ==
    /\ pc[g] = "answered" /\ Readable(my[g].answer)
    /\ Decides(g, Wanted(my[g].answer), None)
    /\ told' = told \union {<<Hand(g), Wanted(my[g].answer)>>}
    /\ UNCHANGED <<key, live, acts, interrupted, bereft, doomed>>

(* An answer that cannot be read, or none: it raises.  The failed log it     *)
(* leaves is only displayed.                                                 *)
DecisionFails(g) ==
    /\ \/ pc[g] = "ask"
       \/ pc[g] = "answered" /\ ~Readable(my[g].answer)
    /\ Ended(g)
    /\ UNCHANGED <<data, history>>

(* create_like_request, create_reply_request: an open action of the account  *)
(* and tweet is taken instead of a new one, whichever row it was created     *)
(* for.  What the account has may be open or closed by now.                  *)
Has(k, kind) == \E a \in acts : a.account = k.account /\ a.tweet = k.tweet /\ a.kind = kind
(* Faulty: an open action of the other kind will do.                         *)
RequestedOnce(g, kind) ==
    LET k == key[Hand(g)]
        new == {[row |-> Hand(g), account |-> k.account, tweet |-> k.tweet, kind |-> kind]}
    IN  IF kind \notin my[g].decision THEN {acts}
        ELSE {acts \union new} \union (IF \E x \in Kinds : Has(k, x) THEN {acts} ELSE {})
Requested(g, kind) ==
    LET k == key[Hand(g)]
        new == {[row |-> Hand(g), account |-> k.account, tweet |-> k.tweet, kind |-> kind]}
    IN  IF kind \notin my[g].decision THEN {acts}
        ELSE {acts \union new} \union (IF Has(k, kind) THEN {acts} ELSE {})
LikeRequests(g) ==
    /\ pc[g] = "like"
    /\ acts' \in Requested(g, "like")
    /\ Goes(g, "reply") /\ UNCHANGED my
    /\ UNCHANGED <<key, live, logs, history>>
ReplyRequests(g) ==
    /\ pc[g] = "reply"
    /\ acts' \in Requested(g, "reply")
    /\ Ended(g)
    /\ UNCHANGED <<key, live, logs, history>>

Cut(g) ==
    interrupted' = interrupted \union
                   (IF pc[g] \in {"like", "reply"} THEN {Hand(g)} \intersect live ELSE {})
(* The account has left the registry, Redis or the database fails.           *)
RequestRaises(g) ==
    /\ pc[g] \in {"like", "reply"}
    /\ Cut(g) /\ Ended(g)
    /\ UNCHANGED <<data, told, bereft, doomed, crossed>>

(* The worker stops, or a request of the API is cancelled.                   *)
Stops(g) ==
    /\ pc[g] # "idle"
    /\ Cut(g) /\ Rests(g)
    /\ UNCHANGED <<data, told, bereft, doomed, crossed>>

-----------------------------------------------------------------------------
(* clear_tweets and cleanup_stale_tweets: the rows to delete are selected,   *)
(* all of an account or those that have left the recent window, ...          *)
DeleteSelects(h) ==
    /\ pc[h] = "idle"
    /\ \E gone \in SUBSET live \ {{}} :
          my' = [my EXCEPT ![h].gone = gone]
    /\ Goes(h, "delete")
    /\ UNCHANGED <<data, history>>

(* Faulty: the logs stay.                                                    *)
DeleteKeepsLogs(h) ==
    /\ pc[h] = "delete"
    /\ live' = live \ my[h].gone
    /\ acts' = {a \in acts : a.row \notin my[h].gone}
    /\ Rests(h)
    /\ UNCHANGED <<key, logs, history>>
(* ... and go with their actions, whatever has become of these, and logs.    *)
Deletes(h) ==
    /\ pc[h] = "delete"
    /\ LET gone == my[h].gone
           lost == {a \in acts : a.row \in gone}
       IN  /\ live' = live \ gone
           /\ acts' = acts \ lost
           /\ logs' = Filter(logs, LAMBDA log : log.row \notin gone)
           /\ interrupted' = interrupted \ gone
           /\ doomed' = doomed \union {r \in gone : \E g \in Actors : InHand(g) /\ Hand(g) = r}
           /\ bereft' = {b \in bereft \union {<<a.account, a.tweet, a.kind>> : a \in lost} :
                           \E r \in live' : key[r].account = b[1] /\ key[r].tweet = b[2]}
           /\ crossed' = {t \in crossed : ~Agreed(t, live', logs')}
    /\ Rests(h)
    /\ UNCHANGED <<key, told>>

Generation(g) ==
    \/ GenerateRefuses(g) \/ GenerateReuses(g) \/ GenerateAsks(g)
    \/ ReuseRecords(g) \/ LLMAnswers(g) \/ DecisionRecords(g) \/ DecisionFails(g)
    \/ LikeRequests(g) \/ ReplyRequests(g) \/ RequestRaises(g)
WorkerStep(w) ==
    \/ FetchBegins(w) \/ Requests(w) \/ Persists(w) \/ FetchFails(w)
    \/ WorkerBackfills(w) \/ Generation(w)
HandlerStep(h) ==
    \/ HandlerBackfills(h) \/ HandlerGenerates(h) \/ Generation(h)
    \/ DeleteSelects(h) \/ Deletes(h)

Next ==
    \/ \E w \in Workers : WorkerStep(w)
    \/ \E h \in Handlers : HandlerStep(h)
    \/ \E g \in Actors : Stops(g)

Spec == Init /\ [][Next]_vars

(* The worker fetches again and again; the sources do not fail, AI is not    *)
(* off, and the LLM is not useless about a row that is asked about again     *)
(* and again, each time.                                                     *)
For(w, r) == my[w].todo # <<>> /\ Hand(w) = r
Useful(w) == LLMAnswers(w) /\ Readable(my'[w].answer)
BackfillsAll(w) ==
    LET all == Candidates(my[w].account, {}) IN
    WorkerBackfills(w) /\ all # <<>> /\ my'[w].todo = all
Fairness ==
    \A w \in Workers :
        /\ WF_vars(WorkerStep(w))
        /\ SF_vars(Requests(w)) /\ SF_vars(Persists(w)) /\ SF_vars(BackfillsAll(w))
        /\ \A r \in Ids :
              /\ SF_vars(For(w, r) /\ (GenerateReuses(w) \/ GenerateAsks(w)))
              /\ SF_vars(For(w, r) /\ (ReuseRecords(w) \/ Useful(w)))
              /\ SF_vars(For(w, r) /\ DecisionRecords(w))
FairSpec == Spec /\ Fairness

-----------------------------------------------------------------------------
(* Every part of the state keeps its shape, at every place of every actor.   *)
Local == [account : Accounts \union {None}, sources : Seq(Sources), pages : Feeds \union {<<>>},
          todo : Seq(Ids), then : {"idle", "source"}, found : Logs \union {None},
          answer : Answers \union {None}, decision : SUBSET Kinds, gone : SUBSET Ids]
Fits(place, l) ==
    /\ place \in Deciding \union {"score"} <=> l.todo # <<>>
    /\ place = "idle" => l = AtRest
    /\ place \in {"source", "persist"} \/ l.then = "source" => l.account # None
    /\ place = "persist" => l.sources # <<>>
    /\ place = "reuse" => l.found # None
    /\ place \notin {"reuse", "like", "reply"} => l.found = None
    /\ place = "answered" => l.answer # None
ActorsOK ==
    /\ pc \in [Actors -> Places] /\ my \in [Actors -> Local]
    /\ \A g \in Actors : Fits(pc[g], my[g])
DataOK ==
    /\ key \in [Ids -> Rows \union {None}] /\ live \subseteq Ids \ Room
    /\ logs \in Seq(Logs) /\ acts \subseteq Actions
HistoryOK ==
    /\ told \subseteq Ids \X SUBSET Kinds /\ interrupted \subseteq Ids /\ doomed \subseteq Ids
    /\ bereft \subseteq Accounts \X Tweets \X Kinds /\ crossed \subseteq Tweets
TypeOK == DataOK /\ ActorsOK /\ HistoryOK

(* What a feed shows is kept as long as there is room: the first Limit       *)
(* tweets, each once, that pass the filters and are recent, of the pages up  *)
(* to the first that is empty or shows one that is not recent.               *)
Seen(pages) ==
    LET Ends(n) == pages[n] = <<>> \/ \E t \in Range(pages[n]) : ~Item[t].recent
        last == {n \in DOMAIN pages : \A m \in 1 .. n - 1 : ~Ends(m)}
    IN  FlattenSeq(SubSeq(pages, 1, Cardinality(last)))
Wants(s, seen, n) ==
    /\ Passes(s, seen[n]) /\ Item[seen[n]].recent
    /\ \A m \in 1 .. n - 1 : seen[m] # seen[n]
CollectsNewest ==
    \A w \in Workers :
        pc[w] = "persist" =>
            LET s == Head(my[w].sources)
                seen == Seen(my[w].pages)
                wanted == {n \in DOMAIN seen : Wants(s, seen, n)}
            IN  Collected(s, my[w].pages) = Prefix(Part(seen, wanted), Limit)

(* It does not matter whether the LLM answers in JSON or in lines, but for a *)
(* confidence that is not a number: JSON makes it 0, lines drop it.          *)
FormDoesNotMatter ==
    \A g \in Actors :
        LET answer == my[g].answer IN
        pc[g] = "answered" /\ Readable(answer) /\ answer.confidence # Words =>
            Normalised([answer EXCEPT !.form = "json"]) = Normalised([answer EXCEPT !.form = "lines"])

(* A successful decision has the actions it asked for: they exist, for the   *)
(* row or another of the tweet, are about to be created, or were lost when a *)
(* generation was cut short or when the row they named was deleted.  Nobody  *)
(* comes back to such a row: its log says that it is scored.                 *)
Coming(r, kind) ==
    \E g \in Actors :
        /\ InHand(g) /\ Hand(g) = r /\ kind \in my[g].decision
        /\ pc[g] = "like" \/ (pc[g] = "reply" /\ kind = "reply")
DecidedIsActedOn ==
    \A n \in DOMAIN logs :
        logs[n].row \in live =>
            LET r == logs[n].row IN
            \A kind \in logs[n].decision :
                \/ Has(key[r], kind)
                \/ Coming(r, kind) \/ r \in interrupted
                \/ <<key[r].account, key[r].tweet, kind>> \in bereft

(* The rows of a tweet, of whatever source or account, agree on the decision *)
(* unless two decisions crossed, and once they agree again they keep to it.  *)
RowsAgree == \A t \in Tweets \ crossed : Agreed(t, live, logs)

(* A reused decision names, through any number of reuses, a row for which    *)
(* the LLM decided just that.                                                *)
ReusedIsTold ==
    \A n \in DOMAIN logs :
        <<IF logs[n].origin = None THEN logs[n].row ELSE logs[n].origin, logs[n].decision>> \in told

(* Logs and actions outlive their row only if a generation had the row in    *)
(* hand when it was deleted.                                                 *)
NothingDangles ==
    {logs[n].row : n \in DOMAIN logs} \union {a.row : a \in acts} \subseteq live \union doomed

(* A recent row does not stay unscored for ever, unless the backfill never   *)
(* reaches it: four times the limit rows of the account are newer, or the    *)
(* limit is used up by newer ones the LLM cannot decide.                     *)
Newer(r) == {x \in live : key[x].account = key[r].account /\ x > r}
OutOfReach(r) ==
    \/ TweetOf(r) \in Hopeless
    \/ Cardinality(Newer(r)) >= 4 * Limit
    \/ Cardinality({x \in Newer(r) : NeedsScoring(x) /\ TweetOf(x) \in Hopeless}) >= Limit
EventuallyScored ==
    \A r \in Ids : <>[]NeedsScoring(r) => []<>(r \in live /\ OutOfReach(r))
=============================================================================
