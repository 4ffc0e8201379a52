------------------------------- MODULE Search -------------------------------
(***************************************************************************)
(* What an agent's search finds in its cache table, as the hours of the    *)
(* user's time zone go by (app/agents/*_agent.py, app/search/              *)
(* vector_store.py): a date phrase becomes a range, the range and a tag    *)
(* (sender, attendee or type of file) filter the rows of two candidate     *)
(* lists, one by vector distance and one by words, and the sum of the      *)
(* reciprocal ranks and of a boost for recent rows puts them in order.     *)
(***************************************************************************)
EXTENDS Temporal, SequencesExt, FiniteSets

CONSTANTS Zones,        \* time zones
          FirstHour, LastHour,  \* bound: the hours that go by
          SearchHours,  \* bound: the hours at which something is searched
          Row,          \* the rows of the table, by distance from the query
          Kinds,        \* bound: what a row may be like
          Orders,       \* bound: how the words of a query may order the rows
          Limits, Phrases, Tags,
          Candidates,   \* DEFAULT_VECTOR_CANDIDATES, DEFAULT_KEYWORD_CANDIDATES
          None

(* Millionths of a score tell the ranks of up to 500 candidates apart; the *)
(* code has 50 in a list.                                                  *)
ASSUME SearchAssumption ==
    /\ Row \subseteq Nat /\ IsFiniteSet(Row)
    /\ Candidates \in 1..500 /\ Limits \subseteq 1..Candidates
    /\ \A kind \in Kinds : kind.ago = None \/ kind.ago \in Int
    /\ \A order \in Orders : /\ order \in [Row -> Nat]
                            /\ \A a, b \in Row : order[a] = order[b] => a = b
    /\ None # "image/"

VARIABLES zone, now,
          request,  \* what is searched, and the table it finds
          hits      \* the rows it returns, best first

vars == <<zone, now, request, hits>>

(* A row is the user's or not (mine), dated or not (hours ago), matches    *)
(* the words of the query or not, and has the tags that a filter may name. *)
(* "seen": it has an embedding, and the index lists that the scan probes   *)
(* hold it.                                                                *)
Dated(row) == row.ago # None
At(row) == now - row.ago

(* filter_sql and user_id, the same for both lists.                        *)
Eligible(q, r) ==
    LET row == q.table[r] IN
    /\ row.mine
    /\ q.tag = None \/ q.tag \in row.tags
    /\ q.range # None => Dated(row) /\ Within(At(row), q.range)

Ahead(order, a, b) == order[a] < order[b]

(* The ranks in a list of rows, of which the first Candidates are kept:    *)
(* PostgreSQL's window function emits the rows in the order of its window, *)
(* and the LIMIT that has no ORDER BY takes the first of them.             *)
Ranked(rows, order) ==
    LET rank == [r \in rows |-> Cardinality({s \in rows : Ahead(order, s, r)}) + 1]
    IN  [r \in {x \in rows : rank[x] <= Candidates} |-> rank[r]]

Nearness == [r \in Row |-> r]

VectorMatches(q) == Ranked({r \in Row : Eligible(q, r) /\ q.table[r].seen}, Nearness)

(* Relevance is an order of its own, None when no word is left to ask for; *)
(* ROW_NUMBER puts equally relevant rows in some order too.                *)
Named(q, r) == q.relevance # None /\ q.table[r].matches

(* Mutant: only the list by distance is filtered.                          *)
KeywordMatchesUnfiltered(q) == Ranked({r \in Row : Named(q, r) /\ q.table[r].mine}, q.relevance)

KeywordMatches(q) == Ranked({r \in Row : Named(q, r) /\ Eligible(q, r)}, q.relevance)

(* In millionths.  The boost, 0.03 halved every 30 days, is taken at whole *)
(* half-lives, after 15 of which nothing is left of it; GREATEST passes    *)
(* over the NULL of a row without a date.                                  *)
Recency(row) ==
    LET halvings == IF Dated(row) THEN Max({row.ago, 0}) \div 720 ELSE 0
    IN  IF halvings < 15 THEN 30000 \div 2^halvings ELSE 0

Reciprocal(ranks, r) == IF r \in DOMAIN ranks THEN 1000000 \div (10 + ranks[r]) ELSE 0

Score(q, r, near, named) == Reciprocal(near, r) + Reciprocal(named, r) + Recency(q.table[r])

(* The rows that _hybrid_query may return: equal scores come in any order. *)
HybridQuery(q) ==
    LET near    == VectorMatches(q)
        named   == KeywordMatches(q)
        matched == DOMAIN near \cup DOMAIN named
        sorted  == {s \in SetToSeqs(matched) : \A i \in 1 .. Len(s) - 1 :
                        Score(q, s[i], near, named) >= Score(q, s[i + 1], near, named)}
    IN  {SubSeq(s, 1, IF Len(s) < q.limit THEN Len(s) ELSE q.limit) : s \in sorted}

(* "image/" names a family of types: the table is asked for any type, and  *)
(* the agent keeps the rows whose type begins so.                          *)
Broad(tag) == tag = "image/"

Idle == [sought |-> FALSE]

Init ==
    /\ zone \in Zones /\ now = FirstHour
    /\ request = Idle /\ hits = <<>>

Tick ==
    /\ request = Idle /\ now < LastHour
    /\ now' = now + 1
    /\ UNCHANGED <<zone, request, hits>>

(* The rows of a list that are in S, in its order.                         *)
Selections(rows, S) ==
    {s \in SetToSeqs(ToSet(rows) \cap S) : \A i, j \in DOMAIN s :
        i < j => \E m, n \in DOMAIN rows : m < n /\ rows[m] = s[i] /\ rows[n] = s[j]}

(* The phrase is resolved against the present and the user's time zone.    *)
Ask(q) ==
    /\ request = Idle /\ now \in SearchHours
    /\ request' = [q EXCEPT !.range =
                       IF q.phrase = None THEN None ELSE Resolve(zone, now, q.phrase)]
    /\ UNCHANGED <<zone, now>>

(* GmailAgent and GCalAgent filter by one sender or attendee, DriveAgent   *)
(* by one type of file.                                                    *)
SearchOne(q) ==
    /\ ~Broad(q.tag) /\ Ask(q)
    /\ hits' \in HybridQuery(request')

DriveSearch(q) ==
    /\ Broad(q.tag) /\ Ask(q)
    /\ \E rows \in HybridQuery([request' EXCEPT !.tag = None]) :
           hits' \in Selections(rows, {r \in Row : q.tag \in q.table[r].tags})

Answered == /\ request # Idle
            /\ request' = Idle /\ hits' = <<>>
            /\ UNCHANGED <<zone, now>>

Requests == [sought: {TRUE}, table: [Row -> Kinds], relevance: Orders \cup {None},
             phrase: Phrases \cup {None}, range: {None},
             tag: Tags \cup {None}, limit: Limits]

Next == \/ Tick \/ Answered
        \/ \E q \in Requests : SearchOne(q) \/ DriveSearch(q)

Spec == Init /\ [][Next]_vars
-----------------------------------------------------------------------------
(* Within the bounds of "today" lies the present, and as the hours go by   *)
(* what was tomorrow, next week or next month becomes today, this week or  *)
(* this month, at the day on which it begins and never before; neighbours  *)
(* share their bound, across a change of the clocks and the turn of a      *)
(* month or a year; and a weekday's name stands for its next occurrence,   *)
(* until that is today.                                                    *)
PhrasesMatchTheCalendar ==
    [][Tick =>
        LET Before(phrase) == Resolve(zone, now, phrase)
            After(phrase)  == Resolve(zone, now', phrase)
            Steps(last, this, next) ==
                /\ Before(last).until = Before(this).since
                /\ Before(this).until = Before(next).since
                /\ Within(now', Before(this)) =>
                       \A p \in {last, this, next} : After(p) = Before(p)
                /\ ~Within(now', Before(this)) =>
                       After(this) = Before(next) /\ After(last) = Before(this)
        IN  /\ Within(now', After("today"))
            /\ Steps("yesterday", "today", "tomorrow")
            /\ Steps("last week", "this week", "next week")
            /\ Steps("last month", "this month", "next month")
            /\ \A i \in 1..7 :
                   \/ After(Weekdays[i]) = Before(Weekdays[i])
                   \/ /\ Before(Weekdays[i]) = After("today")
                      /\ Within(After(Weekdays[i]).since, After("next week"))]_vars

(* A row that the query could have found, and one that nothing speaks for  *)
(* over another: not as near, not as relevant, not as recent.              *)
Findable(q, r) == Eligible(q, r) /\ (q.table[r].seen \/ Named(q, r))

AtLeastAsNew(a, b) == Dated(a) => Dated(b) /\ a.ago <= b.ago

Nearer(q, a, b) == q.table[a].seen /\ (q.table[b].seen => a < b)
MoreRelevant(q, a, b) ==
    Named(q, a) /\ (Named(q, b) => Ahead(q.relevance, a, b))

Outdoes(q, a, b) ==
    /\ AtLeastAsNew(q.table[a], q.table[b])
    /\ \/ Nearer(q, a, b) /\ (MoreRelevant(q, a, b) \/ ~(Named(q, a) \/ Named(q, b)))
       \/ MoreRelevant(q, a, b) /\ ~q.table[a].seen /\ ~q.table[b].seen

(* A search answers with rows of its user that pass its filters, as many   *)
(* as it may and finds (but for a family of types, which is filtered too   *)
(* late for that), and no row comes before, or instead of, one that        *)
(* outdoes it by meaning, by words and by date.                            *)
SearchKeepsTheBest ==
    request # Idle =>
        /\ \A i \in DOMAIN hits : Findable(request, hits[i])
        /\ ~Broad(request.tag) /\ Len(hits) < request.limit =>
               \A r \in Row : Findable(request, r) => \E i \in DOMAIN hits : hits[i] = r
        /\ \A a, b \in Row :
               Findable(request, a) /\ Findable(request, b) /\ Outdoes(request, a, b) =>
                   \A j \in DOMAIN hits : hits[j] = b => \E i \in 1 .. j - 1 : hits[i] = a
=============================================================================
