------------------------------ MODULE Discovery ------------------------------
(***************************************************************************)
(* The search for subgraphs of the tokens a maker holds that the site does *)
(* not know (lib/subgraphMcp.ts), run on the server for the lookup page: a *)
(* stream of events from The Graph's MCP server, one request per token     *)
(* posted beside it and answered on the stream, matched by number, and one *)
(* answer to the page, given by whichever comes first of the last token, a *)
(* failure and a timer.                                                    *)
(*                                                                         *)
(* A behaviour is that of a panel (Radar) or of one such search.           *)
(***************************************************************************)
EXTENDS Radar, Sequences

CONSTANTS
    Addresses,      \* token contracts
    Malformed,      \* what is no address
    MaxAsked,       \* bound on the length of the list
    MaxEndpoints,   \* bound on how often the stream names where to post
    Deployments     \* how many subgraphs a token may have

VARIABLES
    search          \* the search, or Off

ASSUME DiscoveryAssumption ==
    /\ Malformed \notin Addresses /\ Deployments \subseteq Nat
    /\ MaxAsked \in Nat /\ MaxEndpoints \in Nat \ {0}

-----------------------------------------------------------------------------
Untouched == [hits |-> 0, error |-> FALSE]

\* stage: how the search stands, or how it was ended; covered: is there a server to ask
\* of this chain; sent: the requests by number, and what became of them; loops: per
\* naming of the endpoint, the token it is at and the number it waits for.
Waiting == [stage |-> "idle", covered |-> TRUE, tokens |-> <<>>, sent |-> <<>>, loops |-> <<>>,
         results |-> [a \in Addresses |-> Untouched]]
Off == [Waiting EXCEPT !.stage = "off"]

Lists == UNION {[1 .. n -> Addresses \cup {Malformed}] : n \in 1 .. MaxAsked}

\* Well-formed addresses, each once: an earlier one stands in the list before a later
\* one first does.
unique(list) ==
    LET us == {list[i] : i \in DOMAIN list} \ {Malformed} IN
    {f \in [1 .. Cardinality(us) -> us] :
        \A i, j \in DOMAIN f :
            i < j => \E h \in DOMAIN list : list[h] = f[i] /\ \A k \in 1 .. h : list[k] # f[j]}

Wanted(s) == {s.tokens[j] : j \in DOMAIN s.tokens}

\* The answer is given, after those of the tokens it concerns are called failed.
Told(s, why, failed) ==
    [s EXCEPT !.stage = why,
              !.results = [a \in Addresses |-> IF a \in failed THEN [@[a] EXCEPT !.error = TRUE] ELSE @[a]]]

Nothing(s) == {a \in Wanted(s) : s.results[a].hits = 0}

\* The timer answers with what there is (fault).
Silent_None(s) == {}

\* Nothing found and nothing wrong so far: the timer calls it timed out.
Silent(s) == {a \in Nothing(s) : ~ s.results[a].error}

-----------------------------------------------------------------------------
sendRpc(s, l, what) ==
    [s EXCEPT !.sent = Append(@, [what |-> what, pc |-> "asked", hits |-> 0]),
              !.loops[l].awaits = Len(s.sent) + 1]

\* Loop l turns to its next token; the first to have none left answers.
Turns(s, l) ==
    LET n == s.loops[l].at + 1 IN
    IF n > Len(s.tokens) THEN Told(s, "loop", {})
                         ELSE sendRpc([s EXCEPT !.loops[l].at = n], l, s.tokens[n])

\* What loop l makes of the outcome pc of the request it waits for.
Handled(s, l, pc, hits) ==
    LET a == s.tokens[s.loops[l].at] IN
    CASE s.loops[l].at = 0 /\ pc = "failed" -> Told(s, "broken", Wanted(s))
      [] s.loops[l].at = 0 /\ pc # "failed" -> Turns(s, l)
      [] s.loops[l].at > 0 /\ pc = "failed" -> Turns([s EXCEPT !.results[a] = [hits |-> 0, error |-> TRUE]], l)
      [] s.loops[l].at > 0 /\ pc = "answered" -> Turns([s EXCEPT !.results[a] = [hits |-> hits, error |-> FALSE]], l)
      [] OTHER -> Turns(s, l)

\* A message settles whatever request is under way (fault).
Settles_Any(s, id) == {l \in DOMAIN s.loops : TRUE}

\* The number in a message says which request it settles; one given up settles nothing.
Settles(s, id) == {l \in DOMAIN s.loops : s.loops[l].awaits = id}

Settled(s, id, pc, hits) ==
    LET heard == [s EXCEPT !.sent[id].pc = pc, !.sent[id].hits = hits] IN
    IF Settles(s, id) = {} THEN heard ELSE Handled(heard, CHOOSE l \in Settles(s, id) : TRUE, pc, hits)

-----------------------------------------------------------------------------
searchSubgraphsForTokens(list, covered, keyed) ==
    \E tokens \in unique(list) :
    LET s == [search EXCEPT !.tokens = tokens, !.covered = covered] IN
    /\ search.stage = "idle"
    /\ search' = CASE Wanted(s) = {} \/ ~ covered -> Told(s, "loop", {})
                   [] Wanted(s) # {} /\ covered /\ ~ keyed -> Told(s, "broken", Wanted(s))
                   [] OTHER -> [s EXCEPT !.stage = "opening"]

Opened == search.stage = "opening" /\ search' = [search EXCEPT !.stage = "open"]

\* A status other than 200, or the connection itself: everything is called failed.
Refused == search.stage \in {"opening", "open"} /\ search' = Told(search, "broken", Wanted(search))

\* The stream breaks: what was found stays.
Breaks == search.stage = "open" /\ search' = Told(search, "broken", Nothing(search))

TimesOut == search.stage \in {"opening", "open"} /\ search' = Told(search, "timeout", Silent(search))

Endpoint ==
    /\ search.stage = "open" /\ Len(search.loops) < MaxEndpoints
    /\ search' = sendRpc([search EXCEPT !.loops = Append(@, [at |-> 0, awaits |-> 0])],
                         Len(search.loops) + 1, Malformed)

\* The post fails; the server may have read it all the same, and its answer come late.
PostFails(id) ==
    /\ search.stage = "open" /\ search.sent[id].pc = "asked"
    /\ search' = [Settled(search, id, "failed", 0) EXCEPT !.sent[id].pc = "lost"]

\* An error, an answer without a text, or a list.  The answer to a number answered
\* before, or never given out, changes nothing.
Message(id) ==
    /\ search.stage = "open" /\ search.sent[id].pc = "asked"
    /\ \/ \E pc \in {"failed", "empty"} : search' = Settled(search, id, pc, 0)
       \/ \E n \in Deployments : search' = Settled(search, id, "answered", n)

LateMessage(id) ==
    /\ search.stage = "open" /\ search.sent[id].pc = "lost"
    /\ \E n \in Deployments : search' = [Settled(search, id, "answered", n) EXCEPT !.sent[id].pc = "late"]

SearchNext ==
    \/ \E list \in Lists, covered, keyed \in BOOLEAN : searchSubgraphsForTokens(list, covered, keyed)
    \/ Opened \/ Refused \/ Breaks \/ TimesOut \/ Endpoint
    \/ \E id \in DOMAIN search.sent : PostFails(id) \/ Message(id) \/ LateMessage(id)

DiscoveryInit == RadarInit /\ (search = Off \/ (search = Waiting /\ panel = subgraphSearch))

DiscoveryNext ==
    \/ search = Off /\ RadarNext /\ UNCHANGED search
    \/ search # Off /\ SearchNext /\ UNCHANGED radarVars

DiscoverySpec == DiscoveryInit /\ [][DiscoveryNext]_<<radarVars, search>>

-----------------------------------------------------------------------------
\* The server said of a, in answer to a request for a, that it has n subgraphs.
Said(a, n) ==
    \E id \in DOMAIN search.sent :
        search.sent[id].what = a /\ search.sent[id].pc \in {"answered", "empty"} /\ search.sent[id].hits = n

(***************************************************************************)
(* Whatever ends the search, "no subgraphs" is reported of a token only if *)
(* the server said so of that token, or none covers the chain; a number of *)
(* hits is the one given for that token, however late and out of order     *)
(* replies arrive; and as long as the stream holds, a token that failed    *)
(* does not take the others with it (src/web/lib/subgraphMcp.ts:104-283).  *)
(***************************************************************************)
ToldIsSaid ==
    /\ search.stage \in {"loop", "broken", "timeout"} =>
        \A a \in Wanted(search) :
            LET e == search.results[a] IN
            /\ ~ e.error => ~ search.covered \/ Said(a, e.hits)
            /\ e.hits > 0 => Said(a, e.hits)
    /\ search.stage = "loop" /\ Len(search.loops) = 1 =>
        \A id \in DOMAIN search.sent :
            LET r == search.sent[id] IN
            r.pc = "answered" /\ r.what # Malformed => search.results[r.what] = [hits |-> r.hits, error |-> FALSE]

SearchTypeOK ==
    /\ search.stage \in {"off", "idle", "opening", "open", "loop", "broken", "timeout"}
    /\ Len(search.tokens) = Cardinality(Wanted(search)) /\ Wanted(search) \subseteq Addresses
    /\ search.results \in [Addresses -> [hits : {0} \cup Deployments, error : BOOLEAN]]
    /\ \A l \in DOMAIN search.loops :
          search.loops[l].at \in 0 .. Len(search.tokens) /\ search.loops[l].awaits \in DOMAIN search.sent

(***************************************************************************)
(* A guarded panel ends up showing what is selected, one that clears       *)
(* itself never shows anything else, and none waits for a load that is no  *)
(* longer coming (Portfolio.tsx:139-164, Desk.tsx:379-452); and a search   *)
(* for subgraphs reports what the server said, and of what it did not      *)
(* answer that it failed (subgraphMcp.ts:83-287).                          *)
(***************************************************************************)
PanelsInv ==
    /\ TypeOK /\ SettledIsSelected /\ NeverAnothers /\ SpinnerIsStopped
    /\ SearchTypeOK /\ ToldIsSaid
=============================================================================
