------------------------------- MODULE Router -------------------------------
(***************************************************************************)
(* The router (src/server/responder/router): its table is built from the   *)
(* rules of the configuration, and then each request is given to the       *)
(* responder of the rule with the longest matching prefix; the file        *)
(* responder makes of the URL the path of a file.  A URL is a sequence of  *)
(* characters, a rule has the name of a responder and the prefix that the  *)
(* file responder is told to cut from the URL (its first argument).        *)
(*                                                                         *)
(* The loops over a std::map are modelled in any order.                    *)
(***************************************************************************)
EXTENDS SequencesExt, Integers

CONSTANTS
    Parts,      \* the characters that URLs are made of
    Urls,       \* the URLs that are asked for
    RuleUrls,   \* the URLs that rules may be given for
    Rules,      \* the rules that the configuration may have
    Index       \* the index page of the file responders

ASSUME UrlsAssumption == Urls \subseteq Seq(Parts) /\ RuleUrls \subseteq Seq(Parts)
ASSUME PartsAssumption == "/" \in Parts /\ Index \in Seq(Parts)

Names == {"Normal", "Debug"}
\* Whether NewResponder makes a responder or nullptr.
\* NewNormal: it knows one of the names only.
NewNormal(name) == name = "Normal"
NewResponder(name) == name \in Names
IsResponderValid(name) == name \in Names

ASSUME RulesAssumption == Rules \subseteq [name : STRING, prefix : Seq(Parts)]

NormalRule == [name |-> "Normal", prefix |-> <<>>]
\* nullptr
NoResponder == [name |-> "none", prefix |-> <<>>]

VARIABLES
    default_rule, responder_rules,  \* the configuration
    default_resp, table,            \* the members of Router
    loc,                            \* where its caller is
    left,                           \* the entries its loop is still to visit
    url,                            \* the argument of GetResponder
    max_prefix_len, cur_resp,       \* the variables of GetResponder
    rest,                           \* the URL without the responder's prefix
    start,                          \* how far StrSplit is in it
    path                            \* the path so far, below www_root_

config == <<default_rule, responder_rules>>
search == <<url, max_prefix_len, cur_resp>>
query == <<search, rest, start, path>>
vars == <<config, default_resp, table, loc, left, query>>

Tables == UNION {[D -> Rules] : D \in SUBSET RuleUrls}

Init ==
    /\ default_rule \in Rules
    /\ responder_rules \in Tables
    /\ default_resp = NormalRule
    /\ table = <<>>
    /\ loc = "construct"
    /\ left = {}
    /\ url = <<>>
    /\ max_prefix_len = 0
    /\ cur_resp = NoResponder
    /\ rest = <<>>
    /\ start = 0
    /\ path = <<>>

-----------------------------------------------------------------------------
(* The constructor.                                                        *)

ReadDefault ==
    /\ loc = "construct"
    /\ default_resp' = IF NewResponder(default_rule.name)
                       THEN default_rule ELSE NormalRule
    /\ left' = DOMAIN responder_rules
    /\ loc' = "build"
    /\ UNCHANGED <<config, table, query>>

AddRule ==
    /\ loc = "build"
    /\ \E u \in left :
         /\ left' = left \ {u}
         /\ table' = IF NewResponder(responder_rules[u].name)
                     THEN [v \in DOMAIN table \cup {u} |->
                              IF v = u THEN responder_rules[u] ELSE table[v]]
                     ELSE table
    /\ UNCHANGED <<config, default_resp, loc, query>>

Constructed ==
    /\ loc = "build"
    /\ left = {}
    /\ loc' = "ready"
    /\ UNCHANGED <<config, default_resp, table, left, query>>

-----------------------------------------------------------------------------
(* GetResponder.                                                           *)

GetResponder ==
    /\ loc = "ready"
    /\ url' \in Urls
    /\ max_prefix_len' = 0
    /\ cur_resp' = NoResponder
    /\ left' = DOMAIN table
    /\ loc' = "find"
    /\ UNCHANGED <<config, default_resp, table, rest, start, path>>

\* std::mismatch stops at the end of a URL that is shorter than the rule, at
\* the NUL behind it.
\* BetterLast: no matter the length, the last match wins.
BetterLast(p) == IsPrefix(p, url) /\ Len(p) > 0
Better(p) == IsPrefix(p, url) /\ Len(p) > max_prefix_len

Visit ==
    /\ loc = "find"
    /\ \E p \in left :
         /\ left' = left \ {p}
         /\ IF Better(p)
            THEN max_prefix_len' = Len(p) /\ cur_resp' = table[p]
            ELSE UNCHANGED <<max_prefix_len, cur_resp>>
    /\ UNCHANGED <<config, default_resp, table, loc, url, rest, start, path>>

Found ==
    /\ loc = "find"
    /\ left = {}
    /\ loc' = "found"
    /\ UNCHANGED <<config, default_resp, table, left, query>>

Responder == IF cur_resp = NoResponder THEN default_resp ELSE cur_resp

-----------------------------------------------------------------------------
(* AcceptRequest of the responder that was found.                          *)

Occurs(q, u) ==
    \E i \in 0 .. Len(u) - Len(q) : SubSeq(u, i + 1, i + Len(q)) = q

\* url.substr(url_prefix_.size())
\* CutOneMore: with the slash behind it.
CutOneMore(q, u) == SubSeq(u, Len(q) + 2, Len(u))
Cut(q, u) == SubSeq(u, Len(q) + 1, Len(u))

Serve ==
    /\ loc = "found"
    /\ Responder.name = "Normal" => Occurs(Responder.prefix, url)
    /\ rest' = IF Responder.name = "Normal" THEN Cut(Responder.prefix, url) ELSE url
    /\ start' = 0
    /\ path' = <<>>
    /\ loc' = "served"
    /\ UNCHANGED <<config, default_resp, table, left, search>>

\* The file responder answers other methods than GET before it looks at the
\* URL.
NotImplemented ==
    /\ loc = "found"
    /\ Responder.name = "Normal"
    /\ loc' = "ready"
    /\ UNCHANGED <<config, default_resp, table, left, query>>

\* The assertion fails and ends the process.
Abort ==
    /\ loc = "found"
    /\ Responder.name = "Normal"
    /\ ~Occurs(Responder.prefix, url)
    /\ loc' = "aborted"
    /\ UNCHANGED <<config, default_resp, table, left, query>>

\* The parts of a URL that name a file or a directory.
\* KeptDotDot: a part is skipped only if it is empty or ".".
KeptDotDot(part) == part \notin {<<>>, <<".">>}
Kept(part) == part \notin {<<>>, <<".">>, <<".", ".">>}
WithPart(ans, part) == IF Kept(part) THEN ans \o <<"/">> \o part ELSE ans

\* What follows the last ".", or nothing.
GetStrSuffix(s) ==
    LET dots == {i \in DOMAIN s : s[i] = "."}
    IN  IF dots = {} THEN <<>>
        ELSE SubSeq(s, (CHOOSE m \in dots : \A n \in dots : n <= m) + 1, Len(s))

\* A path without a suffix is one of a directory, whose index page is meant.
WithSlash(ans) ==
    IF GetStrSuffix(ans) = <<>> \/ "/" \in ToSet(GetStrSuffix(ans))
    THEN ans \o <<"/">> ELSE ans
WithIndex(ans) == IF ans[Len(ans)] = "/" THEN ans \o Index ELSE ans

NoSlash(s, i, j) == \A k \in i .. j : s[k] # "/"

\* One part of the URL, up to the next slash.
SplitPart ==
    /\ loc = "served"
    /\ \E end \in start + 1 .. Len(rest) :
         /\ rest[end] = "/"
         /\ NoSlash(rest, start + 1, end - 1)
         /\ path' = WithPart(path, SubSeq(rest, start + 1, end - 1))
         /\ start' = end
    /\ UNCHANGED <<config, default_resp, table, loc, left, search, rest>>

\* The last one, and the path of the file that is opened.  The debug responder
\* only looks at how the normalized URL ends.
LastPart ==
    /\ loc = "served"
    /\ NoSlash(rest, start + 1, Len(rest))
    /\ path' = LET ans == WithSlash(WithPart(path, SubSeq(rest, start + 1, Len(rest))))
               IN  IF Responder.name = "Normal" THEN WithIndex(ans) ELSE ans
    /\ loc' = "answered"
    /\ UNCHANGED <<config, default_resp, table, left, search, rest, start>>

NextRequest ==
    /\ loc = "answered"
    /\ loc' = "ready"
    /\ UNCHANGED <<config, default_resp, table, left, query>>

Next ==
    \/ ReadDefault \/ AddRule \/ Constructed
    \/ GetResponder \/ Visit \/ Found
    \/ Serve \/ SplitPart \/ LastPart \/ NotImplemented \/ Abort \/ NextRequest

Spec == Init /\ [][Next]_vars

-----------------------------------------------------------------------------
TypeOK ==
    /\ default_rule \in Rules
    /\ responder_rules \in Tables
    /\ default_resp \in Rules \cup {NormalRule}
    /\ table \in Tables
    /\ loc \in {"construct", "build", "ready", "find", "found", "served", "answered",
               "aborted"}
    /\ left \subseteq RuleUrls
    /\ url \in Seq(Parts)
    /\ max_prefix_len \in Nat
    /\ cur_resp \in Rules \cup {NoResponder}
    /\ rest \in Seq(Parts)
    /\ start \in Nat
    /\ path \in Seq(Parts)

\* The rules that matter for a URL: those with a valid name whose own URL is
\* a prefix of it.  A rule for the empty URL never applies.
Applicable(u) ==
    {p \in DOMAIN responder_rules :
        /\ IsResponderValid(responder_rules[p].name)
        /\ p # <<>>
        /\ IsPrefix(p, u)}
Longest(S) == CHOOSE p \in S : \A q \in S : Len(q) <= Len(p)

\* GetResponder finds the rule of the configuration with the longest prefix,
\* whatever the order of the table (router.cpp:58-75) and whichever rules the
\* constructor left out (router.cpp:19-41), and the default without one.
LongestRuleWins ==
    loc \in {"found", "served", "answered"} =>
        Responder = IF Applicable(url) # {}
                    THEN responder_rules[Longest(Applicable(url))]
                    ELSE IF IsResponderValid(default_rule.name)
                         THEN default_rule ELSE NormalRule

\* PrintRouterRules shows the rules of the configuration that are valid, and
\* GetResponder uses the table: they agree once the router is constructed
\* (router.cpp:86-107 and :19-41).
Shown == {p \in DOMAIN responder_rules : IsResponderValid(responder_rules[p].name)}
ShownDefault == IF IsResponderValid(default_rule.name) THEN default_rule ELSE NormalRule
ShowsWhatItUses ==
    loc \notin {"construct", "build"} =>
        /\ DOMAIN table = Shown
        /\ \A p \in Shown : table[p] = responder_rules[p]
        /\ default_resp = ShownDefault

\* A configuration that tells each file responder to cut no more than the
\* URL of its rule.
Consistent ==
    /\ default_rule.name = "Normal" => default_rule.prefix = <<>>
    /\ \A p \in DOMAIN responder_rules :
         responder_rules[p].name = "Normal" => IsPrefix(responder_rules[p].prefix, p)

\* Then the assertion of normal.cpp:70 holds for every request, and what the
\* responder cuts from the URL is that prefix and nothing else
\* (normal.cpp:70-71), because only the rule's own URLs are routed to it.
CutsItsPrefix ==
    Consistent =>
        /\ loc # "aborted"
        /\ loc \in {"served", "answered"} /\ Responder.name = "Normal" =>
               url = Responder.prefix \o rest

\* Where the names in s are: its longest stretches without a slash.
Spans(s) ==
    {p \in (1 .. Len(s)) \X (1 .. Len(s)) :
        /\ p[1] <= p[2]
        /\ NoSlash(s, p[1], p[2])
        /\ p[1] = 1 \/ s[p[1] - 1] = "/"
        /\ p[2] = Len(s) \/ s[p[2] + 1] = "/"}
Name(s, p) == SubSeq(s, p[1], p[2])
\* Dots stand for a directory, here or above, and name nothing.
IsName(part) == part \notin {<<>>, <<".">>, <<".", ".">>}

\* The names in t are those in s but for its dots, in the order they have there.
SameNames(s, t) ==
    \E f \in [{p \in Spans(s) : IsName(Name(s, p))} -> Spans(t)] :
        /\ \A p \in DOMAIN f : Name(t, f[p]) = Name(s, p)
        /\ \A p, q \in DOMAIN f : p[1] < q[1] => f[p][1] < f[q][1]
        /\ \A r \in Spans(t) : \E p \in DOMAIN f : f[p] = r

\* An index page that lies in the directory it is the page of.
PlainIndex == IsName(Index) /\ NoSlash(Index, 1, Len(Index))

\* Whatever the URL, the file that is opened lies below the root, where the
\* names of the URL lead one after the other without its dots, or is the
\* index page there (strop.h:19-43, normal.cpp:71-75).
FilesStayBelowRoot ==
    loc = "answered" /\ Responder.name = "Normal" /\ PlainIndex =>
        /\ path[1] = "/" /\ path[Len(path)] # "/"
        /\ SameNames(rest, path) \/ SameNames(rest \o <<"/">> \o Index, path)

-----------------------------------------------------------------------------
(* The inductive invariant behind the properties.                          *)

Constructing == loc \in {"construct", "build"}

\* Half of the table is the half of what PrintRouterRules will show.
TableGrows ==
    Constructing =>
        /\ left \subseteq DOMAIN responder_rules
        /\ loc = "construct" => DOMAIN table = {}
        /\ loc = "build" => DOMAIN table = Shown \ left /\ default_resp = ShownDefault
        /\ \A p \in DOMAIN table : table[p] = responder_rules[p]

\* The best of the rules visited so far.
Seen == DOMAIN table \ left
BestSeen ==
    loc \in {"find", "found", "served", "answered"} =>
        /\ left \subseteq IF loc = "find" THEN DOMAIN table ELSE {}
        /\ \A p \in Seen : IsPrefix(p, url) => Len(p) <= max_prefix_len
        /\ IF cur_resp = NoResponder THEN max_prefix_len = 0
           ELSE \E p \in Seen : /\ IsPrefix(p, url)
                                /\ max_prefix_len = Len(p)
                                /\ p # <<>>
                                /\ cur_resp = table[p]

\* StrSplit is behind a slash, and the path has the names up to there.
PathGrows ==
    loc = "served" =>
        /\ start <= Len(rest)
        /\ start = 0 \/ rest[start] = "/"
        /\ path = <<>> \/ (path[1] = "/" /\ path[Len(path)] # "/")
        /\ SameNames(SubSeq(rest, 1, start), path)

IInv ==
    /\ TypeOK
    /\ TableGrows
    /\ ShowsWhatItUses
    /\ BestSeen
    /\ CutsItsPrefix
    /\ PathGrows
    /\ FilesStayBelowRoot
=============================================================================
