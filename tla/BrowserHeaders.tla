--------------------------- MODULE BrowserHeaders ---------------------------
(***************************************************************************)
(* The default request headers of a browser (_impersonate_headers.py), as  *)
(* a function of its family and of the User-Agent: an ordered list of      *)
(* pairs.  A value that is the same text for a whole family is named after *)
(* the family; the ones made from the User-Agent keep what they say.       *)
(***************************************************************************)
EXTENDS Naturals, Sequences

CONSTANTS
    Agents,   \* User-Agent strings
    None,     \* None, or an empty string
    Version,  \* Version[ua][token]: the number after "token/" in ua, 0 for none
    Marks     \* Marks[ua]: the words of ua that _platform looks for

\* re.search(token/(\d+)); None, like version 0, gives way to what follows an "or".
Major(ua, token) == IF ua = None THEN 0 ELSE Version[ua][token]
Or(x, y) == IF x # 0 THEN x ELSE y

Has(ua, word) == ua # None /\ word \in Marks[ua]

\* Linux looked for first, which is a part of every Android agent.
Mut_Platform(ua) ==
    IF Has(ua, "Linux") \/ Has(ua, "X11") THEN <<"Linux", FALSE>>
    ELSE IF Has(ua, "iPhone") \/ Has(ua, "iPad") THEN <<"iOS", TRUE>>
    ELSE IF Has(ua, "Macintosh") \/ Has(ua, "Mac OS X") THEN <<"macOS", FALSE>>
    ELSE <<"Windows", FALSE>>

\* sec-ch-ua-platform and whether the browser is mobile: the first word that is there decides.
Platform(ua) ==
    IF Has(ua, "Android") THEN <<"Android", TRUE>>
    ELSE IF Has(ua, "iPhone") \/ Has(ua, "iPad") THEN <<"iOS", TRUE>>
    ELSE IF Has(ua, "Windows") THEN <<"Windows", FALSE>>
    ELSE IF Has(ua, "Macintosh") \/ Has(ua, "Mac OS X") THEN <<"macOS", FALSE>>
    ELSE IF Has(ua, "Linux") \/ Has(ua, "X11") THEN <<"Linux", FALSE>>
    ELSE <<"Windows", FALSE>>

ZstdSince == 123
AcceptEncoding(chromium) == IF chromium >= ZstdSince THEN "with zstd" ELSE "without zstd"

AgentRow(ua) == IF ua = None THEN <<>> ELSE <<<<"user-agent", ua>>>>
Rows(names, value) == [i \in DOMAIN names |-> <<names[i], value>>]

Chromium(brands, ua, chromium) ==
    <<<<"sec-ch-ua", brands>>,
      <<"sec-ch-ua-mobile", Platform(ua)[2]>>,
      <<"sec-ch-ua-platform", Platform(ua)[1]>>,
      <<"upgrade-insecure-requests", "1">>>>
    \o AgentRow(ua)
    \o Rows(<<"accept", "sec-fetch-site", "sec-fetch-mode", "sec-fetch-user", "sec-fetch-dest">>,
            "chromium")
    \o <<<<"accept-encoding", AcceptEncoding(chromium)>>>>
    \o Rows(<<"accept-language", "priority">>, "chromium")

\* The brands with their versions, in the browser's order; the GREASE brand is fixed.
Chrome(ua) ==
    LET m == Or(Major(ua, "Chrome"), 131)
    IN  Chromium(<<<<"Chromium", m>>, <<"Google Chrome", m>>>>, ua, m)

Edge(ua) ==
    LET m == Or(Major(ua, "Edg"), Or(Major(ua, "Chrome"), 131))
    IN  Chromium(<<<<"Microsoft Edge", m>>, <<"Chromium", m>>>>, ua, Or(Major(ua, "Chrome"), m))

Opera(ua) ==
    LET chrome == Or(Major(ua, "Chrome"), 131)
        opr    == Or(Major(ua, "OPR"), 115)
    IN  Chromium(<<<<"Chromium", chrome>>, <<"Opera", opr>>>>, ua, chrome)

\* No client hints, and the agent first.
Firefox(ua) ==
    AgentRow(ua)
    \o Rows(<<"accept", "accept-language", "accept-encoding", "upgrade-insecure-requests",
              "sec-fetch-dest", "sec-fetch-mode", "sec-fetch-site", "sec-fetch-user",
              "priority", "te">>, "firefox")

Safari(ua) == AgentRow(ua) \o Rows(<<"accept", "accept-language", "accept-encoding">>, "safari")

\* default_browser_headers: nothing for a family it does not know.
DefaultHeaders(browser, ua) ==
    CASE browser = "chrome" -> Chrome(ua)
      [] browser = "edge" -> Edge(ua)
      [] browser = "opera" -> Opera(ua)
      [] browser = "firefox" -> Firefox(ua)
      [] browser \in {"safari", "ios"} -> Safari(ua)
      [] OTHER -> <<>>
=============================================================================
