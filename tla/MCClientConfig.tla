--------------------------- MODULE MCClientConfig ---------------------------
(***************************************************************************)
(* Model-checking instance of ClientConfig: two threads, a preset of each  *)
(* kind, and calls that override every part of it.                         *)
(***************************************************************************)
EXTENDS ClientConfig, TLC

CONSTANTS p1, badProxy

MCAgents == {"chrome/windows", "chrome/android", "edge/windows", "opera/mac", "firefox/linux",
             "safari/iphone", "app"}
Majors(chrome, edg, opr) == "Chrome" :> chrome @@ "Edg" :> edg @@ "OPR" :> opr
MCVersion ==
    "chrome/windows" :> Majors(131, 0, 0) @@ "chrome/android" :> Majors(99, 0, 0)
        @@ "edge/windows" :> Majors(134, 134, 0) @@ "opera/mac" :> Majors(122, 0, 108)
        @@ "firefox/linux" :> Majors(0, 0, 0) @@ "safari/iphone" :> Majors(0, 0, 0)
        @@ "app" :> Majors(0, 0, 0)
MCMarks ==
    "chrome/windows" :> {"Windows"} @@ "chrome/android" :> {"Linux", "Android"}
        @@ "edge/windows" :> {"Windows"} @@ "opera/mac" :> {"Macintosh", "Mac OS X"}
        @@ "firefox/linux" :> {"X11", "Linux"} @@ "safari/iphone" :> {"iPhone", "Mac OS X"}
        @@ "app" :> {}
MCDevice ==
    "chrome/windows" :> <<"Windows", FALSE>> @@ "chrome/android" :> <<"Android", TRUE>>
        @@ "edge/windows" :> <<"Windows", FALSE>> @@ "opera/mac" :> <<"macOS", FALSE>>
        @@ "firefox/linux" :> <<"Linux", FALSE>> @@ "safari/iphone" :> <<"iOS", TRUE>>
        @@ "app" :> <<"Windows", FALSE>>

Preset(b, ua) == [ja3 |-> "ja3:" \o b, h2 |-> "h2:" \o b, browser |-> b, agent |-> ua]
MCPresets ==
    "chrome131" :> Preset("chrome", "chrome/windows")
        @@ "chrome99_android" :> Preset("chrome", "chrome/android")
        @@ "edge134" :> Preset("edge", "edge/windows")
        @@ "opera108" :> Preset("opera", "opera/mac")
        @@ "firefox133" :> Preset("firefox", "firefox/linux")
        @@ "safari_ios" :> Preset("safari", "safari/iphone")

Plain ==
    [impersonate |-> None, ja3 |-> None, h2 |-> None, browser |-> None, agent |-> None,
     proxy |-> None, timeout |-> None, redirects |-> 10, verify |-> TRUE,
     headers |-> <<>>, browserHeaders |-> TRUE, force |-> FALSE]

Repeated == <<<<"user-agent", "app">>, <<"x", "y">>, <<"user-agent", "edge/windows">>, <<"x", "z">>>>

\* Overrides of a preset, or the whole of what the caller asks for.
Presetted(n) == [Plain EXCEPT !.impersonate = n]
MCCalls ==
    {Presetted(n) : n \in DOMAIN MCPresets}
    \cup {[Presetted("chrome131") EXCEPT !.agent = ua] : ua \in MCAgents}
    \cup {[Presetted(n) EXCEPT !.headers = <<<<"user-agent", "app">>>>] : n \in {"chrome131", "firefox133"}}
    \cup {[Presetted("chrome131") EXCEPT !.headers = <<<<"user-agent", "chrome/android">>>>]}
    \cup {[Presetted(n) EXCEPT !.headers = Repeated] : n \in {None, "chrome131", "firefox133"}}
    \cup {[Presetted("edge134") EXCEPT !.headers = <<<<"sec-ch-ua-mobile", TRUE>>, <<"x", "y">>>>]}
    \cup {[Presetted(n) EXCEPT !.browserHeaders = FALSE, !.proxy = p] :
              n \in {None, "opera108"}, p \in {p1, badProxy}}
    \cup {[Presetted(n) EXCEPT !.ja3 = f, !.browser = b] :
              n \in {None, "chrome131"}, f \in {"ja3:own", "ja3:bad"}, b \in {None, "ios", "other"}}
    \cup {[Presetted("safari_ios") EXCEPT !.h2 = f] : f \in {"h2:own", "h2:bad"}}
    \cup {[Plain EXCEPT !.timeout = 1500, !.redirects = 3, !.force = TRUE, !.verify = FALSE],
          [Plain EXCEPT !.timeout = 999, !.redirects = 0, !.agent = "app"]}

\* Every value of every option once, and the combinations of timeouts with force_http1.
NoOptions == [timeout |-> None, redirects |-> None, follow |-> TRUE, force |-> None]
MCRequestCalls ==
    {[NoOptions EXCEPT !.timeout = s, !.force = f] : s \in {0, 999, 2000}, f \in {TRUE, FALSE}}
    \cup {NoOptions, [NoOptions EXCEPT !.redirects = 0],
          [NoOptions EXCEPT !.redirects = 5, !.follow = FALSE]}

Symmetry == Permutations(Threads)
=============================================================================
