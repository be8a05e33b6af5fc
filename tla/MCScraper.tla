----------------------------- MODULE MCScraper -----------------------------
(***************************************************************************)
(* Model-checking instances of Scraper.  The files before the first job    *)
(* are the ones httpz ships; the libraries offer a few targets, among them *)
(* two spellings of one name, a name two libraries share and one without a *)
(* browser family.                                                         *)
(***************************************************************************)
EXTENDS Scraper, Catalogue

MCSources == {"curl_cffi", "primp", "wreq"}
Offers == <<"Chrome131", "chrome124", "chrome131", "chrome_131", "okhttp4">>
Tag(s, n) == s \o ":" \o n
MCTagged == [s \in MCSources |-> [n \in {Offers[i] : i \in DOMAIN Offers} |-> Tag(s, n)]]
Tags(s) == [i \in DOMAIN Offers |-> Tag(s, Offers[i])]

\* The keys of captures in sorted order.
Order == SubSeq(Offers, 1, 4) \o Tags("curl_cffi") \o <<"okhttp4">> \o Tags("primp") \o Tags("wreq")
Sorted == {Order[i] : i \in DOMAIN Order}
MCPosition == [n \in Sorted |-> CHOOSE i \in DOMAIN Order : Order[i] = n]
MCLength == [n \in Sorted |-> Len(n)]

\* Names that are not in the shipped table, and how they are normalised.
Plain == "Chrome131" :> "chrome131" @@ Spelled @@ "chrome124" :> "chrome124"
             @@ "chrome131" :> "chrome131" @@ "okhttp4" :> "okhttp4"
Prefix == "curl_cffi" :> "curlcffi" @@ "primp" :> "primp" @@ "wreq" :> "wreq"
TagNorm(s, i) == Tag(s, Offers[i]) :> Tag(Prefix[s], Plain[Offers[i]])
TagNorms(s) == TagNorm(s, 1) @@ TagNorm(s, 2) @@ TagNorm(s, 3) @@ TagNorm(s, 4) @@ TagNorm(s, 5)
TagsNormed == TagNorms("curl_cffi") @@ TagNorms("primp") @@ TagNorms("wreq")
NewNames ==
    Sorted \cup {TagsNormed[n] : n \in DOMAIN TagsNormed}
        \cup {"chrome131b", "chrome131c", "chrome131d"}
MCNames == Listed(Shipped) \cup NewNames
MCNormOf == TagsNormed @@ Plain @@ [n \in MCNames |-> n]

MCOffered ==
    "curl_cffi" :> <<"chrome131">>
        @@ "primp" :> <<"chrome131", "chrome124", "chrome_131">>
        @@ "wreq" :> <<"Chrome131", "okhttp4">>

MCVariants ==
    ("chrome131" :> <<"chrome131a", "chrome131b", "chrome131c", "chrome131d">>)
    @@ [n \in MCNames |-> <<>>]
MCFamilyOf == [n \in MCNames |->
    CASE n \in Targets -> FamilyOfTarget(n)
      [] n = "Chrome131" -> "chrome"
      [] OTHER -> NoFamily]

\* The fingerprint the table has under the name, another one of the table, a new one.
MCAnswers ==
    "chrome124" :> {"new"} @@ "chrome131" :> {"chrome131"} @@ "chrome_131" :> {"new"}
        @@ "Chrome131" :> {"chrome131", "newer"}

Job(m, s) == [mode |-> m, sources |-> s]
MCJobs == {Job("full", <<"curl_cffi", "primp", "wreq">>), Job("augment", <<"primp", "wreq">>)}
=============================================================================
