----------------------------- MODULE Catalogue -----------------------------
(***************************************************************************)
(* The preset table httpz ships (httpz/presets.py, _DATA) and the names of *)
(* its static type (httpz/_types.py), as data for an instance of Presets.  *)
(* No two of the 170 targets share a fingerprint, so a target's own name   *)
(* stands for its fingerprint.                                             *)
(***************************************************************************)
EXTENDS TLC

ChromeTargets == {
    "chrome100", "chrome101", "chrome104", "chrome106a", "chrome107",
    "chrome107a", "chrome108a", "chrome109a", "chrome110", "chrome110a",
    "chrome114a", "chrome116", "chrome116a", "chrome117a", "chrome118a",
    "chrome119", "chrome119a", "chrome120", "chrome120a", "chrome123",
    "chrome123a", "chrome124", "chrome124a", "chrome126a", "chrome127a",
    "chrome128a", "chrome129a", "chrome130a", "chrome131",
    "chrome131_android", "chrome131a", "chrome132", "chrome133a",
    "chrome133b", "chrome134", "chrome135", "chrome136", "chrome136a",
    "chrome137", "chrome138", "chrome139", "chrome140", "chrome141",
    "chrome142", "chrome142a", "chrome143", "chrome144", "chrome145",
    "chrome145a", "chrome146", "chrome146a", "chrome147", "chrome148",
    "chrome99", "chrome99_android", "chrome_100", "chrome_101",
    "chrome_104", "chrome_105", "chrome_106", "chrome_107", "chrome_108",
    "chrome_109", "chrome_114", "chrome_116", "chrome_117", "chrome_118",
    "chrome_119", "chrome_120", "chrome_123", "chrome_124", "chrome_126",
    "chrome_127", "chrome_128", "chrome_129", "chrome_130", "chrome_131",
    "chrome_133"}

EdgeTargets == {
    "edge101", "edge122a", "edge127a", "edge131a", "edge134", "edge135",
    "edge136", "edge137", "edge138", "edge139", "edge140", "edge141",
    "edge142", "edge143", "edge144", "edge145", "edge146", "edge147",
    "edge99", "edge_101", "edge_122", "edge_127", "edge_131"}

FirefoxTargets == {
    "firefox133", "firefox135", "firefox136", "firefox139", "firefox142",
    "firefox143", "firefox144", "firefox145", "firefox146", "firefox147",
    "firefox148", "firefox149", "firefox151", "firefox_109",
    "firefox_117", "firefox_128", "firefoxandroid135",
    "firefoxprivate135", "firefoxprivate136", "tor145"}

OperaTargets == {
    "opera116", "opera117", "opera118", "opera119", "opera120",
    "opera121", "opera122", "opera123", "opera124", "opera125",
    "opera126", "opera127", "opera128", "opera129", "opera130"}

SafariTargets == {
    "safari153", "safari155", "safari170", "safari172_ios", "safari180",
    "safari180_ios", "safari183", "safari1831", "safari184",
    "safari184_ios", "safari185", "safari26", "safari260", "safari2601",
    "safari260_ios", "safari261", "safari262", "safari_15.3",
    "safari_15.5", "safari_15.6.1", "safari_16", "safari_16.5",
    "safari_17.2.1", "safari_17.4.1", "safari_17.5", "safari_18.2",
    "safari_ios_16.5", "safari_ios_17.4.1", "safari_ios_18.1.1",
    "safari_ipad_18", "safariios26", "safariios262", "safariipad26",
    "safariipad262"}

Targets == ChromeTargets \cup EdgeTargets \cup FirefoxTargets \cup OperaTargets \cup SafariTargets

FamilyOfTarget(n) ==
    CASE n \in ChromeTargets -> "chrome"
      [] n \in EdgeTargets -> "edge"
      [] n \in FirefoxTargets -> "firefox"
      [] n \in OperaTargets -> "opera"
      [] n \in SafariTargets -> "safari"

\* The aliases that differ from their target; every target is an alias of itself too.
Renamed ==
    "chrome105" :> "chrome_105" @@ "chrome106" :> "chrome_106" @@
    "chrome108" :> "chrome_108" @@ "chrome109" :> "chrome_109" @@
    "chrome114" :> "chrome_114" @@ "chrome117" :> "chrome_117" @@
    "chrome118" :> "chrome_118" @@ "chrome126" :> "chrome_126" @@
    "chrome127" :> "chrome_127" @@ "chrome128" :> "chrome_128" @@
    "chrome129" :> "chrome_129" @@ "chrome130" :> "chrome_130" @@
    "chrome131android" :> "chrome131_android" @@ "chrome133" :> "chrome_133"
    @@ "chrome99android" :> "chrome99_android" @@ "edge122" :> "edge_122" @@
    "edge127" :> "edge_127" @@ "edge131" :> "edge_131" @@
    "firefox109" :> "firefox_109" @@ "firefox117" :> "firefox_117" @@
    "firefox128" :> "firefox_128" @@ "firefox_133" :> "firefox133" @@
    "firefox_135" :> "firefox135" @@ "safari1561" :> "safari_15.6.1" @@
    "safari15_3" :> "safari153" @@ "safari15_5" :> "safari155" @@
    "safari16" :> "safari_16" @@ "safari165" :> "safari_16.5" @@
    "safari1721" :> "safari_17.2.1" @@ "safari172ios" :> "safari172_ios" @@
    "safari1741" :> "safari_17.4.1" @@ "safari175" :> "safari_17.5" @@
    "safari17_0" :> "safari170" @@ "safari17_2_ios" :> "safari172_ios" @@
    "safari18" :> "safari180" @@ "safari180ios" :> "safari180_ios" @@
    "safari182" :> "safari_18.2" @@ "safari184ios" :> "safari184_ios" @@
    "safari18_0" :> "safari180" @@ "safari18_0_ios" :> "safari180_ios" @@
    "safari260ios" :> "safari260_ios" @@ "safari_17.0" :> "safari170" @@
    "safari_18" :> "safari180" @@ "safari_ios_17.2" :> "safari172_ios" @@
    "safariios165" :> "safari_ios_16.5" @@ "safariios172" :> "safari172_ios"
    @@ "safariios1741" :> "safari_ios_17.4.1" @@
    "safariios1811" :> "safari_ios_18.1.1" @@
    "safariipad18" :> "safari_ipad_18"

Aliases == [n \in Targets |-> n] @@ Renamed

BrowserTypeLiteral == Targets \cup DOMAIN Renamed

Shipped ==
    [targets |-> [n \in Targets |-> [fp |-> n, browser |-> FamilyOfTarget(n)]],
     aliases |-> Aliases]

\* What the normalisation makes of the names it changes.
Spelled ==
    "chrome131_android" :> "chrome131android" @@
    "chrome99_android" :> "chrome99android" @@ "chrome_100" :> "chrome100"
    @@ "chrome_101" :> "chrome101" @@ "chrome_104" :> "chrome104" @@
    "chrome_105" :> "chrome105" @@ "chrome_106" :> "chrome106" @@
    "chrome_107" :> "chrome107" @@ "chrome_108" :> "chrome108" @@
    "chrome_109" :> "chrome109" @@ "chrome_114" :> "chrome114" @@
    "chrome_116" :> "chrome116" @@ "chrome_117" :> "chrome117" @@
    "chrome_118" :> "chrome118" @@ "chrome_119" :> "chrome119" @@
    "chrome_120" :> "chrome120" @@ "chrome_123" :> "chrome123" @@
    "chrome_124" :> "chrome124" @@ "chrome_126" :> "chrome126" @@
    "chrome_127" :> "chrome127" @@ "chrome_128" :> "chrome128" @@
    "chrome_129" :> "chrome129" @@ "chrome_130" :> "chrome130" @@
    "chrome_131" :> "chrome131" @@ "chrome_133" :> "chrome133" @@
    "edge_101" :> "edge101" @@ "edge_122" :> "edge122" @@
    "edge_127" :> "edge127" @@ "edge_131" :> "edge131" @@
    "firefox_109" :> "firefox109" @@ "firefox_117" :> "firefox117" @@
    "firefox_128" :> "firefox128" @@ "firefox_133" :> "firefox133" @@
    "firefox_135" :> "firefox135" @@ "safari15_3" :> "safari153" @@
    "safari15_5" :> "safari155" @@ "safari172_ios" :> "safari172ios" @@
    "safari17_0" :> "safari170" @@ "safari17_2_ios" :> "safari172ios" @@
    "safari180_ios" :> "safari180ios" @@ "safari184_ios" :> "safari184ios"
    @@ "safari18_0" :> "safari180" @@ "safari18_0_ios" :> "safari180ios" @@
    "safari260_ios" :> "safari260ios" @@ "safari_15.3" :> "safari153" @@
    "safari_15.5" :> "safari155" @@ "safari_15.6.1" :> "safari1561" @@
    "safari_16" :> "safari16" @@ "safari_16.5" :> "safari165" @@
    "safari_17.0" :> "safari170" @@ "safari_17.2.1" :> "safari1721" @@
    "safari_17.4.1" :> "safari1741" @@ "safari_17.5" :> "safari175" @@
    "safari_18" :> "safari18" @@ "safari_18.2" :> "safari182" @@
    "safari_ios_16.5" :> "safariios165" @@
    "safari_ios_17.2" :> "safariios172" @@
    "safari_ios_17.4.1" :> "safariios1741" @@
    "safari_ios_18.1.1" :> "safariios1811" @@
    "safari_ipad_18" :> "safariipad18"
=============================================================================
