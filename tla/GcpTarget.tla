----------------------------- MODULE GcpTarget -----------------------------
(***************************************************************************)
(* Where an operation acts: the project, zone, region, service account and *)
(* state bucket of a request.                                              *)
(*   api/gem_api/models/validators.py, clusters.py   what is accepted      *)
(*   api/gem_api/config.py                           the defaults          *)
(*   api/gem_api/services/runner.py                  what the steps get    *)
(*                                                                         *)
(* A request is validated when it arrives and resolved a second time, by   *)
(* other code, when the operation runs.  Texts are opaque: Strip says what *)
(* they are without the blanks around them, RegionPart what precedes their *)
(* last hyphen, Length how long they are, and the regular expressions are  *)
(* the sets of the texts they match.                                       *)
(***************************************************************************)
EXTENDS Naturals

CONSTANTS
    Text, NoText,
    Empty,           \* the empty text
    Placeholders,    \* texts that mean "not given": string, none, null, undefined
    Strip, RegionPart, Length,
    ZoneNames,       \* stripped texts that match GCP_ZONE_REGEX
    RegionNames,     \* stripped texts that match GCP_REGION_REGEX
    ProjectIds,      \* GCP_PROJECT_ID_REGEX
    Emails,          \* EMAIL_REGEX
    ServiceAccount,  \* tf-provisioner@<project>.iam.gserviceaccount.com
    StateBucket,     \* gem-<project>-tfstate
    FallbackZone, FallbackProject, FallbackRegion

Optional == Text \cup {NoText}

ASSUME TargetConstants ==
    /\ NoText \notin Text
    /\ Empty \in Text /\ Placeholders \subseteq Text
    /\ Strip \in [Text -> Text] /\ \A t \in Text : Strip[Strip[t]] = Strip[t]
    /\ RegionPart \in [Text -> Optional]            \* NoText: there is no hyphen
    /\ Length \in [Text -> Nat]
    /\ ZoneNames \subseteq Text /\ RegionNames \subseteq Text
    /\ ZoneNames \cap RegionNames = {}
    /\ \A t \in ZoneNames \cup RegionNames : Strip[t] = t
    /\ \A z \in ZoneNames : RegionPart[z] \in RegionNames
    /\ \A r \in RegionNames : RegionPart[r] # NoText
    /\ (ZoneNames \cup RegionNames) \cap (Placeholders \cup {Empty}) = {}
    /\ ProjectIds \subseteq Text /\ Emails \subseteq Text
    /\ ServiceAccount \in [Text -> Text] /\ StateBucket \in [Text -> Text]
    /\ FallbackZone \in ZoneNames
    /\ FallbackProject \in ProjectIds
    /\ FallbackRegion = RegionPart[FallbackZone]

\* x or y
Or(x, y) == IF x # NoText /\ x # Empty THEN x ELSE y

-----------------------------------------------------------------------------
(***************************************************************************)
(* Validation                                                              *)
(***************************************************************************)
SanitizeOptionalStr(v) ==
    IF v = NoText THEN NoText
    ELSE IF Strip[v] \in Placeholders \cup {Empty} THEN NoText ELSE Strip[v]

MatchesIfGiven(v, names) == v # NoText => v \in names

\* validate_zone_and_region does not raise.  Swapped values are among those refused.
ZoneAndRegionValid(zone, region) ==
    LET z == SanitizeOptionalStr(zone)
        r == SanitizeOptionalStr(region)
    IN  /\ MatchesIfGiven(z, ZoneNames)
        /\ MatchesIfGiven(r, RegionNames)
        /\ z # NoText /\ r # NoText => r = RegionPart[z]

\* The region it returns; the zone is returned as sanitized.
DerivedRegion(zone, region) ==
    LET z == SanitizeOptionalStr(zone)
    IN  IF z # NoText THEN RegionPart[z] ELSE SanitizeOptionalStr(region)

TargetRequests == [project : Optional, zone : Optional, region : Optional, sa : Optional]

\* GcpTargetRequest: the requests it accepts, and what it turns them into.
Accepts(q) ==
    /\ MatchesIfGiven(SanitizeOptionalStr(q.project), ProjectIds)
    /\ MatchesIfGiven(SanitizeOptionalStr(q.sa), Emails)
    /\ ZoneAndRegionValid(q.zone, q.region)

Validated(q) ==
    [project |-> SanitizeOptionalStr(q.project), zone |-> SanitizeOptionalStr(q.zone),
     region |-> DerivedRegion(q.zone, q.region), sa |-> SanitizeOptionalStr(q.sa)]

\* validate_cluster_parameters, on a validated request and a name of n characters.
FqdnFits(q, n, settings) ==
    n + Length[Or(q.zone, settings.zone)] + Length[Or(q.project, settings.project)] + 15 <= 63

-----------------------------------------------------------------------------
(***************************************************************************)
(* Defaults                                                                *)
(***************************************************************************)
\* _resolve_default_project, _resolve_default_zone: a first variable that is set, even to
\* nothing, hides the second; gcloud is what the configuration of gcloud says.
ResolveDefault(first, second, gcloud, fallback) ==
    LET v == IF first # NoText THEN first ELSE Or(second, Empty)
    IN  IF Strip[v] # Empty THEN Strip[v] ELSE IF gcloud # NoText THEN gcloud ELSE fallback

AllSettings == [project : Text, zone : Text]

DefaultRegion(settings) ==
    IF RegionPart[settings.zone] # NoText THEN RegionPart[settings.zone] ELSE FallbackRegion

-----------------------------------------------------------------------------
(***************************************************************************)
(* Resolution, when the operation runs                                     *)
(***************************************************************************)
Swapped(z, r) == z \in RegionNames /\ r \in ZoneNames

\* _resolve_zone_and_region
ResolveZoneAndRegion(zone, region, settings) ==
    LET z0 == Or(SanitizeOptionalStr(zone), settings.zone)
        r0 == SanitizeOptionalStr(region)
        z == IF Swapped(z0, r0) THEN r0 ELSE z0
        r == IF Swapped(z0, r0) THEN z0 ELSE r0
    IN  [zone |-> z,
         region |-> IF r # NoText THEN r
                    ELSE IF RegionPart[z] # NoText THEN RegionPart[z] ELSE DefaultRegion(settings)]

\* _prepare_gcp_context, with the bucket of a delete request (NoText: none given).
PrepareGcpContext(q, bucket, settings) ==
    LET place == ResolveZoneAndRegion(q.zone, q.region, settings)
        project == Or(SanitizeOptionalStr(q.project), settings.project)
    IN  [project |-> project, zone |-> place.zone, region |-> place.region,
         sa |-> Or(SanitizeOptionalStr(q.sa), ServiceAccount[project]),
         bucket |-> Or(SanitizeOptionalStr(bucket), StateBucket[project])]

=============================================================================
