-------------------------- MODULE GcpTargetProofs --------------------------
(***************************************************************************)
(* What validation guarantees about the place where an operation runs, for *)
(* every request and every setting.                                        *)
(***************************************************************************)
EXTENDS GcpTarget, TLAPS

\* sanitize_optional_str returns nothing or a stripped text, and _clean_str, which does the
\* same when the operation runs, changes nothing that has been through it.
LEMMA SanitizeIdempotent ==
    ASSUME NEW v \in Optional
    PROVE  /\ SanitizeOptionalStr(v) \in Optional \ {Empty}
           /\ SanitizeOptionalStr(SanitizeOptionalStr(v)) = SanitizeOptionalStr(v)
  <1>1. CASE v = NoText
    BY <1>1, TargetConstants DEF SanitizeOptionalStr, Optional
  <1>2. CASE v \in Text /\ Strip[v] \in Placeholders \cup {Empty}
    BY <1>2, TargetConstants DEF SanitizeOptionalStr, Optional
  <1>3. CASE v \in Text /\ Strip[v] \notin Placeholders \cup {Empty}
    <2>1. Strip[v] \in Text /\ Strip[Strip[v]] = Strip[v] /\ Strip[v] # NoText /\ v # NoText
      BY <1>3, TargetConstants
    <2>2. SanitizeOptionalStr(v) = Strip[v]
      BY <1>3, <2>1 DEF SanitizeOptionalStr
    <2>3. SanitizeOptionalStr(Strip[v]) = Strip[v]
      BY <1>3, <2>1 DEF SanitizeOptionalStr
    <2>. QED  BY <1>3, <2>1, <2>2, <2>3 DEF Optional
  <1>. QED  BY <1>1, <1>2, <1>3 DEF Optional

\* What an accepted request is turned into.
LEMMA ValidatedForm ==
    ASSUME NEW q \in TargetRequests, Accepts(q)
    PROVE  /\ Validated(q) \in TargetRequests
           /\ Validated(q).zone \in ZoneNames \cup {NoText}
           /\ Validated(q).region \in RegionNames \cup {NoText}
           /\ Validated(q).zone # NoText => Validated(q).region = RegionPart[Validated(q).zone]
           /\ SanitizeOptionalStr(Validated(q).zone) = Validated(q).zone
           /\ SanitizeOptionalStr(Validated(q).project) = Validated(q).project
           /\ SanitizeOptionalStr(Validated(q).sa) = Validated(q).sa
           /\ Empty \notin {Validated(q).zone, Validated(q).project, Validated(q).region}
  <1>. DEFINE z == SanitizeOptionalStr(q.zone)
              r == SanitizeOptionalStr(q.region)
              p == SanitizeOptionalStr(q.project)
              a == SanitizeOptionalStr(q.sa)
  <1>1. q.zone \in Optional /\ q.region \in Optional /\ q.project \in Optional /\ q.sa \in Optional
    BY DEF TargetRequests
  <1>2. /\ z \in Optional \ {Empty} /\ SanitizeOptionalStr(z) = z
        /\ r \in Optional \ {Empty}
        /\ p \in Optional \ {Empty} /\ SanitizeOptionalStr(p) = p
        /\ a \in Optional \ {Empty} /\ SanitizeOptionalStr(a) = a
    BY <1>1, SanitizeIdempotent
  <1>3. z \in ZoneNames \cup {NoText} /\ r \in RegionNames \cup {NoText}
    BY DEF Accepts, ZoneAndRegionValid, MatchesIfGiven
  <1>4. /\ Validated(q).zone = z /\ Validated(q).project = p /\ Validated(q).sa = a
        /\ Validated(q).region = IF z # NoText THEN RegionPart[z] ELSE r
    BY DEF Validated, DerivedRegion
  <1>5. Validated(q).region \in RegionNames \cup {NoText}
    BY <1>3, <1>4, TargetConstants
  <1>6. Validated(q) \in TargetRequests
    <2>1. Validated(q).region \in Optional
      BY <1>5, TargetConstants DEF Optional
    <2>. QED  BY <1>2, <1>4, <2>1 DEF TargetRequests, Validated, Optional
  <1>7. Empty \notin RegionNames \cup {NoText}
    BY TargetConstants
  <1>. QED  BY <1>2, <1>3, <1>4, <1>5, <1>6, <1>7

\* No accepted request carries a zone and the region of another zone: the region that
\* validate_zone_and_region returns is the one of the zone.
THEOREM AcceptedZoneHasItsRegion ==
    ASSUME NEW q \in TargetRequests, Accepts(q), Validated(q).zone # NoText
    PROVE  /\ Validated(q).region = RegionPart[Validated(q).zone]
           /\ Validated(q).region \in RegionNames
  <1>1. Validated(q).zone \in ZoneNames /\ Validated(q).region = RegionPart[Validated(q).zone]
    BY ValidatedForm
  <1>. QED  BY <1>1, TargetConstants

\* A region name is what _clean_str makes of it.
LEMMA RegionNamesAreClean ==
    ASSUME NEW r \in RegionNames \cup {NoText}
    PROVE  SanitizeOptionalStr(r) = r
  <1>1. CASE r = NoText
    BY <1>1 DEF SanitizeOptionalStr
  <1>2. CASE r \in RegionNames
    BY <1>2, TargetConstants DEF SanitizeOptionalStr
  <1>. QED  BY <1>1, <1>2

\* The code that resolves an accepted request again, when its operation runs, gives it the
\* zone that was validated or the default zone: _resolve_zone_and_region never swaps the zone
\* and the region of an accepted request, not even if the default zone is the name of a region.
THEOREM AcceptedIsNeverSwapped ==
    ASSUME NEW q \in TargetRequests, Accepts(q), NEW settings \in AllSettings
    PROVE  LET v == Validated(q)
               place == ResolveZoneAndRegion(v.zone, v.region, settings)
           IN  /\ place.zone = Or(v.zone, settings.zone)
               /\ v.region # NoText => place.region = v.region
  <1>. DEFINE v == Validated(q)
              z == Or(v.zone, settings.zone)
  <1>1. SanitizeOptionalStr(v.zone) = v.zone /\ SanitizeOptionalStr(v.region) = v.region
    BY ValidatedForm, RegionNamesAreClean
  <1>2. ~Swapped(z, v.region)
    BY ValidatedForm, TargetConstants DEF Swapped
  <1>3. /\ ResolveZoneAndRegion(v.zone, v.region, settings).zone = z
        /\ v.region # NoText =>
              ResolveZoneAndRegion(v.zone, v.region, settings).region = v.region
    BY <1>1, <1>2 DEF ResolveZoneAndRegion
  <1>. QED  BY <1>3

\* The limit on node names that validate_cluster_parameters checks on the request holds for
\* the project and the zone that the steps of the operation are given.
THEOREM FqdnFitsWhereItRuns ==
    ASSUME NEW q \in TargetRequests, Accepts(q), NEW settings \in AllSettings, NEW n \in Nat,
           FqdnFits(Validated(q), n, settings), NEW bucket \in Optional
    PROVE  LET context == PrepareGcpContext(Validated(q), bucket, settings)
           IN  n + Length[context.zone] + Length[context.project] + 15 <= 63
  <1>. DEFINE v == Validated(q)
              context == PrepareGcpContext(v, bucket, settings)
  <1>1. context.zone = Or(v.zone, settings.zone)
    BY AcceptedIsNeverSwapped DEF PrepareGcpContext
  <1>2. context.project = Or(v.project, settings.project)
    BY ValidatedForm DEF PrepareGcpContext
  <1>. QED  BY <1>1, <1>2 DEF FqdnFits

\* An operation is given a zone and the region of that zone, except in one case: the request
\* names a region and no zone, and the default zone is not in that region.  Then Terraform
\* gets the region of the request with the default zone.  (The default zone is a zone name.)
THEOREM RegionMismatchIsExactlyRegionOnly ==
    ASSUME NEW q \in TargetRequests, Accepts(q), NEW settings \in AllSettings,
           settings.zone \in ZoneNames
    PROVE  LET v == Validated(q)
               place == ResolveZoneAndRegion(v.zone, v.region, settings)
           IN  place.region # RegionPart[place.zone]
                 <=> v.zone = NoText /\ v.region # NoText /\ v.region # RegionPart[settings.zone]
  <1>. DEFINE v == Validated(q)
              place == ResolveZoneAndRegion(v.zone, v.region, settings)
  <1>1. place.zone = Or(v.zone, settings.zone) /\ (v.region # NoText => place.region = v.region)
    BY AcceptedIsNeverSwapped
  <1>2. CASE v.zone # NoText
    <2>1. Or(v.zone, settings.zone) = v.zone
      BY <1>2, ValidatedForm DEF Or
    <2>2. v.region = RegionPart[v.zone] /\ v.region \in RegionNames
      BY <1>2, AcceptedZoneHasItsRegion
    <2>3. v.region # NoText
      BY <2>2, TargetConstants
    <2>. QED  BY <1>1, <1>2, <2>1, <2>2, <2>3
  <1>3. CASE v.zone = NoText
    <2>1. place.zone = settings.zone
      BY <1>1, <1>3 DEF Or
    <2>2. CASE v.region # NoText
      BY <1>1, <1>3, <2>1, <2>2
    <2>3. CASE v.region = NoText
      <3>1. SanitizeOptionalStr(v.zone) = v.zone /\ SanitizeOptionalStr(v.region) = v.region
        BY ValidatedForm, RegionNamesAreClean
      <3>2. RegionPart[settings.zone] # NoText
        BY TargetConstants
      <3>3. ~Swapped(settings.zone, NoText)
        BY TargetConstants DEF Swapped
      <3>4. Or(v.zone, settings.zone) = settings.zone
        BY <1>3 DEF Or
      <3>5. place.region = RegionPart[settings.zone]
        BY <1>3, <2>3, <3>1, <3>2, <3>3, <3>4 DEF ResolveZoneAndRegion
      <3>. QED  BY <2>1, <2>3, <3>5
    <2>. QED  BY <2>2, <2>3
  <1>. QED  BY <1>2, <1>3

=============================================================================
