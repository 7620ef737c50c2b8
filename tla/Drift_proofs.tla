---------------------------- MODULE Drift_proofs ----------------------------
(* What the engine reports, the pipeline's types, its silence and the tenants'
   limits, for any hosts, tenants, snapshots, rules and bounds. *)
EXTENDS Drift, TLAPS

(* The engine: what computeDrift reports, for any two snapshots of any size. *)

\* One operator of the engine is empty when its kind has nothing to tell.
LEMMA FoundEmpty ==
  ASSUME NEW h, NEW sort, NEW how, NEW names, NEW category, NEW severity
  PROVE  Found(h, sort, how, names, category, severity) = {} <=> names = {}
BY DEF Found

LEMMA BothEmpty ==
  ASSUME NEW h, NEW b, NEW c, NEW sort, NEW category, NEW came, NEW went
  PROVE  Both(h, b, c, sort, category, came, went) = {} <=> Listed(b) = Listed(c)
<1>1. Both(h, b, c, sort, category, came, went) = {} <=> Came(b, c) = {} /\ Went(b, c) = {}
  BY FoundEmpty DEF Both
<1>2. Came(b, c) = {} /\ Went(b, c) = {} <=> Listed(b) = Listed(c)
  BY DEF Came, Went
<1> QED BY <1>1, <1>2

LEMMA ByMarkEmpty ==
  ASSUME NEW h, NEW sort, NEW how, NEW names, NEW category, NEW marked, NEW other
  PROVE  ByMark(h, sort, how, names, category, marked, other) = {} <=> names = {}
<1>1. ByMark(h, sort, how, names, category, marked, other) = {}
        <=> names \cap Marked = {} /\ names \ Marked = {}
  BY FoundEmpty DEF ByMark
<1> QED BY <1>1

LEMMA FoundHas ==
  ASSUME NEW h, NEW sort, NEW how, NEW names, NEW category, NEW severity, NEW n \in names
  PROVE  \E e \in Found(h, sort, how, names, category, severity) :
           e.host = h /\ {sort, how, n} \subseteq e.says
<1>1. Finding(h, <<sort, how, n>>, {sort, how, n}, category, severity)
        \in Found(h, sort, how, names, category, severity)
  BY DEF Found
<1> QED BY <1>1 DEF Finding

LEMMA BothHas ==
  ASSUME NEW h, NEW b, NEW c, NEW sort, NEW category, NEW came, NEW went,
         NEW n \in Came(b, c)
  PROVE  \E e \in Both(h, b, c, sort, category, came, went) :
           e.host = h /\ {sort, "new", n} \subseteq e.says
BY FoundHas DEF Both

LEMMA ByMarkHas ==
  ASSUME NEW h, NEW sort, NEW how, NEW names, NEW category, NEW marked, NEW other,
         NEW n \in names
  PROVE  \E e \in ByMark(h, sort, how, names, category, marked, other) :
           e.host = h /\ {sort, how, n} \subseteq e.says
<1>1. CASE n \in Marked
  <2>1. n \in names \cap Marked
    BY <1>1
  <2> QED BY <2>1, FoundHas DEF ByMark
<1>2. CASE n \notin Marked
  <2>1. n \in names \ Marked
    BY <1>2
  <2> QED BY <2>1, FoundHas DEF ByMark
<1> QED BY <1>1, <1>2

LEMMA AlteredEmpty ==
  ASSUME NEW b, NEW c
  PROVE  Altered(b, c) = {}
           <=> \A n \in Names : {b[n], c[n]} \cap {Absent} = {} => b[n] = c[n]
BY DEF Altered, Listed

LEMMA PackagesEmpty ==
  ASSUME NEW h, NEW b, NEW c
  PROVE  Packages(h, b, c) = {}
           <=> /\ Listed(b.installedPackages) = Listed(c.installedPackages)
               /\ Altered(b.installedPackages, c.installedPackages) = {}
<1> DEFINE B == b.installedPackages
           C == c.installedPackages
<1>1. Packages(h, b, c) = {} <=> Came(B, C) = {} /\ Altered(B, C) = {} /\ Went(B, C) = {}
  BY DEF Packages
<1>2. Came(B, C) = {} /\ Went(B, C) = {} <=> Listed(B) = Listed(C)
  BY DEF Came, Went
<1> QED BY <1>1, <1>2

LEMMA SshEmpty ==
  ASSUME NEW h, NEW b, NEW c
  PROVE  Ssh(h, b, c) = {} <=> \A f \in SshFields : c.ssh[f] \in {b.ssh[f], "unknown"}
<1>1. Ssh(h, b, c) = {} <=> SshChanged(b, c) = {}
  BY DEF Ssh
<1> QED BY <1>1 DEF SshChanged

LEMMA FirewallEmpty ==
  ASSUME NEW h, NEW b, NEW c, b.active \in BOOLEAN, c.active \in BOOLEAN
  PROVE  Firewall(h, b, c) = {} <=> c.active = b.active
<1> DEFINE off == [how |-> "disabled", from |-> TRUE, severity |-> "high"]
           on  == [how |-> "enabled", from |-> FALSE, severity |-> "medium"]
           due == {x \in {off, on} : b.active = x.from /\ c.active # x.from}
<1>1. Firewall(h, b, c) = {} <=> due = {}
  BY DEF Firewall
<1>2. off \in due <=> b.active = TRUE /\ c.active # TRUE
  OBVIOUS
<1>3. on \in due <=> b.active = FALSE /\ c.active # FALSE
  OBVIOUS
<1>4. due = {} <=> off \notin due /\ on \notin due
  OBVIOUS
<1> QED BY <1>1, <1>2, <1>3, <1>4

\* The engine is silent on exactly the differences it does not look at: in
\* particular on a host that is like its baseline, so a baseline captured shows
\* no drift.
THEOREM SilentWhenAlike ==
  ASSUME NEW h, NEW b \in Snapshots, NEW c \in Snapshots
  PROVE  computeDrift(h, b, c) = {} <=> NothingToTell(b, c)
<1>1. Listeners(h, b, c) = {} <=> Listed(b.listeners) = Listed(c.listeners)
  <2>1. Listeners(h, b, c) = {}
          <=> Came(b.listeners, c.listeners) = {} /\ Went(b.listeners, c.listeners) = {}
    BY FoundEmpty, ByMarkEmpty DEF Listeners
  <2> QED BY <2>1 DEF Came, Went
<1>2. SystemdUnits(h, b, c) = {} <=> Listed(b.systemdUnitFiles) = Listed(c.systemdUnitFiles)
  <2>1. SystemdUnits(h, b, c) = {}
          <=> /\ Came(b.systemdUnitFiles, c.systemdUnitFiles) = {}
              /\ Went(b.systemdUnitFiles, c.systemdUnitFiles) = {}
    BY FoundEmpty, ByMarkEmpty DEF SystemdUnits
  <2> QED BY <2>1 DEF Came, Went
<1>3. /\ Users(h, b, c) = {} <=> Listed(b.users) = Listed(c.users)
      /\ Sudoers(h, b, c) = {} <=> Listed(b.sudoers) = Listed(c.sudoers)
      /\ SudoersFiles(h, b, c) = {} <=> Listed(b.sudoersFiles) = Listed(c.sudoersFiles)
      /\ Cron(h, b, c) = {} <=> Listed(b.cronEntries) = Listed(c.cronEntries)
      /\ AuthorizedKeys(h, b, c) = {} <=> Listed(b.authorizedKeys) = Listed(c.authorizedKeys)
      /\ Suid(h, b, c) = {} <=> Listed(b.suidBinaries) = Listed(c.suidBinaries)
      /\ KernelModules(h, b, c) = {} <=> Listed(b.kernelModules) = Listed(c.kernelModules)
      /\ UserCrontabs(h, b, c) = {} <=> Listed(b.userCrontabs) = Listed(c.userCrontabs)
  <2>1. Users(h, b, c) = {} <=> Listed(b.users) = Listed(c.users)
    BY BothEmpty DEF Users
  <2>2. Sudoers(h, b, c) = {} <=> Listed(b.sudoers) = Listed(c.sudoers)
    BY BothEmpty DEF Sudoers
  <2>3. SudoersFiles(h, b, c) = {} <=> Listed(b.sudoersFiles) = Listed(c.sudoersFiles)
    BY BothEmpty DEF SudoersFiles
  <2>4. Cron(h, b, c) = {} <=> Listed(b.cronEntries) = Listed(c.cronEntries)
    BY BothEmpty DEF Cron
  <2>5. AuthorizedKeys(h, b, c) = {} <=> Listed(b.authorizedKeys) = Listed(c.authorizedKeys)
    BY BothEmpty DEF AuthorizedKeys
  <2>6. Suid(h, b, c) = {} <=> Listed(b.suidBinaries) = Listed(c.suidBinaries)
    BY BothEmpty DEF Suid
  <2>7. KernelModules(h, b, c) = {} <=> Listed(b.kernelModules) = Listed(c.kernelModules)
    BY BothEmpty DEF KernelModules
  <2>8. UserCrontabs(h, b, c) = {} <=> Listed(b.userCrontabs) = Listed(c.userCrontabs)
    BY BothEmpty DEF UserCrontabs
  <2> QED BY <2>1, <2>2, <2>3, <2>4, <2>5, <2>6, <2>7, <2>8
<1>4. Services(h, b, c) = {} <=> Listed(c.services) \subseteq Listed(b.services)
  BY FoundEmpty DEF Services, Came
<1>5. HostsEntries(h, b, c) = {} <=> Listed(c.hostsEntries) \subseteq Listed(b.hostsEntries)
  BY FoundEmpty DEF HostsEntries, Came
<1>6. Rules(h, b, c) = {} <=> (c.active => Listed(c.rules) \subseteq Listed(b.rules))
  BY FoundEmpty DEF Rules, Came
<1>7. FileHashes(h, b, c) = {}
        <=> /\ Listed(c.fileHashes) \subseteq Listed(b.fileHashes)
            /\ Altered(b.fileHashes, c.fileHashes) = {}
  BY ByMarkEmpty DEF FileHashes, Came
<1>8. b.active \in BOOLEAN /\ c.active \in BOOLEAN
  BY DEF Snapshots
<1>9. computeDrift(h, b, c) = {}
        <=> /\ Listeners(h, b, c) = {} /\ Users(h, b, c) = {} /\ Sudoers(h, b, c) = {}
            /\ SudoersFiles(h, b, c) = {} /\ Cron(h, b, c) = {} /\ Ssh(h, b, c) = {}
            /\ Firewall(h, b, c) = {} /\ Rules(h, b, c) = {} /\ Services(h, b, c) = {}
            /\ AuthorizedKeys(h, b, c) = {} /\ FileHashes(h, b, c) = {}
            /\ HostsEntries(h, b, c) = {} /\ Suid(h, b, c) = {} /\ KernelModules(h, b, c) = {}
            /\ Packages(h, b, c) = {} /\ UserCrontabs(h, b, c) = {}
            /\ SystemdUnits(h, b, c) = {}
  BY DEF computeDrift
<1>10. NothingToTell(b, c)
        <=> /\ Listed(b.listeners) = Listed(c.listeners) /\ Listed(b.users) = Listed(c.users)
            /\ Listed(b.sudoers) = Listed(c.sudoers)
            /\ Listed(b.sudoersFiles) = Listed(c.sudoersFiles)
            /\ Listed(b.cronEntries) = Listed(c.cronEntries)
            /\ Listed(b.authorizedKeys) = Listed(c.authorizedKeys)
            /\ Listed(b.suidBinaries) = Listed(c.suidBinaries)
            /\ Listed(b.kernelModules) = Listed(c.kernelModules)
            /\ Listed(b.installedPackages) = Listed(c.installedPackages)
            /\ Listed(b.userCrontabs) = Listed(c.userCrontabs)
            /\ Listed(b.systemdUnitFiles) = Listed(c.systemdUnitFiles)
            /\ Listed(c.services) \subseteq Listed(b.services)
            /\ Listed(c.fileHashes) \subseteq Listed(b.fileHashes)
            /\ Listed(c.hostsEntries) \subseteq Listed(b.hostsEntries)
            /\ c.active = b.active
            /\ c.active => Listed(c.rules) \subseteq Listed(b.rules)
            /\ \A f \in SshFields : c.ssh[f] \in {b.ssh[f], "unknown"}
            /\ Altered(b.fileHashes, c.fileHashes) = {}
            /\ Altered(b.installedPackages, c.installedPackages) = {}
  BY AlteredEmpty DEF NothingToTell
<1> QED
  BY <1>1, <1>2, <1>3, <1>4, <1>5, <1>6, <1>7, <1>8, <1>9, <1>10,
     SshEmpty, FirewallEmpty, PackagesEmpty

------------------------------------------------------------------------------

\* A kind's operator reports every name that has come.
LEMMA PackagesHas ==
  ASSUME NEW h, NEW b, NEW c, NEW n \in Came(b.installedPackages, c.installedPackages)
  PROVE  \E e \in Packages(h, b, c) : e.host = h /\ {"pkg", "new", n} \subseteq e.says
<1> DEFINE C == c.installedPackages
           e == Finding(h, <<"pkg", "new", <<n, C[n]>>>>, {"pkg", "new", n, C[n]},
                        "packages", "medium")
<1>1. e \in Packages(h, b, c)
  BY DEF Packages
<1>2. e.host = h /\ {"pkg", "new", n} \subseteq e.says
  BY DEF Finding
<1> QED BY <1>1, <1>2

\* Whatever is new on a host is reported, under its own name and sort, but for
\* rules of a firewall that is off.
THEOREM NothingNewIsMissed ==
  ASSUME NEW h, NEW b, NEW c
  PROVE  NewIsReported(h, b, c)
<1> SUFFICES ASSUME NEW k \in ListKinds, NEW n \in Came(b[k], c[k]), k = "rules" => c.active
             PROVE  \E e \in computeDrift(h, b, c) :
                      e.host = h /\ {Sort[k], "new", n} \subseteq e.says
  BY DEF NewIsReported
<1> DEFINE Told(events, sort) ==
             \E e \in events : e.host = h /\ {sort, "new", n} \subseteq e.says
<1>1. CASE k = "listeners"
  <2>1. Told(Listeners(h, b, c), "port")
    BY <1>1, ByMarkHas DEF Listeners
  <2> QED BY <1>1, <2>1 DEF computeDrift, Sort
<1>2. CASE k = "users"
  <2>1. Told(Users(h, b, c), "user")
    BY <1>2, BothHas DEF Users
  <2> QED BY <1>2, <2>1 DEF computeDrift, Sort
<1>3. CASE k = "sudoers"
  <2>1. Told(Sudoers(h, b, c), "sudo")
    BY <1>3, BothHas DEF Sudoers
  <2> QED BY <1>3, <2>1 DEF computeDrift, Sort
<1>4. CASE k = "sudoersFiles"
  <2>1. Told(SudoersFiles(h, b, c), "sudoers-file")
    BY <1>4, BothHas DEF SudoersFiles
  <2> QED BY <1>4, <2>1 DEF computeDrift, Sort
<1>5. CASE k = "cronEntries"
  <2>1. Told(Cron(h, b, c), "cron")
    BY <1>5, BothHas DEF Cron
  <2> QED BY <1>5, <2>1 DEF computeDrift, Sort
<1>6. CASE k = "rules"
  <2>1. n \in {m \in Came(b.rules, c.rules) : c.active}
    BY <1>6
  <2>2. Told(Rules(h, b, c), "fw-rule")
    BY <2>1, FoundHas DEF Rules
  <2> QED BY <1>6, <2>2 DEF computeDrift, Sort
<1>7. CASE k = "services"
  <2>1. Told(Services(h, b, c), "svc")
    BY <1>7, FoundHas DEF Services
  <2> QED BY <1>7, <2>1 DEF computeDrift, Sort
<1>8. CASE k = "authorizedKeys"
  <2>1. Told(AuthorizedKeys(h, b, c), "authkey")
    BY <1>8, BothHas DEF AuthorizedKeys
  <2> QED BY <1>8, <2>1 DEF computeDrift, Sort
<1>9. CASE k = "fileHashes"
  <2>1. Told(FileHashes(h, b, c), "filehash")
    BY <1>9, ByMarkHas DEF FileHashes
  <2> QED BY <1>9, <2>1 DEF computeDrift, Sort
<1>10. CASE k = "hostsEntries"
  <2>1. Told(HostsEntries(h, b, c), "hosts")
    BY <1>10, FoundHas DEF HostsEntries
  <2> QED BY <1>10, <2>1 DEF computeDrift, Sort
<1>11. CASE k = "suidBinaries"
  <2>1. Told(Suid(h, b, c), "suid")
    BY <1>11, BothHas DEF Suid
  <2> QED BY <1>11, <2>1 DEF computeDrift, Sort
<1>12. CASE k = "kernelModules"
  <2>1. Told(KernelModules(h, b, c), "kmod")
    BY <1>12, BothHas DEF KernelModules
  <2> QED BY <1>12, <2>1 DEF computeDrift, Sort
<1>13. CASE k = "installedPackages"
  <2>1. n \in Came(b.installedPackages, c.installedPackages)
    BY <1>13
  <2>2. Told(Packages(h, b, c), "pkg")
    BY <2>1, PackagesHas
  <2> QED BY <1>13, <2>2 DEF computeDrift, Sort
<1>14. CASE k = "userCrontabs"
  <2>1. Told(UserCrontabs(h, b, c), "usercron")
    BY <1>14, BothHas DEF UserCrontabs
  <2> QED BY <1>14, <2>1 DEF computeDrift, Sort
<1>15. CASE k = "systemdUnitFiles"
  <2>1. Told(SystemdUnits(h, b, c), "systemd")
    BY <1>15, ByMarkHas DEF SystemdUnits
  <2> QED BY <1>15, <2>1 DEF computeDrift, Sort
<1> QED
  BY <1>1, <1>2, <1>3, <1>4, <1>5, <1>6, <1>7, <1>8, <1>9, <1>10, <1>11, <1>12,
     <1>13, <1>14, <1>15 DEF ListKinds

-----------------------------------------------------------------------------

(* Snapshots. *)

LEMMA WithKind ==
  ASSUME NEW s \in Snapshots, NEW k \in ListKinds, NEW l \in Listings
  PROVE  [s EXCEPT ![k] = l] \in Snapshots
<1>1. CASE k = "listeners"
  BY <1>1 DEF Snapshots
<1>2. CASE k = "users"
  BY <1>2 DEF Snapshots
<1>3. CASE k = "sudoers"
  BY <1>3 DEF Snapshots
<1>4. CASE k = "sudoersFiles"
  BY <1>4 DEF Snapshots
<1>5. CASE k = "cronEntries"
  BY <1>5 DEF Snapshots
<1>6. CASE k = "rules"
  BY <1>6 DEF Snapshots
<1>7. CASE k = "services"
  BY <1>7 DEF Snapshots
<1>8. CASE k = "authorizedKeys"
  BY <1>8 DEF Snapshots
<1>9. CASE k = "fileHashes"
  BY <1>9 DEF Snapshots
<1>10. CASE k = "hostsEntries"
  BY <1>10 DEF Snapshots
<1>11. CASE k = "suidBinaries"
  BY <1>11 DEF Snapshots
<1>12. CASE k = "kernelModules"
  BY <1>12 DEF Snapshots
<1>13. CASE k = "installedPackages"
  BY <1>13 DEF Snapshots
<1>14. CASE k = "userCrontabs"
  BY <1>14 DEF Snapshots
<1>15. CASE k = "systemdUnitFiles"
  BY <1>15 DEF Snapshots
<1> QED
  BY <1>1, <1>2, <1>3, <1>4, <1>5, <1>6, <1>7, <1>8, <1>9, <1>10, <1>11, <1>12, <1>13, <1>14, <1>15 DEF ListKinds

LEMMA KindIsListing ==
  ASSUME NEW s \in Snapshots, NEW k \in ListKinds
  PROVE  s[k] \in Listings
BY DEF Snapshots, ListKinds

LEMMA BlankedType ==
  ASSUME NEW s \in Snapshots, NEW t \in Blanked(s)
  PROVE  t \in Snapshots
<1>1. Nothing \in Listings
  BY DEF Nothing, Listings
<1>2. CASE t \in {[s EXCEPT ![k] = Nothing] : k \in {l \in ListKinds : s[l] # Nothing}}
  BY <1>1, <1>2, WithKind
<1>3. CASE t = [s EXCEPT !.ssh = [f \in SshFields |-> "unknown"]]
  <2>1. [f \in SshFields |-> "unknown"] \in [SshFields -> SshValues]
    BY DEF SshValues
  <2> QED BY <1>3, <2>1 DEF Snapshots
<1>4. CASE t = [s EXCEPT !.active = FALSE, !.rules = Nothing]
  BY <1>1, <1>4 DEF Snapshots
<1> QED BY <1>2, <1>3, <1>4 DEF Blanked

LEMMA VariantsType ==
  ASSUME NEW s \in Snapshots, NEW x \in Exposed, NEW t \in Variants(s, x[1], x[2])
  PROVE  t \in Snapshots
<1>1. CASE x \in {"ssh"} \X SshFields
  <2>1. x[1] = "ssh" /\ x[2] \in SshFields
    BY <1>1
  <2>2. PICK v \in SshValues : t = [s EXCEPT !.ssh[x[2]] = v]
    BY <2>1 DEF Variants, SshValues
  <2>3. [s.ssh EXCEPT ![x[2]] = v] \in [SshFields -> SshValues]
    BY DEF Snapshots
  <2> QED BY <2>2, <2>3 DEF Snapshots
<1>2. CASE x = FirewallActive
  <2>1. x[1] = "firewall"
    BY <1>2 DEF FirewallActive
  <2>2. t = [s EXCEPT !.active = ~s.active]
    BY <2>1 DEF Variants
  <2>3. (~s.active) \in BOOLEAN
    OBVIOUS
  <2> QED BY <2>2, <2>3 DEF Snapshots
<1>3. CASE x \in ListKinds \X Names
  <2>1. x[1] \in ListKinds /\ x[2] \in Names /\ x[1] # "ssh" /\ x[1] # "firewall"
    BY <1>3 DEF ListKinds
  <2>2. PICK v \in Values \cup {Absent} : t = [s EXCEPT ![x[1]][x[2]] = v]
    BY <2>1 DEF Variants
  <2>3. [s[x[1]] EXCEPT ![x[2]] = v] \in Listings
    BY <2>1, KindIsListing DEF Listings
  <2>4. t = [s EXCEPT ![x[1]] = [s[x[1]] EXCEPT ![x[2]] = v]]
    BY <2>2
  <2> QED BY <2>1, <2>3, <2>4, WithKind
<1> QED BY <1>1, <1>2, <1>3, DriftAssumption

------------------------------------------------------------------------------
(* Events. *)

\* What every new event of host h is like.
Stamped(e, h) ==
  /\ DOMAIN e = {"host", "id", "says", "category", "severity", "lifecycle"}
  /\ e.host = h /\ e.category \in Categories /\ e.severity \in Severities
  /\ e.lifecycle = "new"

LEMMA FoundStamped ==
  ASSUME NEW h, NEW sort, NEW how, NEW names, NEW category \in Categories,
         NEW severity \in Severities,
         NEW e \in Found(h, sort, how, names, category, severity)
  PROVE  Stamped(e, h)
BY DEF Found, Finding, Stamped

LEMMA BothStamped ==
  ASSUME NEW h, NEW b, NEW c, NEW sort, NEW category \in Categories,
         NEW came \in Severities, NEW went \in Severities,
         NEW e \in Both(h, b, c, sort, category, came, went)
  PROVE  Stamped(e, h)
BY FoundStamped DEF Both

LEMMA ByMarkStamped ==
  ASSUME NEW h, NEW sort, NEW how, NEW names, NEW category \in Categories,
         NEW marked \in Severities, NEW other \in Severities,
         NEW e \in ByMark(h, sort, how, names, category, marked, other)
  PROVE  Stamped(e, h)
BY FoundStamped DEF ByMark

LEMMA DriftStamped ==
  ASSUME NEW h, NEW b, NEW c, NEW e \in computeDrift(h, b, c)
  PROVE  Stamped(e, h)
<1>1. CASE e \in Listeners(h, b, c)
  BY <1>1, FoundStamped, ByMarkStamped DEF Listeners, Categories, Severities
<1>2. CASE e \in Users(h, b, c)
  BY <1>2, BothStamped DEF Users, Categories, Severities
<1>3. CASE e \in Sudoers(h, b, c)
  BY <1>3, BothStamped DEF Sudoers, Categories, Severities
<1>4. CASE e \in SudoersFiles(h, b, c)
  BY <1>4, BothStamped DEF SudoersFiles, Categories, Severities
<1>5. CASE e \in Cron(h, b, c)
  BY <1>5, BothStamped DEF Cron, Categories, Severities
<1>6. CASE e \in Ssh(h, b, c)
  BY <1>6 DEF Ssh, Finding, Stamped, Categories, Severities
<1>7. CASE e \in Firewall(h, b, c)
  BY <1>7 DEF Firewall, Finding, Stamped, Categories, Severities
<1>8. CASE e \in Rules(h, b, c)
  BY <1>8, FoundStamped DEF Rules, Categories, Severities
<1>9. CASE e \in Services(h, b, c)
  BY <1>9, FoundStamped DEF Services, Categories, Severities
<1>10. CASE e \in AuthorizedKeys(h, b, c)
  BY <1>10, BothStamped DEF AuthorizedKeys, Categories, Severities
<1>11. CASE e \in FileHashes(h, b, c)
  BY <1>11, ByMarkStamped DEF FileHashes, Categories, Severities
<1>12. CASE e \in HostsEntries(h, b, c)
  BY <1>12, FoundStamped DEF HostsEntries, Categories, Severities
<1>13. CASE e \in Suid(h, b, c)
  BY <1>13, BothStamped DEF Suid, Categories, Severities
<1>14. CASE e \in KernelModules(h, b, c)
  BY <1>14, BothStamped DEF KernelModules, Categories, Severities
<1>15. CASE e \in Packages(h, b, c)
  BY <1>15 DEF Packages, Finding, Stamped, Categories, Severities
<1>16. CASE e \in UserCrontabs(h, b, c)
  BY <1>16, BothStamped DEF UserCrontabs, Categories, Severities
<1>17. CASE e \in SystemdUnits(h, b, c)
  BY <1>17, FoundStamped, ByMarkStamped DEF SystemdUnits, Categories, Severities
<1> QED
  BY <1>1, <1>2, <1>3, <1>4, <1>5, <1>6, <1>7, <1>8, <1>9, <1>10, <1>11, <1>12, <1>13, <1>14, <1>15, <1>16, <1>17 DEF computeDrift

LEMMA ViolationStamped ==
  ASSUME NEW h, NEW s, NEW ps \in SUBSET PolicyRules, NEW e \in evaluatePolicies(h, s, ps)
  PROVE  Stamped(e, h)
<1>1. PICK p \in PolicyRules : e = Violation(h, p)
  BY DEF evaluatePolicies
<1>2. p.category \in Categories /\ p.severity \in Severities
  BY DriftAssumption
<1> QED BY <1>1, <1>2 DEF Violation, Finding, Stamped

LEMMA FailureProper ==
  ASSUME NEW h \in Hosts
  PROVE  Proper(PolicyFailure(h)) /\ PolicyFailure(h).host = h
BY DEF PolicyFailure, Finding, Proper, Severities

LEMMA StampedProper ==
  ASSUME NEW h \in Hosts, NEW e, Stamped(e, h)
  PROVE  Proper(e) /\ e.host = h
BY DEF Stamped, Proper

LEMMA MutedProper ==
  ASSUME NEW h, NEW events, NEW ms, \A e \in events : Proper(e) /\ e.host = h
  PROVE  \A e \in applyMutes(events, ms) : Proper(e) /\ e.host = h
<1> SUFFICES ASSUME NEW e \in applyMutes(events, ms)
             PROVE  Proper(e) /\ e.host = h
  OBVIOUS
<1>1. PICK d \in events : e = d \/ e = [d EXCEPT !.lifecycle = "accepted_risk"]
  BY DEF applyMutes
<1>2. Proper(d) /\ d.host = h
  OBVIOUS
<1>3. CASE e = d
  BY <1>2, <1>3
<1>4. CASE e = [d EXCEPT !.lifecycle = "accepted_risk"]
  BY <1>2, <1>4 DEF Proper
<1> QED BY <1>1, <1>3, <1>4

------------------------------------------------------------------------------
(* The inductive invariant. *)

\* What the functions and records of the state are defined on.
Fields == {"at", "tenant", "ids", "hosts", "todo", "host", "seen", "blind", "got"}

Shapes ==
  /\ DOMAIN row = Hosts /\ DOMAIN writes = Hosts /\ DOMAIN alerted = Hosts
  /\ DOMAIN pipe = Pipes
  /\ \A x \in Pipes : DOMAIN pipe[x] = {"at", "snap", "found", "failed"}
  /\ DOMAIN accept = Fields

\* An acceptance goes on with hosts of its tenant, and captures when their rows
\* are done.
Mine ==
  /\ accept.at \in {"strip", "rewrite", "recapture"} => accept.hosts \subseteq Of(accept.tenant)
  /\ accept.at = "recapture" => accept.todo = {}

\* A processing that could not evaluate the policies carries the event that
\* says so.
FailureHeld ==
  \A x \in Pipes :
    pipe[x].failed => pipe[x].at = "mutes" /\ PolicyFailure(x[1]) \in pipe[x].found

\* What NothingSilent says of a row, of any events of h: those of a processing
\* that could not evaluate the policies say so, and the alarms are sent.
Sound(h, events, blind) ==
  /\ blind => PolicyFailure(h) \in events
  /\ Ids(Alarms(events)) \subseteq alerted[h]

\* It is true of all that may still become a row: the writes under way, and what
\* an acceptance has read.
Held ==
  /\ \A h \in Hosts : \A w \in writes[h] : Sound(h, w.events, w.blind)
  /\ accept.at = "rewrite" => Sound(accept.host, accept.seen, accept.blind)

IInv == TypeOK /\ Shapes /\ Mine /\ FailureHeld /\ Held /\ NothingSilent

USE DEF Belong

\* Steps that touch no row, no write and no copy of one.
LEMMA SoundFrame ==
  ASSUME IInv, UNCHANGED <<row, writes, alerted, unverified>>,
         accept' = accept \/ accept'.at # "rewrite"
  PROVE  NothingSilent' /\ Held'
<1>1. NothingSilent'
  BY DEF IInv, NothingSilent
<1>2. \A h \in Hosts : \A w \in writes'[h] : Sound(h, w.events, w.blind)'
  BY DEF IInv, Held, Sound
<1>3. accept'.at = "rewrite" => Sound(accept.host, accept.seen, accept.blind)'
  BY DEF IInv, Held, Sound
<1> QED BY <1>1, <1>2, <1>3 DEF Held

LEMMA InitIInv == Init => IInv
<1> SUFFICES ASSUME Init PROVE IInv
  OBVIOUS
<1>0. Clean \in Snapshots /\ Later \in Snapshots /\ {MaxChanges, MaxOps, MaxFaults} \subseteq Nat
  BY DriftAssumption
<1>1. NoPipe.at = "idle" /\ NoPipe.snap \in Snapshots /\ NoPipe.failed = FALSE /\ NoPipe.found = {}
  BY <1>0 DEF NoPipe
<1>2. /\ NoAccept.at = "idle" /\ NoAccept.tenant = None /\ NoAccept.todo = {}
      /\ NoAccept.hosts = {} /\ NoAccept.got \in [Hosts -> Snapshots \cup {None}]
      /\ NoAccept.blind = FALSE
  BY DEF NoAccept
<1> DEFINE before(h) == computeDrift(h, Clean, Later)
<1>b. \A h \in Hosts : row[h] = before(h) /\ alerted[h] = Ids(Alarms(before(h)))
  BY DEF Init
<1>c. \A h \in Hosts : \A e \in before(h) : Proper(e) /\ e.host = h
  <2> TAKE h \in Hosts
  <2>1. \A e \in computeDrift(h, Clean, Later) : Stamped(e, h)
    BY DriftStamped
  <2> QED BY <2>1, StampedProper
<1> HIDE DEF before
<1>3. TypeOK
  <2>1. world \in [Hosts -> Snapshots] /\ baseline \in [Hosts -> Snapshots]
    BY <1>0 DEF Init
  <2>2. \A h \in Hosts : Belong(h, row[h]) /\ writes[h] = {}
    BY <1>b, <1>c DEF Init
  <2>3. \A x \in Pipes : /\ pipe[x].at = "idle" /\ pipe[x].snap \in Snapshots
                          /\ pipe[x].failed \in BOOLEAN /\ pipe[x].found = {}
    BY <1>1 DEF Init
  <2>4. /\ accept.at = "idle" /\ accept.tenant \in Tenants \cup {None}
        /\ accept.todo \subseteq accept.hosts /\ accept.blind = FALSE
        /\ accept.hosts \subseteq Hosts /\ accept.got \in [Hosts -> Snapshots \cup {None}]
    BY <1>2 DEF Init
  <2>5. changes \in 0..MaxChanges /\ ops \in 0..MaxOps /\ faults \in 0..MaxFaults
    BY <1>0 DEF Init
  <2>6. mutes \subseteq MuteRules /\ policies \subseteq PolicyRules /\ unverified \subseteq Hosts
    BY DEF Init
  <2> QED BY <2>1, <2>2, <2>3, <2>4, <2>5, <2>6 DEF TypeOK
<1>4. Shapes
  BY DEF Init, Shapes, Fields, NoPipe, NoAccept
<1>5. Mine
  BY <1>2 DEF Init, Mine
<1>6. FailureHeld
  BY <1>1 DEF Init, FailureHeld
<1>7. NothingSilent
  BY <1>b DEF Init, NothingSilent
<1>8. Held
  BY <1>2 DEF Init, Held
<1> QED BY <1>3, <1>4, <1>5, <1>6, <1>7, <1>8 DEF IInv

LEMMA ChangeIInv ==
  ASSUME IInv, NEW h \in Hosts, Change(h)
  PROVE  IInv'
<1>1. PICK x \in Exposed : \E s \in Variants(world[h], x[1], x[2]) : world' = [world EXCEPT ![h] = s]
  BY DEF Change
<1>2. PICK s \in Variants(world[h], x[1], x[2]) : world' = [world EXCEPT ![h] = s]
  BY <1>1
<1>3. s \in Snapshots
  BY VariantsType DEF IInv, TypeOK
<1>4. changes' \in 0..MaxChanges
  BY DriftAssumption DEF Change, IInv, TypeOK
<1>5. TypeOK'
  BY <1>2, <1>3, <1>4 DEF Change, IInv, TypeOK, rules, history
<1>6. Shapes' /\ Mine' /\ FailureHeld'
  BY DEF Change, IInv, Shapes, Mine, FailureHeld, rules, history
<1>7. NothingSilent' /\ Held'
  BY SoundFrame DEF Change, history
<1> QED BY <1>5, <1>6, <1>7 DEF IInv

LEMMA RulesIInv ==
  ASSUME IInv, createMute \/ deleteMute \/ createPolicy \/ deletePolicy
  PROVE  IInv'
<1>1. UNCHANGED <<world, baseline, row, writes, pipe, accept, alerted, unverified, changes,
                  faults>>
  BY DEF createMute, deleteMute, createPolicy, deletePolicy, hosts, history, counters
<1>2. mutes' \subseteq MuteRules /\ policies' \subseteq PolicyRules
  BY DEF createMute, deleteMute, createPolicy, deletePolicy, IInv, TypeOK
<1>3. ops' \in 0..MaxOps
  BY DriftAssumption DEF createMute, deleteMute, createPolicy, deletePolicy, Operator,
                         counters, IInv, TypeOK
<1>4. TypeOK'
  BY <1>1, <1>2, <1>3 DEF IInv, TypeOK
<1>5. Shapes' /\ Mine' /\ FailureHeld'
  BY <1>1 DEF IInv, Shapes, Mine, FailureHeld
<1>6. NothingSilent' /\ Held'
  BY <1>1, SoundFrame
<1> QED BY <1>4, <1>5, <1>6 DEF IInv

LEMMA FaultType ==
  ASSUME IInv, Works \/ Fault
  PROVE  faults' \in 0..MaxFaults
BY DriftAssumption DEF Works, Fault, IInv, TypeOK

LEMMA PipeType ==
  ASSUME TypeOK, NEW x \in Pipes,
         UNCHANGED <<world, baseline, row, writes, mutes, policies, accept, unverified,
                     changes, ops>>,
         faults' \in 0..MaxFaults, \A y \in Pipes \ {x} : pipe'[y] = pipe[y],
         pipe'[x].at \in {"idle", "compare", "policies", "mutes"},
         pipe'[x].snap \in Snapshots, pipe'[x].failed \in BOOLEAN,
         \A e \in pipe'[x].found : Proper(e) /\ e.host = x[1]
  PROVE  TypeOK'
<1> DEFINE Typed(y) == /\ pipe[y].at \in {"idle", "compare", "policies", "mutes"}
                       /\ pipe[y].snap \in Snapshots /\ pipe[y].failed \in BOOLEAN
                       /\ \A e \in pipe[y].found : Proper(e) /\ e.host = y[1]
<1>1. \A y \in Pipes : Typed(y)
  BY DEF TypeOK
<1>2. ASSUME NEW y \in Pipes PROVE Typed(y)'
  <2>1. CASE y = x
    BY <2>1 DEF Proper
  <2>2. CASE y # x
    BY <1>1, <2>2 DEF Proper
  <2> QED BY <2>1, <2>2
<1>3. \A y \in Pipes : Typed(y)'
  BY <1>2
<1> HIDE DEF Typed
<1>4. (\A y \in Pipes : Typed(y))' => TypeOK'
  BY DEF TypeOK, Typed, Proper
<1> QED BY <1>3, <1>4

LEMMA BeginIInv ==
  ASSUME IInv, NEW x \in Pipes, Begin(x)
  PROVE  IInv'
<1>0. x[1] \in Hosts
  BY DriftAssumption
<1>1. PICK s \in {world[x[1]]} \cup Blanked(world[x[1]]) :
        /\ Collected(x[1], s)
        /\ pipe' = [pipe EXCEPT ![x].at = "compare", ![x].snap = s]
  BY DEF Begin
<1>2. s \in Snapshots
  BY <1>0, BlankedType DEF IInv, TypeOK
<1>3. faults' \in 0..MaxFaults
  BY <1>1, FaultType DEF Collected
<1>4. UNCHANGED <<world, baseline, row, writes, mutes, policies, accept, alerted, unverified,
                  changes, ops>>
  BY DEF Begin, hosts, rules, history
<1>5. /\ DOMAIN pipe' = Pipes
      /\ pipe'[x] = [pipe[x] EXCEPT !.at = "compare", !.snap = s]
      /\ \A y \in Pipes \ {x} : pipe'[y] = pipe[y]
  BY <1>1 DEF IInv, Shapes
<1>6. /\ DOMAIN pipe'[x] = {"at", "snap", "found", "failed"}
      /\ pipe'[x].at = "compare" /\ pipe'[x].snap = s
      /\ pipe'[x].found = pipe[x].found /\ pipe'[x].failed = pipe[x].failed
  BY <1>5 DEF IInv, Shapes
<1>7. TypeOK'
  <2>1. TypeOK /\ pipe'[x].failed \in BOOLEAN
    BY <1>6 DEF IInv, TypeOK
  <2>2. \A e \in pipe'[x].found : Proper(e) /\ e.host = x[1]
    BY <1>6 DEF IInv, TypeOK
  <2> QED BY <1>2, <1>3, <1>4, <1>5, <1>6, <2>1, <2>2, PipeType
<1>8. Shapes' /\ Mine' /\ NothingSilent' /\ Held'
  <2>1. Shapes' /\ Mine'
    BY <1>4, <1>5, <1>6 DEF IInv, Shapes, Mine
  <2> QED BY <1>4, <2>1, SoundFrame
<1>9. FailureHeld'
  BY <1>5, <1>6 DEF IInv, FailureHeld, Begin
<1> QED BY <1>7, <1>8, <1>9 DEF IInv

LEMMA CompareIInv ==
  ASSUME IInv, NEW x \in Pipes, Compare(x)
  PROVE  IInv'
<1>0. x[1] \in Hosts
  BY DriftAssumption
<1> DEFINE D == computeDrift(x[1], baseline[x[1]], pipe[x].snap)
<1>1. \A e \in D : Proper(e) /\ e.host = x[1]
  BY <1>0, DriftStamped, StampedProper
<1>4. UNCHANGED <<world, baseline, row, writes, mutes, policies, accept, alerted, unverified,
                  changes, ops, faults>>
  BY DEF Compare, hosts, rules, history, counters
<1>5. /\ DOMAIN pipe' = Pipes
      /\ pipe'[x] = [pipe[x] EXCEPT !.at = "policies", !.found = D]
      /\ \A y \in Pipes \ {x} : pipe'[y] = pipe[y]
  BY DEF IInv, Shapes, Compare
<1>6. /\ DOMAIN pipe'[x] = {"at", "snap", "found", "failed"}
      /\ pipe'[x].at = "policies" /\ pipe'[x].snap = pipe[x].snap
      /\ pipe'[x].found = D /\ pipe'[x].failed = pipe[x].failed
  BY <1>5 DEF IInv, Shapes
<1>7. TypeOK'
  <2>1. TypeOK /\ pipe'[x].failed \in BOOLEAN /\ pipe'[x].snap \in Snapshots
    BY <1>6 DEF IInv, TypeOK
  <2>2. faults' \in 0..MaxFaults
    BY <1>4 DEF IInv, TypeOK
  <2>3. \A e \in pipe'[x].found : Proper(e) /\ e.host = x[1]
    BY <1>1, <1>6
  <2>4. pipe'[x].at \in {"idle", "compare", "policies", "mutes"}
    BY <1>6
  <2>5. \A y \in Pipes \ {x} : pipe'[y] = pipe[y]
    BY <1>5
  <2> HIDE DEF D
  <2> QED BY <1>4, <2>1, <2>2, <2>3, <2>4, <2>5, PipeType
<1>8. Shapes' /\ Mine' /\ NothingSilent' /\ Held'
  <2>1. Shapes' /\ Mine'
    BY <1>4, <1>5, <1>6 DEF IInv, Shapes, Mine
  <2> QED BY <1>4, <2>1, SoundFrame
<1>9. FailureHeld'
  BY <1>5, <1>6 DEF IInv, FailureHeld, Compare
<1> QED BY <1>7, <1>8, <1>9 DEF IInv

LEMMA EvaluateIInv ==
  ASSUME IInv, NEW x \in Pipes, Evaluate(x)
  PROVE  IInv'
<1>0. x[1] \in Hosts /\ Clean \in Snapshots
  BY DriftAssumption
<1> DEFINE told(failed) == IF failed THEN {PolicyFailure(x[1])}
                           ELSE evaluatePolicies(x[1], pipe[x].snap, PoliciesOf(Owner[x[1]]))
           next(failed) == [NoPipe EXCEPT !.at = "mutes", !.failed = failed,
                              !.found = pipe[x].found \cup told(failed)]
<1>1. PICK failed \in BOOLEAN : /\ IF failed THEN Fault ELSE Works
                                /\ pipe' = [pipe EXCEPT ![x] = next(failed)]
  BY DEF Evaluate
<1>2. \A e \in told(failed) : Proper(e) /\ e.host = x[1]
  <2>1. PoliciesOf(Owner[x[1]]) \in SUBSET PolicyRules
    BY DEF PoliciesOf, IInv, TypeOK
  <2>2. \A e \in evaluatePolicies(x[1], pipe[x].snap, PoliciesOf(Owner[x[1]])) :
          Proper(e) /\ e.host = x[1]
    BY <1>0, <2>1, ViolationStamped, StampedProper
  <2> QED BY <1>0, <2>2, FailureProper
<1>3. faults' \in 0..MaxFaults
  BY <1>1, FaultType
<1>4. UNCHANGED <<world, baseline, row, writes, mutes, policies, accept, alerted, unverified,
                  changes, ops>>
  BY DEF Evaluate, hosts, rules, history
<1>5. /\ DOMAIN pipe' = Pipes /\ pipe'[x] = next(failed)
      /\ \A y \in Pipes \ {x} : pipe'[y] = pipe[y]
  BY <1>1 DEF IInv, Shapes
<1>6. /\ DOMAIN pipe'[x] = {"at", "snap", "found", "failed"}
      /\ pipe'[x].at = "mutes" /\ pipe'[x].snap = Clean
      /\ pipe'[x].found = pipe[x].found \cup told(failed) /\ pipe'[x].failed = failed
  BY <1>5 DEF NoPipe
<1>7. TypeOK'
  <2>1. TypeOK
    BY DEF IInv
  <2>2. \A e \in pipe'[x].found : Proper(e) /\ e.host = x[1]
    <3>1. \A e \in pipe[x].found : Proper(e) /\ e.host = x[1]
      BY DEF IInv, TypeOK
    <3>2. pipe'[x].found = pipe[x].found \cup told(failed)
      BY <1>6
    <3> HIDE DEF told
    <3> QED BY <1>2, <3>1, <3>2
  <2>3. /\ pipe'[x].at \in {"idle", "compare", "policies", "mutes"}
        /\ pipe'[x].snap \in Snapshots /\ pipe'[x].failed \in BOOLEAN
    BY <1>0, <1>6
  <2>4. \A y \in Pipes \ {x} : pipe'[y] = pipe[y]
    BY <1>5
  <2> HIDE DEF told, next
  <2> QED BY <1>3, <1>4, <2>1, <2>2, <2>3, <2>4, PipeType
<1>8. Shapes' /\ Mine' /\ NothingSilent' /\ Held'
  <2>1. Shapes' /\ Mine'
    BY <1>4, <1>5, <1>6 DEF IInv, Shapes, Mine
  <2> QED BY <1>4, <2>1, SoundFrame
<1>9. FailureHeld'
  BY <1>5, <1>6 DEF IInv, FailureHeld
<1> QED BY <1>7, <1>8, <1>9 DEF IInv

\* No mute is of the category of a policy failure.
LEMMA FailureIsNotMuted ==
  ASSUME IInv, NEW h \in Hosts, NEW events, NEW ms \in SUBSET mutes,
         PolicyFailure(h) \in events
  PROVE  PolicyFailure(h) \in applyMutes(events, ms)
<1>1. PolicyFailure(h).category = "policy_failure"
  BY DEF PolicyFailure, Finding
<1>2. ASSUME NEW m \in ms PROVE ~Covers(m, PolicyFailure(h))
  <2>1. m.category \in Categories
    BY DriftAssumption DEF IInv, TypeOK
  <2> QED BY <1>1, <2>1 DEF Covers, Categories
<1> QED BY <1>2 DEF applyMutes

LEMMA ConcludeIInv ==
  ASSUME IInv, NEW x \in Pipes, Conclude(x)
  PROVE  IInv'
<1>0. x[1] \in Hosts /\ Clean \in Snapshots
  BY DriftAssumption
<1>1. PICK ms \in {MutesOf(Owner[x[1]]), {}} :
        /\ Works \/ Fault
        /\ writes' = [writes EXCEPT ![x[1]] =
             @ \cup {[events |-> applyMutes(pipe[x].found, ms), blind |-> pipe[x].failed,
                      taken |-> {}]}]
        /\ alerted' = [alerted EXCEPT ![x[1]] =
             @ \cup Ids(Alarms(applyMutes(pipe[x].found, ms)))]
  BY DEF Conclude, StoreEvents
<1> DEFINE events == applyMutes(pipe[x].found, ms)
           made   == [events |-> events, blind |-> pipe[x].failed, taken |-> {}]
<1>2. ms \in SUBSET mutes
  BY DEF MutesOf
<1>3. \A e \in events : Proper(e) /\ e.host = x[1]
  <2>1. \A e \in pipe[x].found : Proper(e) /\ e.host = x[1]
    BY DEF IInv, TypeOK
  <2> DEFINE found == pipe[x].found
             host  == x[1]
  <2>2. \A e \in found : Proper(e) /\ e.host = host
    BY <2>1
  <2> HIDE DEF found, host
  <2>3. \A e \in applyMutes(found, ms) : Proper(e) /\ e.host = host
    BY <2>2, MutedProper
  <2> QED BY <2>3 DEF found, host
<1>4. faults' \in 0..MaxFaults
  BY <1>1, FaultType
<1>5. UNCHANGED <<world, baseline, row, mutes, policies, accept, unverified, changes, ops>>
  BY DEF Conclude, rules
<1>6. /\ DOMAIN pipe' = Pipes /\ pipe'[x] = NoPipe
      /\ \A y \in Pipes \ {x} : pipe'[y] = pipe[y]
  BY DEF Conclude, IInv, Shapes
<1>n. PICK new : new = made
  OBVIOUS
<1>7. /\ DOMAIN writes' = Hosts /\ writes'[x[1]] = writes[x[1]] \cup {new}
      /\ \A h \in Hosts \ {x[1]} : writes'[h] = writes[h]
  BY <1>0, <1>1, <1>n DEF IInv, Shapes
<1>8. /\ DOMAIN alerted' = Hosts /\ alerted'[x[1]] = alerted[x[1]] \cup Ids(Alarms(events))
      /\ \A h \in Hosts \ {x[1]} : alerted'[h] = alerted[h]
  BY <1>0, <1>1 DEF IInv, Shapes
<1>9. new.events = events /\ new.blind = pipe[x].failed
  BY <1>n
<1>10. pipe[x].failed => PolicyFailure(x[1]) \in events
  BY <1>0, <1>2, FailureIsNotMuted DEF IInv, FailureHeld
<1> HIDE DEF events, made
<1>11. TypeOK'
  <2>1. \A y \in Pipes : /\ pipe'[y].at \in {"idle", "compare", "policies", "mutes"}
                         /\ pipe'[y].snap \in Snapshots /\ pipe'[y].failed \in BOOLEAN
                         /\ \A e \in pipe'[y].found : Proper(e) /\ e.host = y[1]
    <3> TAKE y \in Pipes
    <3>1. CASE y = x
      <4>1. /\ NoPipe.at = "idle" /\ NoPipe.snap \in Snapshots /\ NoPipe.failed \in BOOLEAN
            /\ NoPipe.found = {}
        BY <1>0 DEF NoPipe
      <4> QED BY <1>6, <3>1, <4>1
    <3>2. CASE y # x
      BY <1>6, <3>2 DEF IInv, TypeOK, Proper
    <3> QED BY <3>1, <3>2
  <2>2. \A h \in Hosts : \A w \in writes'[h] : Belong(h, w.events) /\ w.blind \in BOOLEAN
    <3>1. pipe[x].failed \in BOOLEAN
      BY DEF IInv, TypeOK
    <3>2. \A e \in new.events : Proper(e) /\ e.host = x[1]
      BY <1>3, <1>9 DEF Proper
    <3>3. \A h \in Hosts : \A w \in writes[h] : Belong(h, w.events) /\ w.blind \in BOOLEAN
      BY DEF IInv, TypeOK, Proper
    <3> QED BY <1>7, <1>9, <3>1, <3>2, <3>3
  <2>3. \A h \in Hosts : Belong(h, row'[h])
    BY <1>5 DEF IInv, TypeOK, Proper
  <2> QED BY <1>4, <1>5, <2>1, <2>2, <2>3 DEF IInv, TypeOK, Proper
<1>12. Shapes'
  BY <1>5, <1>6, <1>7, <1>8 DEF IInv, Shapes, NoPipe
<1>13. Mine'
  BY <1>5 DEF IInv, Mine
<1>14. FailureHeld'
  BY <1>6 DEF IInv, FailureHeld, NoPipe
<1>15. \A h \in Hosts : alerted[h] \subseteq alerted'[h]
  BY <1>8
<1>16. NothingSilent'
  BY <1>5, <1>15 DEF IInv, NothingSilent
<1>17. Held'
  <2>1. Sound(x[1], new.events, new.blind)'
    BY <1>8, <1>9, <1>10 DEF Sound
  <2>2. ASSUME NEW h \in Hosts, NEW w \in writes'[h]
        PROVE  Sound(h, w.events, w.blind)'
    <3>1. CASE w \in writes[h]
      BY <1>15, <3>1 DEF IInv, Held, Sound
    <3>2. CASE w \notin writes[h]
      <4>1. h = x[1] /\ w = new
        BY <1>7, <2>2, <3>2
      <4> QED BY <2>1, <4>1
    <3> QED BY <3>1, <3>2
  <2>3. accept'.at = "rewrite" => Sound(accept.host, accept.seen, accept.blind)'
    <3> SUFFICES ASSUME accept.at = "rewrite" PROVE Sound(accept.host, accept.seen, accept.blind)'
      BY <1>5
    <3>1. Sound(accept.host, accept.seen, accept.blind) /\ accept.host \in Hosts
      BY DEF IInv, Held, TypeOK
    <3> QED BY <1>5, <1>15, <3>1 DEF Sound
  <2> QED BY <2>2, <2>3 DEF Held
<1> QED BY <1>11, <1>12, <1>13, <1>14, <1>16, <1>17 DEF IInv

------------------------------------------------------------------------------
(* The writes. *)

LEMMA LandIInv ==
  ASSUME IInv, NEW h \in Hosts, Land(h)
  PROVE  IInv'
<1>1. PICK w \in writes[h] :
        /\ writes' = [writes EXCEPT ![h] = @ \ {w}]
        /\ \/ /\ Works /\ row' = [row EXCEPT ![h] = w.events]
              /\ unverified' = IF w.blind THEN unverified \cup {h} ELSE unverified \ {h}
           \/ Fault /\ UNCHANGED <<row, unverified>>
  BY DEF Land
<1>2. UNCHANGED <<world, baseline, mutes, policies, pipe, accept, alerted, changes, ops>>
  BY DEF Land, rules
<1>3. faults' \in 0..MaxFaults
  BY <1>1, FaultType
<1>4. DOMAIN writes' = Hosts /\ \A g \in Hosts : writes'[g] \subseteq writes[g]
  BY <1>1 DEF IInv, Shapes
<1>5. /\ Belong(h, w.events) /\ w.blind \in BOOLEAN /\ Sound(h, w.events, w.blind)
  BY DEF IInv, TypeOK, Held
<1>6. /\ DOMAIN row' = Hosts /\ \A g \in Hosts \ {h} : row'[g] = row[g]
      /\ \A g \in Hosts \ {h} : g \in unverified' <=> g \in unverified
      /\ \/ row'[h] = w.events /\ (h \in unverified' <=> w.blind)
         \/ row'[h] = row[h] /\ (h \in unverified' <=> h \in unverified)
      /\ unverified' \subseteq unverified \cup {h}
  BY <1>1, <1>5 DEF IInv, Shapes
<1>7. TypeOK'
  <2>1. \A g \in Hosts : Belong(g, row'[g])
    BY <1>5, <1>6 DEF IInv, TypeOK, Proper
  <2>2. \A g \in Hosts : \A v \in writes'[g] : Belong(g, v.events) /\ v.blind \in BOOLEAN
    BY <1>4 DEF IInv, TypeOK, Proper
  <2>3. unverified' \subseteq Hosts
    BY <1>6 DEF IInv, TypeOK
  <2> QED BY <1>2, <1>3, <2>1, <2>2, <2>3 DEF IInv, TypeOK, Proper
<1>8. Shapes' /\ Mine' /\ FailureHeld'
  BY <1>2, <1>4, <1>6 DEF IInv, Shapes, Mine, FailureHeld
<1>9. NothingSilent'
  <2> SUFFICES ASSUME NEW g \in Hosts
               PROVE  /\ g \in unverified' => PolicyFailure(g) \in row'[g]
                      /\ Ids(Alarms(row'[g])) \subseteq alerted'[g]
    BY DEF NothingSilent
  <2>1. CASE g = h
    BY <1>2, <1>5, <1>6, <2>1 DEF Sound, IInv, NothingSilent
  <2>2. CASE g # h
    BY <1>2, <1>6, <2>2 DEF IInv, NothingSilent
  <2> QED BY <2>1, <2>2
<1>10. Held'
  <2>1. \A g \in Hosts : \A v \in writes'[g] : Sound(g, v.events, v.blind)'
    BY <1>2, <1>4 DEF IInv, Held, Sound
  <2>2. accept'.at = "rewrite" => Sound(accept.host, accept.seen, accept.blind)'
    BY <1>2 DEF IInv, Held, Sound
  <2> QED BY <2>1, <2>2 DEF Held
<1> QED BY <1>7, <1>8, <1>9, <1>10 DEF IInv

------------------------------------------------------------------------------
(* The acceptance. *)

\* The steps of the acceptance that neither read nor write a row.
LEMMA AcceptType ==
  ASSUME IInv,
         UNCHANGED <<world, row, writes, mutes, policies, pipe, alerted, unverified, changes>>,
         baseline' \in [Hosts -> Snapshots],
         ops' \in 0..MaxOps, faults' \in 0..MaxFaults,
         accept'.at \in {"idle", "select", "strip", "recapture"},
         accept'.tenant \in Tenants \cup {None}, accept'.todo \subseteq accept'.hosts,
         accept'.hosts \subseteq Hosts, accept'.got \in [Hosts -> Snapshots \cup {None}],
         accept'.blind \in BOOLEAN, DOMAIN accept' = Fields,
         accept'.at \in {"strip", "recapture"} => accept'.hosts \subseteq Of(accept'.tenant),
         accept'.at = "recapture" => accept'.todo = {}
  PROVE  IInv'
<1>1. TypeOK'
  BY DEF IInv, TypeOK, Proper
<1>2. Shapes' /\ FailureHeld'
  BY DEF IInv, Shapes, FailureHeld
<1>3. Mine'
  BY DEF Mine, Of
<1>4. NothingSilent' /\ Held'
  BY SoundFrame
<1> QED BY <1>1, <1>2, <1>3, <1>4 DEF IInv

LEMMA NoAcceptType ==
  /\ NoAccept.at = "idle" /\ NoAccept.tenant = None
  /\ NoAccept.hosts = {} /\ NoAccept.todo = {}
  /\ NoAccept.got \in [Hosts -> Snapshots \cup {None}]
  /\ NoAccept.blind = FALSE /\ DOMAIN NoAccept = Fields
BY DEF NoAccept, Fields

LEMMA RequestIInv ==
  ASSUME IInv, NEW tenant \in Tenants, Request(tenant)
  PROVE  IInv'
<1>1. PICK ids : accept' = [NoAccept EXCEPT !.at = "select", !.tenant = tenant, !.ids = ids]
  BY DEF Request
<1>2. UNCHANGED <<world, baseline, row, writes, mutes, policies, pipe, alerted, unverified,
                  changes, faults>>
  BY DEF Request, hosts, rules, history
<1>3. ops' \in 0..MaxOps
  BY DriftAssumption DEF Request, Operator, IInv, TypeOK
<1>4. /\ accept'.at = "select" /\ accept'.tenant = tenant
      /\ accept'.hosts = {} /\ accept'.todo = {} /\ accept'.blind = FALSE
      /\ accept'.got \in [Hosts -> Snapshots \cup {None}]
      /\ DOMAIN accept' = Fields
  BY <1>1, NoAcceptType
<1>5. baseline' \in [Hosts -> Snapshots] /\ faults' \in 0..MaxFaults
  BY <1>2 DEF IInv, TypeOK
<1> QED BY <1>2, <1>3, <1>4, <1>5, AcceptType

LEMMA SelectIInv ==
  ASSUME IInv, Select
  PROVE  IInv'
<1>1. UNCHANGED <<world, baseline, row, writes, mutes, policies, pipe, alerted, unverified,
                  changes, ops>>
  BY DEF Select, hosts, rules, history
<1>2. faults' \in 0..MaxFaults
  BY FaultType DEF Select
<1>3. baseline' \in [Hosts -> Snapshots] /\ ops' \in 0..MaxOps
  BY <1>1 DEF IInv, TypeOK
<1>4. CASE accept' = NoAccept
  BY <1>1, <1>2, <1>3, <1>4, NoAcceptType, AcceptType
<1>5. CASE accept' = [accept EXCEPT !.at = "strip", !.hosts = Affected(Of(accept.tenant)),
                        !.todo = Affected(Of(accept.tenant))]
  <2>1. /\ accept'.at = "strip" /\ accept'.tenant = accept.tenant /\ accept'.got = accept.got
        /\ accept'.hosts = Affected(Of(accept.tenant)) /\ accept'.todo = accept'.hosts
        /\ accept'.blind = accept.blind
        /\ DOMAIN accept' = Fields
    BY <1>5 DEF IInv, Shapes
  <2>2. Affected(Of(accept.tenant)) \subseteq Of(accept.tenant)
    BY DEF Affected
  <2>3. accept'.hosts \subseteq Hosts
    BY <2>1, <2>2 DEF Of
  <2>4. /\ accept.tenant \in Tenants \cup {None} /\ accept.blind \in BOOLEAN
        /\ accept.got \in [Hosts -> Snapshots \cup {None}]
    BY DEF IInv, TypeOK
  <2>5. accept'.hosts \subseteq Of(accept'.tenant)
    BY <2>1, <2>2
  <2> QED BY <1>1, <1>2, <1>3, <2>1, <2>3, <2>4, <2>5, AcceptType
<1> QED BY <1>4, <1>5 DEF Select, Proceed

LEMMA ReadIInv ==
  ASSUME IInv, ReadRow
  PROVE  IInv'
<1>1. PICK h \in accept.todo :
        accept' = [accept EXCEPT !.at = "rewrite", !.todo = @ \ {h}, !.host = h,
                     !.seen = row[h], !.blind = h \in unverified]
  BY DEF ReadRow
<1>2. UNCHANGED <<world, baseline, row, writes, mutes, policies, pipe, alerted, unverified,
                  changes, ops, faults>>
  BY DEF ReadRow, hosts, rules, history, counters
<1>3. h \in Hosts /\ h \in accept.hosts /\ accept.at = "strip"
  BY DEF ReadRow, IInv, TypeOK
<1>4. /\ accept'.at = "rewrite" /\ accept'.tenant = accept.tenant
      /\ accept'.hosts = accept.hosts /\ accept'.got = accept.got
      /\ accept'.todo = accept.todo \ {h} /\ DOMAIN accept' = Fields
  BY <1>1 DEF IInv, Shapes, Fields
<1>5. /\ accept'.host = h /\ accept'.seen = row[h] /\ accept'.blind = (h \in unverified)
  BY <1>1 DEF IInv, Shapes, Fields
<1>6. TypeOK'
  <2>1. Belong(h, row[h])
    BY <1>2, <1>3 DEF IInv, TypeOK, Proper
  <2>2. accept'.host \in accept'.hosts /\ Belong(accept'.host, accept'.seen)
    BY <1>2, <1>3, <1>4, <1>5, <2>1 DEF Proper
  <2>3. accept'.blind \in BOOLEAN
    BY <1>5
  <2> QED BY <1>2, <1>4, <2>2, <2>3 DEF IInv, TypeOK, Proper
<1>7. Shapes' /\ FailureHeld'
  BY <1>2, <1>4 DEF IInv, Shapes, FailureHeld
<1>8. Mine'
  BY <1>3, <1>4 DEF IInv, Mine, Of
<1>9. NothingSilent'
  BY <1>2 DEF IInv, NothingSilent
<1>10. Held'
  <2>1. \A g \in Hosts : \A w \in writes'[g] : Sound(g, w.events, w.blind)'
    BY <1>2 DEF IInv, Held, Sound
  <2>2. Sound(accept.host, accept.seen, accept.blind)'
    BY <1>2, <1>3, <1>5 DEF IInv, NothingSilent, Sound
  <2> QED BY <2>1, <2>2 DEF Held
<1> QED BY <1>6, <1>7, <1>8, <1>9, <1>10 DEF IInv

LEMMA StripIInv ==
  ASSUME IInv, Strip
  PROVE  IInv'
<1> DEFINE h    == accept.host
           left == {e \in accept.seen : e.id \notin accept.ids}
           new  == [events |-> left,
                    blind  |-> accept.blind /\ PolicyFailure(h).id \notin accept.ids,
                    taken  |-> accept.ids]
<1>1. /\ writes' = [writes EXCEPT ![h] = @ \cup {new}]
      /\ accept.at = "rewrite"
      /\ accept' = [accept EXCEPT !.at = IF accept.todo = {} THEN "recapture" ELSE "strip",
                      !.host = None, !.seen = {}, !.blind = FALSE]
  BY DEF Strip, StoreEvents
<1>2. UNCHANGED <<world, baseline, row, mutes, policies, pipe, alerted, unverified,
                  changes, ops, faults>>
  BY DEF Strip, rules, history, counters
<1>3. h \in Hosts /\ Belong(h, accept.seen) /\ Sound(h, accept.seen, accept.blind)
  BY <1>1 DEF IInv, TypeOK, Held
<1>4. /\ DOMAIN writes' = Hosts /\ writes'[h] = writes[h] \cup {new}
      /\ \A g \in Hosts \ {h} : writes'[g] = writes[g]
  BY <1>1, <1>3 DEF IInv, Shapes
<1>5. /\ accept'.at = (IF accept.todo = {} THEN "recapture" ELSE "strip")
      /\ accept'.tenant = accept.tenant /\ accept'.hosts = accept.hosts
      /\ accept'.got = accept.got /\ accept'.todo = accept.todo
      /\ accept'.blind = FALSE /\ DOMAIN accept' = Fields
  BY <1>1 DEF IInv, Shapes, Fields
<1>6. /\ new.events = left /\ new.blind \in BOOLEAN
      /\ new.blind => accept.blind /\ PolicyFailure(h).id \notin accept.ids
  BY DEF IInv, TypeOK
<1>7. Belong(h, new.events)
  BY <1>3, <1>6
<1>8. Sound(h, new.events, new.blind)
  <2>1. left \subseteq accept.seen
    OBVIOUS
  <2>2. Ids(Alarms(left)) \subseteq alerted[h]
    BY <1>3, <2>1 DEF Sound, Ids, Alarms, Open
  <2>3. ASSUME new.blind PROVE PolicyFailure(h) \in left
    BY <1>3, <1>6, <2>3 DEF Sound
  <2> QED BY <1>6, <2>2, <2>3 DEF Sound
<1> HIDE DEF new, left, h
<1>9. TypeOK'
  <2>1. \A g \in Hosts : \A w \in writes'[g] : Belong(g, w.events) /\ w.blind \in BOOLEAN
    <3>1. \A e \in new.events : Proper(e) /\ e.host = h
      BY <1>7 DEF Proper
    <3>2. \A g \in Hosts : \A w \in writes[g] : Belong(g, w.events) /\ w.blind \in BOOLEAN
      BY DEF IInv, TypeOK, Proper
    <3> QED BY <1>4, <1>6, <3>1, <3>2
  <2> QED BY <1>2, <1>5, <2>1 DEF IInv, TypeOK, Proper
<1>10. Shapes' /\ FailureHeld'
  BY <1>2, <1>4, <1>5 DEF IInv, Shapes, FailureHeld
<1>11. Mine'
  BY <1>1, <1>5 DEF IInv, Mine, Of
<1>12. NothingSilent'
  BY <1>2 DEF IInv, NothingSilent
<1>13. Held'
  <2>1. \A g \in Hosts : \A w \in writes'[g] : Sound(g, w.events, w.blind)
    BY <1>4, <1>8 DEF IInv, Held
  <2>2. \A g \in Hosts : \A w \in writes'[g] : Sound(g, w.events, w.blind)'
    BY <1>2, <2>1 DEF Sound
  <2> QED BY <1>5, <2>2 DEF Held
<1> QED BY <1>9, <1>10, <1>11, <1>12, <1>13 DEF IInv

\* Both steps of the capture shrink the hosts, or keep what was collected.
LEMMA CaptureIInv ==
  ASSUME IInv, NEW h \in Hosts, Recapture(h) \/ saveBaseline(h)
  PROVE  IInv'
<1>1. UNCHANGED <<world, row, writes, mutes, policies, pipe, alerted, unverified, changes, ops>>
  BY DEF Recapture, saveBaseline, hosts, rules, history
<1>2. faults' \in 0..MaxFaults
  BY FaultType DEF Recapture, saveBaseline, Collected
<1>3. baseline' \in [Hosts -> Snapshots]
  <2>1. CASE Recapture(h)
    BY <2>1 DEF Recapture, hosts, IInv, TypeOK
  <2>2. CASE saveBaseline(h)
    <3>1. accept.got[h] \in Snapshots
      BY <2>2 DEF saveBaseline, IInv, TypeOK
    <3> QED BY <2>2, <3>1 DEF saveBaseline, IInv, TypeOK
  <2> QED BY <2>1, <2>2
<1>4. ops' \in 0..MaxOps
  BY <1>1 DEF IInv, TypeOK
<1>5. accept.at = "recapture" /\ accept.hosts \subseteq Of(accept.tenant) /\ accept.todo = {}
  BY DEF Recapture, saveBaseline, IInv, Mine
<1>6. CASE accept' = NoAccept
  BY <1>1, <1>2, <1>3, <1>4, <1>6, NoAcceptType, AcceptType
<1>7. ASSUME NEW rest, NEW got, rest \subseteq accept.hosts,
             got \in [Hosts -> Snapshots \cup {None}],
             accept' = [accept EXCEPT !.hosts = rest, !.got = got]
      PROVE  IInv'
  <2>1. /\ accept'.at = accept.at /\ accept'.tenant = accept.tenant /\ accept'.got = got
        /\ accept'.hosts = rest /\ accept'.todo = accept.todo /\ accept'.blind = accept.blind
        /\ DOMAIN accept' = Fields
    BY <1>7 DEF IInv, Shapes
  <2>2. /\ accept.tenant \in Tenants \cup {None} /\ accept.hosts \subseteq Hosts
        /\ accept.blind \in BOOLEAN
    BY DEF IInv, TypeOK
  <2>3. accept'.hosts \subseteq Of(accept'.tenant) /\ accept'.hosts \subseteq Hosts
    BY <1>5, <1>7, <2>1, <2>2
  <2> QED BY <1>1, <1>2, <1>3, <1>4, <1>5, <1>7, <2>1, <2>2, <2>3, AcceptType
<1> DEFINE left == accept.hosts \ {h}
<1>8. accept.got \in [Hosts -> Snapshots \cup {None}] /\ world[h] \in Snapshots
  BY DEF IInv, TypeOK
<1>9. CASE Recapture(h)
  <2>1. CASE \E s \in {world[h]} \cup Blanked(world[h]) : accept' = [accept EXCEPT !.got[h] = s]
    <3>1. PICK s \in {world[h]} \cup Blanked(world[h]) : accept' = [accept EXCEPT !.got[h] = s]
      BY <2>1
    <3>2. s \in Snapshots
      BY <1>8, BlankedType
    <3>3. accept' = [accept EXCEPT !.hosts = accept.hosts, !.got = [accept.got EXCEPT ![h] = s]]
      BY <3>1 DEF IInv, Shapes
    <3>4. [accept.got EXCEPT ![h] = s] \in [Hosts -> Snapshots \cup {None}]
      BY <1>8, <3>2
    <3> QED BY <1>7, <3>3, <3>4
  <2>2. CASE accept' = [accept EXCEPT !.hosts = left]
    <3>1. accept' = [accept EXCEPT !.hosts = left, !.got = accept.got]
      BY <2>2 DEF IInv, Shapes
    <3> QED BY <1>7, <1>8, <3>1
  <2> QED BY <1>6, <1>9, <2>1, <2>2 DEF Recapture, Proceed
<1>10. CASE saveBaseline(h)
  <2>1. CASE accept' = [accept EXCEPT !.hosts = left, !.got[h] = None]
    <3> DEFINE got == [accept.got EXCEPT ![h] = None]
    <3>1. accept' = [accept EXCEPT !.hosts = left, !.got = got]
      BY <2>1 DEF IInv, Shapes
    <3>2. got \in [Hosts -> Snapshots \cup {None}]
      BY <1>8
    <3>3. left \subseteq accept.hosts
      OBVIOUS
    <3> HIDE DEF got, left
    <3> QED BY <1>7, <3>1, <3>2, <3>3
  <2> QED BY <1>6, <1>10, <2>1 DEF saveBaseline, Proceed
<1> QED BY <1>9, <1>10

LEMMA NextIInv == IInv /\ [Next]_vars => IInv'
<1> SUFFICES ASSUME IInv, [Next]_vars PROVE IInv'
  OBVIOUS
<1>1. CASE \E h \in Hosts : Change(h) \/ Land(h)
  BY <1>1, ChangeIInv, LandIInv
<1>2. CASE createMute \/ deleteMute \/ createPolicy \/ deletePolicy
  BY <1>2, RulesIInv
<1>3. CASE \E x \in Pipes : Begin(x) \/ Process(x)
  BY <1>3, BeginIInv, CompareIInv, EvaluateIInv, ConcludeIInv DEF Process
<1>4. CASE \E tenant \in Tenants : Request(tenant)
  BY <1>4, RequestIInv
<1>5. CASE Acceptance
  BY <1>5, SelectIInv, ReadIInv, StripIInv, CaptureIInv DEF Acceptance
<1>6. CASE UNCHANGED vars
  <2>1. UNCHANGED <<world, baseline, row, writes, mutes, policies, pipe, accept, alerted,
                    unverified, changes, ops, faults>>
    BY <1>6 DEF vars, hosts, rules, history, counters
  <2>2. TypeOK' /\ Shapes' /\ Mine' /\ FailureHeld'
    BY <2>1 DEF IInv, TypeOK, Proper, Shapes, Mine, FailureHeld, Of
  <2> QED BY <2>1, <2>2, SoundFrame DEF IInv
<1> QED BY <1>1, <1>2, <1>3, <1>4, <1>5, <1>6 DEF Next

LEMMA Invariance == Spec => []IInv
BY InitIInv, NextIInv, PTL DEF Spec

------------------------------------------------------------------------------
(* The theorems. *)

\* In every state of every behaviour the rows hold events of their own hosts, and
\* all else is of its type.
THEOREM TypeCorrect == Spec => []TypeOK
<1>1. IInv => TypeOK
  BY DEF IInv
<1> QED BY <1>1, Invariance, PTL

\* scan-drift-job.ts:154: a row made by a processing that could not evaluate the
\* policies says so, whatever mutes there are, whatever else is accepted and in
\* whatever order reads and writes interleave; what is open and high has been
\* alerted of.
THEOREM NeverSilent == Spec => []NothingSilent
<1>1. IInv => NothingSilent
  BY DEF IInv
<1> QED BY <1>1, Invariance, PTL

\* accept-baseline/route.ts:68: only an acceptance of a host's own tenant pins its
\* baseline or writes its row, but for processings.  Each host id has one tenant
\* here (Owner); ids that two tenants share are out of it.
THEOREM OwnOnly == Spec => OwnHostsOnly
<1> DEFINE Touched(h) == \/ baseline'[h] # baseline[h]
                         \/ writes'[h] \ writes[h] # {} /\ pipe' = pipe
           Written(h) == row'[h] # row[h] => \E w \in writes[h] : row'[h] = w.events
<1>1. ASSUME IInv, [Next]_vars, NEW h \in Hosts
      PROVE  (Touched(h) => accept.tenant = Owner[h]) /\ Written(h)
  <2>1. CASE \E g \in Hosts : Change(g)
    BY <2>1 DEF Change
  <2>2. CASE createMute \/ deleteMute \/ createPolicy \/ deletePolicy
    BY <2>2 DEF createMute, deleteMute, createPolicy, deletePolicy, hosts
  <2>3. CASE \E x \in Pipes : Begin(x) \/ Compare(x) \/ Evaluate(x)
    BY <2>3 DEF Begin, Compare, Evaluate, hosts
  <2>4. CASE \E x \in Pipes : Conclude(x)
    <3>1. PICK x \in Pipes : Conclude(x)
      BY <2>4
    <3>2. /\ pipe' = [pipe EXCEPT ![x] = NoPipe] /\ pipe[x].at = "mutes"
          /\ baseline' = baseline /\ row' = row
      BY <3>1 DEF Conclude
    <3>3. pipe'[x] = NoPipe /\ NoPipe.at = "idle"
      BY <1>1, <3>2 DEF NoPipe, IInv, Shapes
    <3> QED BY <3>2, <3>3
  <2>5. CASE \E tenant \in Tenants : Request(tenant)
    BY <2>5 DEF Request, hosts
  <2>6. CASE Select \/ ReadRow
    BY <2>6 DEF Select, ReadRow, hosts
  <2>7. CASE Strip
    <3>1. PICK new : writes' = [writes EXCEPT ![accept.host] = @ \cup {new}]
      BY <2>7 DEF Strip, StoreEvents
    <3>2. /\ baseline' = baseline /\ row' = row
          /\ accept.host \in Of(accept.tenant)
      BY <1>1, <2>7 DEF Strip, IInv, TypeOK, Mine
    <3>3. DOMAIN writes = Hosts
      BY <1>1 DEF IInv, Shapes
    <3>4. Touched(h) => h = accept.host
      BY <3>1, <3>2, <3>3
    <3> QED BY <3>2, <3>4 DEF Of
  <2>8. CASE \E g \in Hosts : Recapture(g)
    BY <2>8 DEF Recapture, hosts
  <2>9. CASE \E g \in Hosts : saveBaseline(g)
    <3>1. PICK g \in Hosts : saveBaseline(g)
      BY <2>9
    <3>2. /\ row' = row /\ writes' = writes
          /\ accept.hosts \subseteq Of(accept.tenant) /\ g \in accept.hosts
      BY <1>1, <3>1 DEF saveBaseline, IInv, Mine
    <3>3. baseline' = baseline \/ baseline' = [baseline EXCEPT ![g] = accept.got[g]]
      BY <3>1 DEF saveBaseline
    <3>4. Touched(h) => h = g
      <4>1. baseline \in [Hosts -> Snapshots]
        BY <1>1 DEF IInv, TypeOK
      <4> QED BY <3>2, <3>3, <4>1
    <3> QED BY <3>2, <3>4 DEF Of
  <2>10. CASE \E g \in Hosts : Land(g)
    <3>0. PICK g \in Hosts : Land(g)
      BY <2>10
    <3>1. PICK w \in writes[g] :
            /\ writes' = [writes EXCEPT ![g] = @ \ {w}]
            /\ row' = [row EXCEPT ![g] = w.events] \/ row' = row
            /\ baseline' = baseline
      BY <3>0 DEF Land
    <3>2. DOMAIN writes = Hosts /\ DOMAIN row = Hosts
      BY <1>1 DEF IInv, Shapes
    <3>3. writes'[h] \subseteq writes[h]
      BY <3>1, <3>2
    <3>4. Written(h)
      BY <3>1, <3>2
    <3> QED BY <3>1, <3>3, <3>4
  <2>11. CASE UNCHANGED vars
    BY <2>11 DEF vars, hosts
  <2> QED BY <1>1, <2>1, <2>2, <2>3, <2>4, <2>5, <2>6, <2>7, <2>8, <2>9, <2>10, <2>11
          DEF Next, Process, Acceptance
<1> DEFINE Own == \A h \in Hosts :
             /\ baseline'[h] # baseline[h] \/ (writes'[h] \ writes[h] # {} /\ pipe' = pipe)
                  => accept.tenant = Owner[h]
             /\ row'[h] # row[h] => \E w \in writes[h] : row'[h] = w.events
<1>2. ASSUME IInv, [Next]_vars PROVE Own
  <2> TAKE h \in Hosts
  <2>1. (Touched(h) => accept.tenant = Owner[h]) /\ Written(h)
    BY <1>1, <1>2
  <2> QED BY <2>1
<1>3. IInv /\ [Next]_vars => [Own]_vars
  BY <1>2
<1> HIDE DEF Own
<1>4. Spec => [][Own]_vars
  BY <1>3, Invariance, PTL DEF Spec
<1> QED BY <1>4 DEF Own, OwnHostsOnly
=============================================================================
