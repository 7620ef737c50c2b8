---------------------------- MODULE DriftEngine ----------------------------
(* What computeDrift reports of a host, given the snapshot pinned as its
   baseline and a later one.

   A listing is what was found of one kind: a function from the names of its
   entries (a port with its protocol, a user, a file, a package, a key) to what
   is recorded of each (uid, hash, version), or Absent.  Fields of a snapshot
   that the engine does not read (default policy of the firewall, MaxAuthTries,
   processes) are left out; so are texts, provenance and times. *)

CONSTANTS
  Names,   \* what entries are called
  Values,  \* what is recorded of an entry
  Absent,  \* no such entry
  Marked   \* ports below 1024, files of shadow or sudoers, links in .wants/

ASSUME EngineAssumption == Absent \notin Values /\ Marked \subseteq Names

Listings  == [Names -> Values \cup {Absent}]
SshFields == {"permitRootLogin", "passwordAuthentication", "permitEmptyPasswords",
              "x11Forwarding", "allowTcpForwarding", "allowAgentForwarding"}
SshValues == {"yes", "no", "without-password", "unknown"}

Snapshots ==
  [listeners : Listings, users : Listings, sudoers : Listings, sudoersFiles : Listings,
   cronEntries : Listings, ssh : [SshFields -> SshValues], active : BOOLEAN,
   rules : Listings, services : Listings, authorizedKeys : Listings,
   fileHashes : Listings, hostsEntries : Listings, suidBinaries : Listings,
   kernelModules : Listings, installedPackages : Listings,
   userCrontabs : Listings, systemdUnitFiles : Listings]

ListKinds == {"listeners", "users", "sudoers", "sudoersFiles", "cronEntries", "rules",
              "services", "authorizedKeys", "fileHashes", "hostsEntries", "suidBinaries",
              "kernelModules", "installedPackages", "userCrontabs", "systemdUnitFiles"}

Nothing == [n \in Names |-> Absent]

\* Entries of a listing, those that came, went, or are recorded otherwise.
Listed(l)     == {n \in Names : l[n] # Absent}
Came(b, c)    == Listed(c) \ Listed(b)
Went(b, c)    == Listed(b) \ Listed(c)
Altered(b, c) == {n \in Listed(b) \cap Listed(c) : b[n] # c[n]}

\* id() hashes the name: but for ssh and the firewall, nothing in it tells the
\* host.  says: what can be looked for in the title.
Finding(h, id, says, category, severity) ==
  [host |-> h, id |-> id, says |-> says, category |-> category,
   severity |-> severity, lifecycle |-> "new"]

Found(h, sort, how, names, category, severity) ==
  {Finding(h, <<sort, how, n>>, {sort, how, n}, category, severity) : n \in names}

\* A kind whose entries are told apart by name alone.
Both(h, b, c, sort, category, came, went) ==
  Found(h, sort, "new", Came(b, c), category, came)
    \cup Found(h, sort, "removed", Went(b, c), category, went)

\* A kind whose marked entries weigh otherwise.
ByMark(h, sort, how, names, category, marked, other) ==
  Found(h, sort, how, names \cap Marked, category, marked)
    \cup Found(h, sort, how, names \ Marked, category, other)

------------------------------------------------------------------------------
(* One operator per kind. *)

Listeners(h, b, c) ==
  ByMark(h, "port", "new", Came(b.listeners, c.listeners), "network_exposure", "high", "medium")
    \cup Found(h, "port", "removed", Went(b.listeners, c.listeners), "network_exposure", "low")

Users(h, b, c)   == Both(h, b.users, c.users, "user", "identity", "high", "medium")
Sudoers(h, b, c) == Both(h, b.sudoers, c.sudoers, "sudo", "identity", "high", "medium")
SudoersFiles(h, b, c) ==
  Both(h, b.sudoersFiles, c.sudoersFiles, "sudoers-file", "identity", "high", "medium")
Cron(h, b, c) ==
  Both(h, b.cronEntries, c.cronEntries, "cron", "persistence", "high", "medium")

Riskier(field, value) ==
  value = "yes" \/ (field = "permitRootLogin" /\ value = "without-password")

\* A value that could not be read is not held against the host.
SshChanged(b, c) == {f \in SshFields : b.ssh[f] # c.ssh[f] /\ c.ssh[f] # "unknown"}

Ssh(h, b, c) ==
  {Finding(h, <<"ssh", f, h>>, {"ssh", f, c.ssh[f]}, "ssh",
           IF Riskier(f, c.ssh[f]) THEN "high" ELSE "medium") : f \in SshChanged(b, c)}

Firewall(h, b, c) ==
  {Finding(h, <<"fw", change.how, h>>, {"fw", change.how}, "firewall", change.severity) :
     change \in {x \in {[how |-> "disabled", from |-> TRUE, severity |-> "high"],
                        [how |-> "enabled", from |-> FALSE, severity |-> "medium"]} :
                   b.active = x.from /\ c.active # x.from}}

\* Rules count while the firewall is active, and only new ones.
Rules(h, b, c) ==
  Found(h, "fw-rule", "new", {n \in Came(b.rules, c.rules) : c.active}, "firewall", "medium")

Services(h, b, c) ==
  Found(h, "svc", "new", Came(b.services, c.services), "persistence", "medium")

AuthorizedKeys(h, b, c) ==
  Both(h, b.authorizedKeys, c.authorizedKeys, "authkey", "identity", "high", "medium")

FileHashes(h, b, c) ==
  ByMark(h, "filehash", "changed", Altered(b.fileHashes, c.fileHashes),
         "integrity", "high", "medium")
    \cup ByMark(h, "filehash", "new", Came(b.fileHashes, c.fileHashes),
                "integrity", "high", "medium")

HostsEntries(h, b, c) ==
  Found(h, "hosts", "new", Came(b.hostsEntries, c.hostsEntries), "network_exposure", "high")

Suid(h, b, c) ==
  Both(h, b.suidBinaries, c.suidBinaries, "suid", "privilege_escalation", "high", "low")

KernelModules(h, b, c) ==
  Both(h, b.kernelModules, c.kernelModules, "kmod", "integrity", "high", "medium")

\* The version is part of the id.
Packages(h, b, c) ==
  LET B == b.installedPackages
      C == c.installedPackages
      Event(how, n, version, severity) ==
        Finding(h, <<"pkg", how, <<n, version>>>>, {"pkg", how, n, version}, "packages", severity)
  IN {Event("new", n, C[n], "medium") : n \in Came(B, C)}
       \cup {Event("changed", n, C[n], "medium") : n \in Altered(B, C)}
       \cup {Event("removed", n, B[n], "low") : n \in Went(B, C)}

UserCrontabs(h, b, c) ==
  Both(h, b.userCrontabs, c.userCrontabs, "usercron", "persistence", "medium", "low")

SystemdUnits(h, b, c) ==
  ByMark(h, "systemd", "new", Came(b.systemdUnitFiles, c.systemdUnitFiles),
         "persistence", "medium", "high")
    \cup Found(h, "systemd", "removed", Went(b.systemdUnitFiles, c.systemdUnitFiles),
               "persistence", "low")

computeDrift(h, b, c) ==
  Listeners(h, b, c) \cup Users(h, b, c) \cup Sudoers(h, b, c) \cup SudoersFiles(h, b, c)
    \cup Cron(h, b, c) \cup Ssh(h, b, c) \cup Firewall(h, b, c) \cup Rules(h, b, c)
    \cup Services(h, b, c) \cup AuthorizedKeys(h, b, c) \cup FileHashes(h, b, c)
    \cup HostsEntries(h, b, c) \cup Suid(h, b, c) \cup KernelModules(h, b, c)
    \cup Packages(h, b, c) \cup UserCrontabs(h, b, c) \cup SystemdUnits(h, b, c)

------------------------------------------------------------------------------
(* What the engine promises. *)

\* No difference that the engine looks at: entries may have gone from four kinds
\* (rules, services, hashed files, names of other hosts), rules come behind an
\* inactive firewall, a user change its uid, a setting of sshd be unreadable.
NothingToTell(b, c) ==
  /\ \A k \in {"listeners", "users", "sudoers", "sudoersFiles", "cronEntries",
               "authorizedKeys", "suidBinaries", "kernelModules",
               "installedPackages", "userCrontabs", "systemdUnitFiles"} :
       Listed(b[k]) = Listed(c[k])
  /\ \A k \in {"services", "fileHashes", "hostsEntries"} : Listed(c[k]) \subseteq Listed(b[k])
  /\ c.active = b.active
  /\ c.active => Listed(c.rules) \subseteq Listed(b.rules)
  /\ \A f \in SshFields : c.ssh[f] \in {b.ssh[f], "unknown"}
  /\ \A k \in {"fileHashes", "installedPackages"}, n \in Names :
       {b[k][n], c[k][n]} \cap {Absent} = {} => b[k][n] = c[k][n]

Sort ==
  [listeners |-> "port", users |-> "user", sudoers |-> "sudo", sudoersFiles |-> "sudoers-file",
   cronEntries |-> "cron", rules |-> "fw-rule", services |-> "svc",
   authorizedKeys |-> "authkey", fileHashes |-> "filehash", hostsEntries |-> "hosts",
   suidBinaries |-> "suid", kernelModules |-> "kmod", installedPackages |-> "pkg",
   userCrontabs |-> "usercron", systemdUnitFiles |-> "systemd"]

\* A name that a kind did not have at the baseline is reported as new, unless a
\* rule of a firewall that is off.
NewIsReported(h, b, c) ==
  \A k \in ListKinds : \A n \in Came(b[k], c[k]) :
    (k = "rules" => c.active) =>
      \E e \in computeDrift(h, b, c) : e.host = h /\ {Sort[k], "new", n} \subseteq e.says
=============================================================================
