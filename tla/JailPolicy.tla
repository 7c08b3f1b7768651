------------------------------ MODULE JailPolicy ------------------------------
(***************************************************************************)
(* What a native jail request becomes: prepare in                          *)
(* tinybus_module/native_jail.rs, the spawn functions of tinybox-jail, and  *)
(* the bubblewrap arguments, the Landlock rules, the Seatbelt profile and   *)
(* the resource launcher of tinybox-linux they end in.                      *)
(*                                                                         *)
(* A path is the sequence of its components.  Each backend's result is a    *)
(* set of rules with a rank: of the rules that cover a path the one with    *)
(* the highest rank decides.  For bubblewrap the rank is the place in the   *)
(* argument list (a later mount wins), for Seatbelt the place in the        *)
(* profile, for Landlock, which only adds, the strength of the access.      *)
(***************************************************************************)
EXTENDS Naturals, Sequences, SequencesExt, FiniteSetsExt

CONSTANTS
  Dirs, Plain,     \* the directories and the files of the host
  Aliases,         \* its symlinks: a function from paths to paths
  Planted,         \* symlinks that may come to replace a path meanwhile
  Roots, Grants, Denials   \* the paths a request may name

VARIABLES request, jail, links, at, rules, confined

vars == <<request, jail, links, at, rules, confined>>

\* The baseline: /usr, and /bin as a link or a directory; the private mounts.
SYSTEM_DIRS == {<<"usr">>, <<"bin">>}
Tmp == <<"tmp">>
Proc == <<"proc">>

Backends == {"bwrap", "landlock", "seatbelt", "resources"}
AtMostOne(S) == {{}} \cup {{p} : p \in S}

\* Requests that differ in their paths, and requests that differ in the rest.
PathRequests ==
  [backend : Backends, library : BOOLEAN, root : Roots, rw : AtMostOne(Grants), ro : AtMostOne(Grants),
   deny : AtMostOne(Denials), net : BOOLEAN, fork : {TRUE}, budget : {FALSE}, isolated : {FALSE},
   enforced : {FALSE}, userns : {TRUE}]
FlagRequests ==
  [backend : Backends, library : BOOLEAN, root : Roots, rw : {{}}, ro : {{}}, deny : {{}}, net : BOOLEAN,
   fork : BOOLEAN, budget : BOOLEAN, isolated : BOOLEAN, enforced : BOOLEAN, userns : BOOLEAN]

\* "asked" goes through the module, "prepared" is a call of the jail library.
Init ==
  /\ \/ request \in PathRequests /\ request.net = (request.backend = "landlock")
     \/ request \in FlagRequests
  /\ jail = [root |-> request.root, rw |-> request.rw, ro |-> request.ro, deny |-> request.deny]
  /\ links = Aliases /\ rules = {} /\ confined = {}
  /\ at = IF request.library THEN "prepared" ELSE "asked"

---------------------------------------------------------------------------
\* Path resolution; a missing suffix is kept (canonicalize_missing).
Under(p, q) == IsPrefix(q, p)
Overlap(p, q) == Under(p, q) \/ Under(q, p)
Parent(p) == Front(p)

canonicalize(p) ==
  LET on == {l \in DOMAIN links : Under(p, l)} IN
  IF on = {} THEN p ELSE LET l == CHOOSE l \in on : TRUE IN links[l] \o SubSeq(p, Len(l) + 1, Len(p))

Exists(p) == canonicalize(p) \in Dirs \cup Plain
Resolve(p) == IF Exists(p) THEN canonicalize(p) ELSE p

\* The grant passes a link below the shortest prefix that names the writable path.
reject_symlink_below(anchor, grant) == \E l \in DOMAIN links : Under(grant, l) /\ Under(l, anchor) /\ l # anchor

reject_symlinked_grants(writable, grants) ==
  \E w \in writable : \E g \in grants \ {w} :
    LET named == {n \in 0 .. Len(g) : LET p == SubSeq(g, 1, n) IN
                    p = w \/ (Exists(w) /\ Exists(p) /\ canonicalize(p) = canonicalize(w))}
    IN named # {} /\ reject_symlink_below(SubSeq(g, 1, Min(named)), g)

Symlinked(j) == reject_symlinked_grants({j.root} \cup j.rw, j.ro \cup j.rw)

\* Two or more levels inside: a directory in between could be renamed.
nested_denial(deny, writable) == Under(deny, writable) /\ (deny = writable \/ Parent(deny) # writable)

---------------------------------------------------------------------------
\* The constraints of a jail, and what each backend claims to hold.
required_resource_constraints == IF request.budget THEN {"cpu", "memory", "pids", "disk"} ELSE {}

constraints ==
  {"filesystem"} \cup (IF request.net THEN {} ELSE {"network"})
    \cup (IF request.fork THEN {} ELSE {"subprocess"}) \cup required_resource_constraints

enforced(backend) ==
  CASE backend = "bwrap" -> {"filesystem", "network"}
    [] backend = "landlock" -> {"filesystem"}
    [] backend = "seatbelt" -> {}
    [] backend = "resources" -> {"filesystem", "network", "subprocess", "cpu", "memory", "pids"}

declared_constraint_support(backend) ==
  IF backend = "seatbelt" THEN {"filesystem", "network", "subprocess"} ELSE enforced(backend)

carves_denials(backend) == backend # "landlock"
implicit_grants == {canonicalize(p) : p \in SYSTEM_DIRS}

is_suitable_for_untrusted_jail(backend) ==
  backend = "resources" \/ (backend = "bwrap" /\ request.userns /\ ~request.net)

\* Seatbelt, for the root, each writable grant and the scratch directory.
validate_carved_denials(backend, j) ==
  backend = "seatbelt" => \A d \in j.deny : \A w \in {j.root, Tmp} \cup j.rw : ~nested_denial(d, w)

\* An allow-list cannot subtract: no denial may touch what it grants.
validate_denials(backend, j) ==
  carves_denials(backend) \/ \A d \in j.deny : \A g \in {j.root} \cup j.ro \cup j.rw \cup implicit_grants : ~Overlap(d, g)

---------------------------------------------------------------------------
\* The four ways to hold a jail.
Rule(p, mode, rank) == [path |-> p, mode |-> mode, rank |-> rank]

Unsorted(m) == IF m.mode = "read" THEN 1 ELSE 2
order(m) == 2 * Len(m.path) + IF m.mode = "read" THEN 1 ELSE 0

baseline_mounts == {[path |-> p, mode |-> "read"] : p \in SYSTEM_DIRS \ DOMAIN links}
grant_mounts(j) ==
  {[path |-> p, mode |-> "write"] : p \in {j.root} \cup j.rw} \cup {[path |-> p, mode |-> "read"] : p \in j.ro}
replaces_private_mount(p) == p \in {<<>>, Tmp} \/ Under(p, Proc)

effective_denials(deny) == deny \cup {canonicalize(d) : d \in {d \in deny : \E l \in SYSTEM_DIRS \cap DOMAIN links : Under(d, l)}}

\* A mount at or below a denied path is not mounted.
Mounts(j, denied) == {m \in baseline_mounts \cup grant_mounts(j) : \A d \in denied : ~Under(m.path, d)}
Holders(d, mounts) == {m \in mounts : Under(d, m.path)}
Holder(d, mounts) == CHOOSE m \in Holders(d, mounts) : \A n \in Holders(d, mounts) : order(n) <= order(m)
deny_masks(denied, mounts) == {d \in denied : Holders(d, mounts) # {}}

jail_args_refuses(j) ==
  LET denied == effective_denials(j.deny)
      mounts == Mounts(j, denied) IN
  \/ Symlinked(j)
  \/ \E m \in grant_mounts(j) : replaces_private_mount(m.path) \/ (m.mode = "write" /\ ~Exists(m.path))
  \/ \E d \in deny_masks(denied, mounts) :
       ~Exists(d) \/ (Holder(d, mounts).mode = "write" /\ nested_denial(d, Holder(d, mounts).path))

jail_args(j) ==
  LET denied == effective_denials(j.deny)
      mounts == Mounts(j, denied) IN
  {Rule(Tmp, "none", 0), Rule(Proc, "none", 0)} \cup {Rule(m.path, m.mode, order(m)) : m \in {m \in mounts : Exists(m.path)}}
    \cup {Rule(d, "none", 100) : d \in deny_masks(denied, mounts)}

build_ruleset(j) ==
  {Rule(p, "read", 1) : p \in implicit_grants \cup {p \in j.ro : Exists(p)}}
    \cup {Rule(p, "write", 2) : p \in {j.root} \cup j.rw}

render_profile(j) ==
  {Rule(<<>>, "read", 0)} \cup {Rule(p, "write", 1) : p \in {j.root, Tmp} \cup j.rw}
    \cup {Rule(d, "none", 2) : d \in j.deny}

\* The order of native_bwrap_argv: root, read-only, read-write, denials.
root_filesystem == {Rule(<<"usr">>, "read", 0), Rule(Proc, "none", 0), Rule(Tmp, "none", 0)}

native_bwrap_argv(j) ==
  root_filesystem \cup {Rule(j.root, "write", 1)}
    \cup {Rule(p, "read", 2) : p \in j.ro} \cup {Rule(p, "write", 3) : p \in j.rw}
    \cup {Rule(d, "none", 4) : d \in j.deny}

---------------------------------------------------------------------------
\* native_jail::prepare, and prepare_with_resources around it.
denials == request.deny \cup {canonicalize(d) : d \in request.deny}

Covers(j) ==
  \E d \in j.deny : \/ Under(j.root, d)
                    \/ \E g \in j.rw : Under(g, d) \/ (~carves_denials(request.backend) /\ Under(d, g))

prepare_refuses(j) ==
  LET b == request.backend IN
  \/ Symlinked(jail)
  \/ canonicalize(request.root) \notin Dirs
  \/ \E g \in request.ro \cup request.rw : ~Exists(g)
  \/ Covers(j) \/ ~validate_carved_denials(b, j) \/ ~validate_denials(b, j)
  \/ request.isolated /\ ~is_suitable_for_untrusted_jail(b)
  \/ ~(required_resource_constraints \subseteq enforced(b))
  \/ ~(constraints \subseteq IF request.enforced THEN enforced(b) ELSE declared_constraint_support(b))

validate_native_jail_command(j) ==
  /\ ~request.net /\ request.fork
  /\ \A d \in j.deny : \A p \in {j.root} \cup j.rw : ~Under(p, d)
  /\ \A p \in {j.root} \cup j.ro \cup j.rw : Exists(p) /\ canonicalize(p) = p /\ ~Under(p, Proc)

prepare_with_resources_refuses(j) == request.budget \/ ~validate_native_jail_command(j)

Prepare ==
  LET j == [root |-> canonicalize(request.root), rw |-> {canonicalize(p) : p \in request.rw},
            ro |-> {canonicalize(p) : p \in request.ro}, deny |-> denials]
      owned == request.backend = "resources" IN
  /\ at = "asked"
  /\ IF prepare_refuses(j) \/ (owned /\ prepare_with_resources_refuses(j))
     THEN at' = "refused" /\ UNCHANGED <<jail, rules>>
     ELSE at' = "prepared" /\ jail' = j /\ rules' = IF owned THEN native_bwrap_argv(j) ELSE {}
  /\ UNCHANGED <<request, links, confined>>

\* Another session of the same workspace puts a link where a path was.  The
\* launcher's argument list is not recomputed, so its wait is left out.
Plant ==
  /\ at \in {"asked", "prepared"} /\ links = Aliases
  /\ request.backend # "resources" \/ at = "asked"
  /\ \E l \in DOMAIN Planted : links' = [p \in DOMAIN links \cup {l} |-> IF p = l THEN Planted[l] ELSE links[p]]
  /\ UNCHANGED <<request, jail, at, rules, confined>>

---------------------------------------------------------------------------
\* checked_owned_jail or spawn_with, then the backend's own spawn.
Canonical(j) ==
  [root |-> canonicalize(j.root), rw |-> {Resolve(p) : p \in j.rw}, ro |-> {Resolve(p) : p \in j.ro},
   deny |-> {canonicalize(d) : d \in j.deny}]

backend_refuses(b, j) ==
  CASE b = "bwrap" -> ~(constraints \subseteq enforced(b)) \/ jail_args_refuses(j)
    [] b = "landlock" -> ~(constraints \ {"filesystem"} \subseteq enforced(b)) \/ \E p \in {j.root} \cup j.rw : ~Exists(p)
    [] b = "seatbelt" -> ~validate_carved_denials(b, j)
    [] b = "resources" -> request.library

spawn_refuses(j) ==
  \/ Symlinked(jail) \/ ~Exists(jail.root)
  \/ ~(required_resource_constraints \subseteq enforced(request.backend))
  \/ ~validate_denials(request.backend, j)
  \/ backend_refuses(request.backend, j)

launch(b, j) ==
  CASE b = "bwrap" -> jail_args(j) [] b = "landlock" -> build_ruleset(j)
    [] b = "seatbelt" -> render_profile(j) [] b = "resources" -> rules

Unshared(b) ==
  CASE b = "bwrap" -> {"processes"} \cup (IF request.net THEN {} ELSE {"network"})
    [] b = "landlock" -> {}
    [] b = "seatbelt" -> constraints \cap {"network", "subprocess"}
    [] b = "resources" -> {"processes", "network"}

Spawn ==
  LET j == Canonical(jail) IN
  /\ at = "prepared"
  /\ IF spawn_refuses(j)
     THEN at' = "refused" /\ UNCHANGED <<jail, rules, confined>>
     ELSE /\ at' = "running" /\ jail' = j /\ rules' = launch(request.backend, j)
          /\ confined' = Unshared(request.backend)
  /\ UNCHANGED <<request, links>>

Next == Prepare \/ Plant \/ Spawn

Spec == Init /\ [][Next]_vars
---------------------------------------------------------------------------
TypeOK ==
  /\ request.backend \in Backends /\ at \in {"asked", "prepared", "running", "refused"}
  /\ \A r \in rules : r.mode \in {"none", "read", "write"} /\ r.rank \in 0 .. 100
  /\ confined \subseteq {"processes", "network", "subprocess"}

\* The access a running process has to a path of the host.
View(p) ==
  LET covering == {r \in rules : Under(canonicalize(p), r.path)} IN
  IF covering = {} THEN "none" ELSE (CHOOSE r \in covering : \A s \in covering : s.rank <= r.rank).mode

\* What the request promises: nothing of a denied path; else the deepest grant
\* decides, a read-only one before a writable one.  Landlock only adds, Seatbelt
\* restricts no reads.
Promised(p) ==
  LET c == canonicalize(p)
      b == request.backend
      In(set) == {Len(canonicalize(g)) : g \in {g \in set : Under(c, canonicalize(g))}}
      writable == In({request.root} \cup request.rw \cup (IF b = "seatbelt" THEN {Tmp} ELSE {}))
      readable == In(request.ro \cup (SYSTEM_DIRS \ DOMAIN links)) \cup (IF b = "seatbelt" THEN {0} ELSE {})
  IN CASE \E d \in request.deny : Under(c, canonicalize(d)) -> "none"
       [] writable \cup readable = {} -> "none"
       [] writable = {} -> "read"
       [] readable = {} -> "write"
       [] OTHER -> IF b # "bwrap" \/ Max(writable) > Max(readable) THEN "write" ELSE "read"

\* A jailed process that was started sees of the host what the request promised,
\* whichever entry and backend started it, although the paths are resolved twice
\* and a link may have been put in between; the resource launcher, whose mounts
\* are not sorted, gives no more than was granted and nothing that was denied.  A
\* denied path cannot be renamed out of its mask, and the network, subprocess and
\* isolation requests are held (prepare, jail_args, build_ruleset, render_profile,
\* native_bwrap_argv).
RunsAsGranted ==
  at = "running" =>
    /\ \A p \in {p \in Dirs \cup Plain \cup DOMAIN links : Exists(p)} :
         IF request.backend # "resources" THEN View(p) = Promised(p)
         ELSE /\ Promised(p) = "none" <=> View(p) = "none"
              /\ View(p) = "write" => Promised(p) = "write"
    /\ request.backend \in {"bwrap", "seatbelt"} =>
         \A d \in jail.deny : d # <<>> /\ View(Parent(d)) = "write" => Parent(d) \in {jail.root, Tmp} \cup jail.rw
    /\ (constraints \cap {"network", "subprocess"}) \subseteq confined
    /\ request.isolated /\ ~request.library => {"network", "processes"} \subseteq confined
===============================================================================
