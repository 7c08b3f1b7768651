----------------------------- MODULE LocalGrants -----------------------------
(***************************************************************************)
(* Discovery of the local grants a jail gets: resolve_local_jail_grants_in *)
(* of tinybox-jail/src/grants with its floor of protected paths, the       *)
(* inspection of a granted subtree and the walk through Git's includes.    *)
(*                                                                         *)
(* A path is the sequence of its components; the spelling of letters and   *)
(* separators is left out. The recursion over includes is a worklist: the  *)
(* targets of a file come before what was waiting, in the file's order.    *)
(***************************************************************************)
EXTENDS Naturals, Sequences, SequencesExt

CONSTANTS
  Dirs, Plain,            \* the directories and the files of the host
  Unreadable,             \* directories that cannot be listed
  LinkSets,               \* its symlinks, one function from paths to paths per host
  Includes,               \* what each Git configuration file may include, per host
  Credentials,            \* protected roots and prefixes
  Components, Pairs,      \* protected names and adjacent pairs of names
  Readable, Writable      \* what the configuration may ask for

VARIABLES links, includes, config, todo, fixed, visited, read_only, read_write, result

vars == <<links, includes, config, todo, fixed, visited, read_only, read_write, result>>

Home == <<"h">>
Proc == <<"proc">>
Cargo == Home \o <<"cargo">>
CargoEntries == {Append(Cargo, e) : e \in {"bin", "registry", "config"}}
HOME_READ_ONLY_DIRS == {Append(Home, "rustup")}
SYSTEM_TOOLCHAIN_DIRS == {<<"opt">>}
GitIgnore == Home \o <<"git", "ignore">>
GitRoots == <<Append(Home, "gitconfig"), Home \o <<"git", "config">>>>
GITCONFIG_MAX_DEPTH == 10

Under(p, q) == IsPrefix(q, p)
Overlap(p, q) == Under(p, q) \/ Under(q, p)

\* The links of a host never lead to one another.
canonicalize(p) ==
  LET on == {l \in DOMAIN links : Under(p, l)} IN
  IF on = {} THEN p ELSE LET l == CHOOSE l \in on : TRUE IN links[l] \o SubSeq(p, Len(l) + 1, Len(p))

Exists(p) == canonicalize(p) \in Dirs \cup Plain

------------------------------------------------------------------------------
(* The floor.                                                              *)

\* Mutant: the place a root is reached at, behind a linked parent, is forgotten
root_spellings_named(root) == {root} \cup (IF Exists(root) THEN {canonicalize(root)} ELSE {})

\* as named, where its directory really is, and what it resolves to
root_spellings(root) ==
  {root} \cup (IF root = <<>> THEN {} ELSE {Append(canonicalize(Front(root)), Last(root))})
         \cup (IF Exists(root) THEN {canonicalize(root)} ELSE {})

Reaches(p, root) == \E spelled \in root_spellings(root) : Overlap(p, spelled)

exposes_credentials(p) == \E root \in Credentials : Reaches(p, root)

has_protected_components(p) ==
  \/ \E i \in DOMAIN p : p[i] \in Components
  \/ \E i \in 1 .. Len(p) - 1 : <<p[i], p[i + 1]>> \in Pairs

refuses_path(p) ==
  has_protected_components(p) \/ exposes_credentials(p) \/ (Exists(Proc) /\ Overlap(p, Proc))

subtree_is_clear(requested, canonical) ==
  \/ Components = {} /\ Pairs = {}
  \/ canonical \notin Dirs
  \/ /\ \A d \in Unreadable : ~Under(d, canonical)
     /\ \A child \in {q \in Dirs \cup Plain \cup DOMAIN links : Under(q, canonical) /\ q # canonical} :
          /\ ~has_protected_components(child)
          /\ ~has_protected_components(requested \o SubSeq(child, Len(canonical) + 1, Len(child)))
          /\ child \in DOMAIN links => \A pair \in Pairs : Last(child) # pair[1]

\* the canonical path, or nothing
admit(p) ==
  IF refuses_path(p) \/ ~Exists(p) \/ refuses_path(canonicalize(p))
     \/ ~subtree_is_clear(p, canonicalize(p))
  THEN {} ELSE {canonicalize(p)}

------------------------------------------------------------------------------
(* The builder.                                                            *)

GitFile(path, depth) == [path |-> path, depth |-> depth]

Init ==
  /\ links \in LinkSets
  /\ includes \in Includes
  /\ config \in [toolchain_homes : BOOLEAN, extra_read_only : {{}} \cup {{p} : p \in Readable},
                 extra_read_write : {{}} \cup {{p} : p \in Writable}, allow_proc : BOOLEAN]
  /\ todo = IF config.toolchain_homes THEN [i \in 1 .. 2 |-> GitFile(GitRoots[i], 0)] ELSE <<>>
  /\ fixed = {} /\ visited = {} /\ read_only = {} /\ read_write = {}
  /\ result = "start"

\* add_cargo_home, the toolchain directories and Git's ignore file, each admitted by itself
Toolchain ==
  LET asked == (IF canonicalize(Cargo) \in Dirs THEN CargoEntries ELSE {})
                 \cup HOME_READ_ONLY_DIRS \cup SYSTEM_TOOLCHAIN_DIRS \cup {GitIgnore}
      granted == IF config.toolchain_homes THEN {p \in asked : admit(p) # {}} ELSE {}
  IN /\ result = "start"
     /\ fixed' = UNION {{p, canonicalize(p)} : p \in granted}
     /\ read_only' = UNION {admit(p) : p \in granted}
     /\ result' = "git"
     /\ UNCHANGED <<links, includes, config, todo, visited, read_write>>

\* where an include leads, from the directory of the file as it was named
Included(base, target) ==
  CASE target.kind = "home" -> Home \o target.path
    [] target.kind = "absolute" -> target.path
    [] target.kind = "relative" -> base \o target.path

\* One add_gitconfig_file. The location is reserved first, whatever is there.
add_gitconfig_file ==
  LET file == Head(todo).path
      depth == Head(todo).depth
      usable == {p \in admit(file) : p \in Plain}
      visit == {<<p, canonicalize(Front(file))>> : p \in usable}
      again == visit \subseteq visited \/ depth >= GITCONFIG_MAX_DEPTH
      text == IF again THEN <<>> ELSE includes[canonicalize(file)]
      bad == SelectInSeq(text, LAMBDA t : t.kind = "unsupported")
      followed == IF bad = 0 THEN text ELSE SubSeq(text, 1, bad - 1)
  IN /\ result = "git" /\ todo # <<>> /\ Head(todo).path # <<>>
     /\ fixed' = fixed \cup {file} \cup usable
     /\ read_only' = read_only \cup usable
     /\ visited' = visited \cup visit
     /\ todo' = [i \in DOMAIN followed |-> GitFile(Included(Front(file), followed[i]), depth + 1)]
                \o (IF bad = 0 THEN <<>> ELSE <<GitFile(<<>>, depth)>>) \o Tail(todo)
     /\ UNCHANGED <<links, includes, config, read_write, result>>

\* ~user and %(prefix) includes fail the whole call (an empty path stands for them).
UnsupportedGitIncludePath ==
  /\ result = "git" /\ todo # <<>> /\ Head(todo).path = <<>>
  /\ result' = "error"
  /\ UNCHANGED <<links, includes, config, todo, fixed, visited, read_only, read_write>>

Extras ==
  /\ result = "git" /\ todo = <<>>
  /\ read_only' = read_only \cup UNION {admit(p) : p \in config.extra_read_only}
  /\ result' = "writable"
  /\ UNCHANGED <<links, includes, config, todo, fixed, visited, read_write>>

\* Refused when it overlaps a fixed path or a part of ~/.cargo under any spelling;
\* a writable grant replaces the read-only one of the same path. Then /proc, on request.
ReadWrite ==
  LET granted == {p \in UNION {admit(q) : q \in config.extra_read_write} :
                    \A root \in fixed \cup CargoEntries : ~Reaches(p, root)}
  IN /\ result = "writable"
     /\ read_write' = granted
     /\ read_only' = (read_only \ granted) \cup (IF config.allow_proc /\ Exists(Proc) THEN {Proc} ELSE {})
     /\ result' = "ok"
     /\ UNCHANGED <<links, includes, config, todo, fixed, visited>>

Next == Toolchain \/ add_gitconfig_file \/ UnsupportedGitIncludePath \/ Extras \/ ReadWrite

Spec == Init /\ [][Next]_vars

------------------------------------------------------------------------------
(* Properties.                                                             *)

RECURSIVE GitReads(_)
\* The reference: every place a Git on the host looks at from these ones, through
\* the files that are not themselves refused.
GitReads(files) ==
  LET more == files \cup
        UNION {{Included(Front(f), t) : t \in ToSet(includes[canonicalize(f)])} :
               f \in {g \in files : canonicalize(g) \in Plain /\ ~refuses_path(g) /\ ~refuses_path(canonicalize(g))}}
  IN IF more = files THEN files ELSE GitReads(more)

Granted == read_only \cup read_write

\* What the finished discovery grants: nothing that holds or lies in a protected root
\* or shows a protected name, no path both ways, and nothing writable through which
\* a toolchain or any file in the closure of Git's includes could be replaced, at the
\* name Git uses, where that name really is, or at its target.
GrantsKeepFloor ==
  result = "ok" =>
    /\ \A g \in Granted \ (IF config.allow_proc THEN {Proc} ELSE {}) :
         /\ Exists(g) /\ ~Overlap(g, Proc)
         /\ \A root \in Credentials : ~Overlap(g, root) /\ ~Overlap(g, canonicalize(root))
         /\ \A q \in Dirs \cup Plain : Under(q, g) => ~has_protected_components(q)
    /\ read_only \cap read_write = {}
    /\ \A g \in read_write :
         /\ \A e \in CargoEntries : ~Overlap(g, canonicalize(e))
         /\ config.toolchain_homes => \A f \in GitReads(ToSet(GitRoots)) :
              ~Under(f, g) /\ ~Under(Append(canonicalize(Front(f)), Last(f)), g) /\ ~Under(canonicalize(f), g)
==============================================================================
