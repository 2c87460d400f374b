-------------------------------- MODULE Paths -------------------------------
(***************************************************************************)
(* The paths of the guest and those of the host (src/src/path_mapper.cpp,  *)
(* fsutil.cpp) with the handlers of main_handler.cpp that name files.  A   *)
(* guest's path is translated by replacing the longest QNX prefix that     *)
(* was configured (-m), a host path by replacing a host prefix.  Prefixes  *)
(* are compared as strings (Fsutil::path_starts_with), not component by    *)
(* component, so a path is a sequence of characters here.                  *)
(*                                                                         *)
(* The host's directories are taken to be there; the model keeps the       *)
(* files and links that guests make.                                       *)
(***************************************************************************)
EXTENDS Naturals, FiniteSetsExt, SequencesExt, Functions

CONSTANTS
    Char,           \* characters; "unmapped" stands for eight of them
    Maps,           \* the arguments of -m: QNX path, host path, exec
    QnxPaths,       \* canonical paths, as the QNX library sends them
    RawPaths,       \* paths as they come from the user
    Targets,        \* what symbolic links are made to point to
    Fd,
    MaxMaps,        \* bound: options -m
    MaxCwd,         \* bound: the length of a directory's path
    MaxNodes,       \* bound: files and links at a time
    PathMax         \* the room for a path in fsys_readlink's reply

ASSUME PathsAssumption ==
    /\ {MaxMaps, MaxCwd, MaxNodes} \subseteq Nat
    /\ PathMax \in Nat \ {0}
    /\ {"/", ".", "unmapped"} \subseteq Char

VARIABLES
    phase,      \* "config" while options are read, "guest" while a QNX
                \* program runs, "host" while one of the host does
    root,       \* PathMapper::m_root
    prefixes,   \* PathMapper::m_prefixes
    fs,         \* files and links by host path
    fds,        \* QnxFd::m_path of open FDs
    cwd,        \* __CWD of the guest, or the host's directory
    exe         \* Process::m_executed_file

vars == <<phase, root, prefixes, fs, fds, cwd, exe>>

Slash == <<"/">>
File == [kind |-> "file"]
NoExe == [host |-> <<>>, qnx |-> <<>>]

-----------------------------------------------------------------------------
(* Strings.                                                                *)

(* What is between the slashes.                                            *)
Split(s) ==
    LET More(w, c) == IF c = "/" THEN Append(w, <<>>)
                      ELSE [w EXCEPT ![Len(w)] = Append(@, c)]
        walk[k \in 0 .. Len(s)] ==
            IF k = 0 THEN << <<>> >> ELSE More(walk[k - 1], s[k])
    IN  walk[Len(s)]

Join(parts) ==
    FlattenSeq([k \in DOMAIN parts |->
        IF k = 1 THEN parts[k] ELSE Slash \o parts[k]])

is_abs(s) == s # <<>> /\ Head(s) = "/"

(* One part more: an empty one and "." are skipped, and ".." takes away a  *)
(* part if there is one to take (pop_path).                                *)
AddPart(part, kept) ==
    IF part \in {<<>>, <<".">>} THEN kept
    ELSE IF part # <<".", ".">> THEN Append(kept, part)
    ELSE IF kept = <<>> THEN kept ELSE Front(kept)

(* The parts that remain of a path.                                        *)
Kept(parts) ==
    LET walk[k \in 0 .. Len(parts)] ==
            IF k = 0 THEN <<>> ELSE AddPart(parts[k], walk[k - 1])
    IN  walk[Len(parts)]

(* Mutant: ".." is kept as a name.                                         *)
normalize_path_keeps_dots(s) ==
    (IF is_abs(s) THEN Slash ELSE <<>>)
      \o Join(SelectSeq(Split(s), LAMBDA part : part \notin {<<>>, <<".">>}))

normalize_path(s) ==
    (IF is_abs(s) THEN Slash ELSE <<>>) \o Join(Kept(Split(s)))

(* In its normal form, and within it no "..".                              *)
Canonical(s) == s = normalize_path(s) /\ is_abs(s)
                /\ \A part \in Range(Split(s)) : part # <<".", ".">>

(* All paths are absolute: change_prefix asserts it of the prefixes, and   *)
(* the QNX library puts the directory before the other ones.  The handlers *)
(* that do not normalise a path take it to be canonical.  The host makes   *)
(* no link with an empty target.                                           *)
ASSUME NamesAssumption ==
    /\ Maps \subseteq [qnx : Seq(Char), host : Seq(Char), exec : STRING]
    /\ \A m \in Maps : is_abs(m.qnx) /\ is_abs(m.host)
    /\ QnxPaths \cup RawPaths \cup Targets \subseteq Seq(Char)
    /\ \A q \in QnxPaths : Canonical(q)
    /\ \A q \in RawPaths : is_abs(q)
    /\ <<>> \notin Targets

path_starts_with(path, prefix) == IsPrefix(prefix, path)

(* The path beyond the prefix, without its leading slashes.                *)
Common(prefix, path) ==
    LET from == {k \in Len(prefix) + 1 .. Len(path) : path[k] # "/"}
    IN  IF from = {} THEN <<>> ELSE SubSeq(path, Min(from), Len(path))

(* What is at `rest' in a directory.                                       *)
Under(dir, rest) ==
    dir \o (IF rest # <<>> /\ Last(dir) # "/" THEN Slash ELSE <<>>) \o rest

change_prefix(prefix, new, path) == Under(new, Common(prefix, path))

-----------------------------------------------------------------------------
(* PathMapper.                                                             *)

(* The most specific prefix of a QNX path; the root is one of each.        *)
PrefixOfQnx(q) ==
    LET found == {p \in Range(prefixes) : path_starts_with(q, p.qnx)}
    IN  IF found = {} THEN root
        ELSE CHOOSE p \in found : \A o \in found : Len(o.qnx) <= Len(p.qnx)

map_path_to_host(q) ==
    change_prefix(PrefixOfQnx(q).qnx, PrefixOfQnx(q).host, q)

(* The most general prefix of a host path: the root whenever its host path *)
(* starts the path, else the first of those with the shortest QNX path.    *)
HasPrefix(h) ==
    \/ path_starts_with(h, root.host)
    \/ \E p \in Range(prefixes) : path_starts_with(h, p.host)

PrefixOfHost(h) ==
    LET found == {k \in DOMAIN prefixes :
                    path_starts_with(h, prefixes[k].host)}
        shortest == {k \in found : \A j \in found :
                        Len(prefixes[k].qnx) <= Len(prefixes[j].qnx)}
    IN  IF path_starts_with(h, root.host) THEN root
        ELSE prefixes[Min(shortest)]

(* Mutant: the root is taken to be the host's.                             *)
map_path_to_qnx_unrooted(h) ==
    IF HasPrefix(h) /\ PrefixOfHost(h) # root
    THEN change_prefix(PrefixOfHost(h).host, PrefixOfHost(h).qnx, h) ELSE h

map_path_to_qnx(h) ==
    IF HasPrefix(h)
    THEN change_prefix(PrefixOfHost(h).host, PrefixOfHost(h).qnx, h)
    ELSE <<"/", "unmapped", "/">> \o h

Init ==
    /\ phase = "config"
    /\ root = [qnx |-> Slash, host |-> Slash, exec |-> "qnx"]
    /\ prefixes = <<>>
    /\ fs = [h \in {} |-> File]
    /\ fds = <<>>
    /\ cwd = Slash
    /\ exe = NoExe

(* Option -m.  A second map for a QNX path ends qine, except for the root. *)
add_map(m) ==
    LET p == [qnx |-> normalize_path(m.qnx), host |-> normalize_path(m.host),
              exec |-> IF m.exec # "" THEN m.exec
                       ELSE IF normalize_path(m.qnx) = Slash THEN "qnx"
                       ELSE "host"]
    IN  /\ phase = "config"
        /\ Len(prefixes) < MaxMaps
        /\ IF p.qnx = Slash THEN root' = p /\ UNCHANGED prefixes
           ELSE /\ \A o \in Range(prefixes) : o.qnx # p.qnx
                /\ prefixes' = Append(prefixes, p)
                /\ UNCHANGED root
        /\ UNCHANGED <<phase, fs, fds, cwd, exe>>

(* The names a new guest finds: that of its program, which qine was given  *)
(* as a host path, and its directory, from getcwd.                         *)
Executed(h) == [host |-> h, qnx |-> map_path_to_qnx(h)]

start(q) ==
    /\ phase = "config"
    /\ phase' = "guest"
    /\ exe' = Executed(map_path_to_host(normalize_path(q)))
    /\ cwd' = map_path_to_qnx(map_path_to_host(normalize_path(q)))
    /\ UNCHANGED <<root, prefixes, fs, fds>>

-----------------------------------------------------------------------------
(* Files.                                                                  *)

Guest == phase = "guest"

Put(h, node) ==
    /\ Cardinality(DOMAIN fs \cup {h}) <= MaxNodes
    /\ fs' = [g \in DOMAIN fs \cup {h} |-> IF g = h THEN node ELSE fs[g]]

(* io_open, creating the file; the FD remembers both paths.                *)
io_open(n, q) ==
    LET h == map_path_to_host(q)
    IN  /\ Guest
        /\ n \notin DOMAIN fds
        /\ h \in DOMAIN fs => fs[h] = File
        /\ Put(h, File)
        /\ fds' = [m \in DOMAIN fds \cup {n} |->
                    IF m = n THEN [qnx |-> q, host |-> h] ELSE fds[m]]
        /\ UNCHANGED <<phase, root, prefixes, cwd, exe>>

io_close(n) ==
    /\ Guest
    /\ n \in DOMAIN fds
    /\ fds' = Restrict(fds, DOMAIN fds \ {n})
    /\ UNCHANGED <<phase, root, prefixes, fs, cwd, exe>>

(* The host is only asked whether the path may be executed, so a program   *)
(* will do; the guest's library then keeps the path in __CWD.              *)
io_chdir(q) ==
    /\ Guest
    /\ cwd' = q
    /\ UNCHANGED <<phase, root, prefixes, fs, fds, exe>>

io_rename(from, to) ==
    LET h == map_path_to_host(normalize_path(from))
        g == map_path_to_host(normalize_path(to))
    IN  /\ Guest
        /\ h \in DOMAIN fs
        /\ fs' = [k \in (DOMAIN fs \ {h}) \cup {g} |->
                    IF k = g THEN fs[h] ELSE fs[k]]
        /\ UNCHANGED <<phase, root, prefixes, fds, cwd, exe>>

fsys_unlink(q) ==
    LET h == map_path_to_host(q)
    IN  /\ Guest
        /\ h \in DOMAIN fs
        /\ fs' = Restrict(fs, DOMAIN fs \ {h})
        /\ UNCHANGED <<phase, root, prefixes, fds, cwd, exe>>

(* fsys_mkspecial of a link: an absolute target is translated.             *)
fsys_mkspecial(q, target) ==
    LET h == map_path_to_host(q)
    IN  /\ Guest
        /\ h \notin DOMAIN fs
        /\ Put(h, [kind |-> "link",
                   target |-> IF is_abs(target)
                              THEN map_path_to_host(normalize_path(target))
                              ELSE target])
        /\ UNCHANGED <<phase, root, prefixes, fds, cwd, exe>>

(* fsys_link: the file is found by the path that the FD was opened with,   *)
(* whatever is there by now.                                               *)
fsys_link(n, q) ==
    LET h == map_path_to_host(normalize_path(q))
    IN  /\ Guest
        /\ n \in DOMAIN fds
        /\ fds[n].host \in DOMAIN fs
        /\ h \notin DOMAIN fs
        /\ Put(h, fs[fds[n].host])
        /\ UNCHANGED <<phase, root, prefixes, fds, cwd, exe>>

(* fsys_readlink: what the guest is told of a link's target.               *)
fsys_readlink(h) ==
    LET raw == fs[h].target
        path == IF is_abs(raw) THEN map_path_to_qnx(normalize_path(raw))
                ELSE raw
    IN  SubSeq(path, 1, Min({Len(path), PathMax - 1}))

(* Mutant: the size of a link is that of its target on the host.           *)
io_stat_raw(h) == Len(fs[h].target)

(* io_stat: the size of a link.                                            *)
io_stat(h) ==
    LET raw == fs[h].target
    IN  IF raw = <<>> \/ Head(raw) = "/"
        THEN Len(map_path_to_qnx(normalize_path(raw))) ELSE Len(raw)

-----------------------------------------------------------------------------
(* Programs.  proc_exec_common: one of the host is run in the directory    *)
(* that __CWD stands for, which is taken out of its environment; for one   *)
(* of QNX, qine is run again with the same options and the host's path.    *)
proc_exec(q) ==
    LET path == normalize_path(q)
        h == map_path_to_host(path)
    IN  /\ Guest
        /\ h \in DOMAIN fs /\ fs[h] = File
        /\ fds' = <<>>      \* scan_host_fds knows no paths
        /\ IF PrefixOfQnx(path).exec = "host"
           THEN /\ phase' = "host"
                /\ cwd' = map_path_to_host(normalize_path(cwd))
                /\ UNCHANGED exe
           ELSE /\ exe' = Executed(normalize_path(h))
                /\ UNCHANGED <<phase, cwd>>
        /\ UNCHANGED <<root, prefixes, fs>>

(* The host's program runs qine, with the same options.                    *)
RunQine(q) ==
    /\ phase = "host"
    /\ Len(cwd) <= MaxCwd
    /\ phase' = "guest"
    /\ exe' = Executed(map_path_to_host(normalize_path(q)))
    /\ cwd' = map_path_to_qnx(normalize_path(cwd))
    /\ UNCHANGED <<root, prefixes, fs, fds>>

Next ==
    \/ \E m \in Maps : add_map(m)
    \/ \E q \in RawPaths : start(q) \/ proc_exec(q) \/ RunQine(q)
    \/ \E n \in Fd : io_close(n)
    \/ \E q \in QnxPaths :
          \/ io_chdir(q) \/ fsys_unlink(q)
          \/ \E n \in Fd : io_open(n, q)
          \/ \E t \in Targets : fsys_mkspecial(q, t)
    \/ \E q \in RawPaths :
          \/ \E n \in Fd : fsys_link(n, q)
          \/ \E to \in RawPaths : io_rename(q, to)

Spec == Init /\ [][Next]_vars

-----------------------------------------------------------------------------
(* h is the directory d or something below it.                             *)
Beneath(h, d) == h = d \/ IsPrefix(IF Last(d) = "/" THEN d ELSE d \o Slash, h)

Trees == {root.host} \cup {p.host : p \in Range(prefixes)}

(* The prefix ends within a component of the path, and what is left of     *)
(* that is "." or "..", which the host understands otherwise.              *)
Cut(q) ==
    LET prefix == PrefixOfQnx(q).qnx
        rest == Common(prefix, q)
    IN  /\ ~ Beneath(q, prefix)
        /\ rest # <<>> /\ Split(rest)[1] \in {<<".">>, <<".", ".">>}

(* The QNX paths that guests name.                                         *)
Names == QnxPaths \cup {normalize_path(q) :
                            q \in RawPaths \cup {t \in Targets : is_abs(t)}}

Clean == \A q \in Names : ~ Cut(q)

(* Whatever a guest does with paths (map_path_to_host, normalize_path),    *)
(* the files it makes, opens, renames and links are below a directory of   *)
(* the host that was configured, and in canonical places as long as no     *)
(* prefix is the beginning of a name that goes on with dots.               *)
WithinTrees ==
    \A h \in DOMAIN fs \cup {fds[n].host : n \in DOMAIN fds} :
        /\ \E d \in Trees : Beneath(h, d)
        /\ Clean => Canonical(h)

(* The prefixes are apart: no host path starts another one, and no QNX     *)
(* path, except that of the root.                                          *)
Apart ==
    LET all == <<root>> \o prefixes
    IN  \A i, j \in DOMAIN all : i # j =>
            /\ ~ path_starts_with(all[i].host, all[j].host)
            /\ j # 1 => ~ path_starts_with(all[i].qnx, all[j].qnx)

(* The QNX name made for h is taken by the prefix it was made with.        *)
Unshadowed(h) ==
    /\ HasPrefix(h)
    /\ Beneath(h, PrefixOfHost(h).host)
    /\ PrefixOfQnx(map_path_to_qnx(h)) = PrefixOfHost(h)

(* The paths that qine tells a guest (the target of a link it made, its    *)
(* program, its directory) lead back to where they came from.  This is so  *)
(* whenever the configured prefixes are apart, for a program only if none  *)
(* cuts a name before its dots, because proc_exec normalises the host path *)
(* that the prefix made; else it is so for a path that is below the prefix *)
(* component by component and whose name no other prefix takes.            *)
LeadsBack ==
    LET links == {fs[h].target : h \in {g \in DOMAIN fs :
                        fs[g].kind = "link" /\ is_abs(fs[g].target)}}
        programs == IF exe = NoExe THEN {} ELSE {exe.host}
        directories == IF phase = "host" THEN {cwd} ELSE {}
    IN  \A h \in links \cup programs \cup directories :
            (Apart /\ (h \in programs => Clean)) \/ Unshadowed(h) =>
                map_path_to_host(map_path_to_qnx(h)) = h

(* io_stat and fsys_readlink agree on how long a link's target is, as long *)
(* as it fits into the reply of the latter.                                *)
LinkSizes ==
    \A h \in DOMAIN fs : fs[h].kind = "link" =>
        LET told == fsys_readlink(h)
        IN  \/ io_stat(h) = Len(told)
            \/ io_stat(h) >= PathMax /\ Len(told) = PathMax - 1
=============================================================================
