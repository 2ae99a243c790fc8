----------------------------- MODULE PluginFiles ------------------------------
(***************************************************************************)
(* What the installer does to the game's tree (internal/agent/extract.go,   *)
(* plugins.go, ownership.go, patch.go, wpdefault.go): an archive is unpacked *)
(* as root, patched, handed to the game's user and recorded by the paths   *)
(* that catalog.go says the entry owns; the uninstall removes those paths.   *)
(*                                                                         *)
(* Paths are sequences of names below game/csgo, which is the game's own.  *)
(* A release may come in a wrapper directory of its version.  An install   *)
(* may fail after any part of its archive, and an uninstall after any part *)
(* of its paths.  Requests come one at a time here; Installer has them     *)
(* side by side.                                                           *)
(***************************************************************************)
EXTENDS Integers, Sequences, FiniteSets, SequencesExt, TLC

CONSTANTS
    Entries,    \* the part of the catalog that is looked at
    Wrapped     \* entries whose release may start to come in a wrapper

Csharp == <<"addons", "counterstrikesharp">>
CsharpPlugins == Csharp \o <<"plugins">>

\* DefaultCatalog, one entry of each shape: where its archive goes, how much of
\* every name is dropped, which paths it owns, what it requires.
Runtimes ==
    [metamod |->
        [requires |-> {}, dest |-> <<>>, strip |-> 0,
         owns |-> {<<"addons", "metamod">>, <<"addons", "metamod.vdf">>},
         post |-> <<"gameinfo-metamod">>],
     cssharp |->
        [requires |-> {"metamod"}, dest |-> <<>>, strip |-> 0,
         owns |-> {Csharp, <<"addons", "metamod", "counterstrikesharp.vdf">>},
         post |-> <<>>]]

\* WeaponPaints' libraries are left out.
WeaponPaints ==
    [weaponpaints |->
        [requires |-> {"cssharp"}, dest |-> CsharpPlugins, strip |-> 0,
         owns |-> {Append(CsharpPlugins, "WeaponPaints"),
                   Csharp \o <<"gamedata", "weaponpaints.json">>},
         post |-> <<"guidelines-off", "wp-gamedata", "wp-default-config">>]]

OtherPlugins ==
    [deathmatch |->
        [requires |-> {"cssharp"}, dest |-> Csharp, strip |-> 1,
         owns |-> {Append(CsharpPlugins, "Deathmatch"),
                   Csharp \o <<"shared", "DeathmatchAPI">>},
         post |-> <<>>],
     cs2fixes |->
        [requires |-> {"metamod"}, dest |-> <<>>, strip |-> 0,
         owns |-> {<<"addons", "cs2fixes">>, <<"addons", "metamod", "cs2fixes.vdf">>,
                   <<"cfg", "cs2fixes">>},
         post |-> <<>>]]

Catalog == Runtimes @@ WeaponPaints @@ OtherPlugins

\* What their archives hold.
Release ==
    [metamod |-> <<<<"addons", "metamod", "bin">>, <<"addons", "metamod.vdf">>>>,
     cssharp |-> <<Append(Csharp, "bin"), Csharp \o <<"configs", "core.example.json">>,
                   <<"addons", "metamod", "counterstrikesharp.vdf">>>>,
     weaponpaints |-> <<<<"WeaponPaints", "WeaponPaints.dll">>,
                        <<"WeaponPaints", "gamedata", "weaponpaints.json">>,
                        <<"gamedata", "weaponpaints.json">>>>,
     deathmatch |-> <<<<"Deathmatch", "plugins", "Deathmatch", "dll">>,
                      <<"Deathmatch", "shared", "DeathmatchAPI", "dll">>>>,
     cs2fixes |-> <<<<"addons", "cs2fixes", "bin">>, <<"addons", "metamod", "cs2fixes.vdf">>,
                    <<"cfg", "cs2fixes", "config">>>>]

GameRoots == {"addons", "cfg", "maps", "materials", "models", "panorama", "particles",
              "resource", "scripts", "sound", "sounds", "soundevents",
              "counterstrikesharp", "plugins", "shared"}

VARIABLES
    files,      \* path -> [of, owner]: whose it is, and the account that owns it
    dirs,       \* path -> owner
    rows,       \* the plugin table
    gameinfo,   \* does gameinfo.gi name metamod's search path?
    torn        \* entries that an uninstall has removed in part: history

vars == <<files, dirs, rows, gameinfo, torn>>

-------------------------------------------------------------------------------
(***************************************************************************)
(* A tree is a record of files and dirs                                    *)
(***************************************************************************)
Tree == [files |-> files, dirs |-> dirs]
Parent(p) == SubSeq(p, 1, Len(p) - 1)
Ancestors(p) == {SubSeq(p, 1, n) : n \in 1 .. Len(p) - 1}
Below(p, o) == IsPrefix(o, p)

\* MkdirAll: what is missing is made by root.
WithDirs(t, p) ==
    [t EXCEPT !.dirs = @ @@ [d \in Ancestors(p) |-> "root"]]

\* A file is opened for writing: one that exists keeps its owner.
Put(t, p, of) ==
    LET owner == IF p \in DOMAIN t.files THEN t.files[p].owner ELSE "root"
    IN  [WithDirs(t, p) EXCEPT !.files = (p :> [of |-> of, owner |-> owner]) @@ @]

\* atomicWrite: the owner is the old file's, or that of the directory.
Write(t, p, of) ==
    LET u == WithDirs(t, p)
        owner == CASE p \in DOMAIN t.files -> t.files[p].owner
                   [] Parent(p) = <<>> -> "game"
                   [] OTHER -> u.dirs[Parent(p)]
    IN  [u EXCEPT !.files = (p :> [of |-> of, owner |-> owner]) @@ @]

Removed(t, paths) ==
    LET Stays(p) == \A o \in paths : ~Below(p, o)
    IN  [files |-> [p \in {q \in DOMAIN t.files : Stays(q)} |-> t.files[p]],
         dirs |-> [p \in {q \in DOMAIN t.dirs : Stays(q)} |-> t.dirs[p]]]

-------------------------------------------------------------------------------
(***************************************************************************)
(* The archive                                                             *)
(***************************************************************************)
Tops(names) == {n[1] : n \in ToSet(names)}

\* detectStrip: one top directory that is no game root and holds one.
DetectStrip(names) ==
    IF /\ Cardinality(Tops(names)) = 1
       /\ Tops(names) \cap GameRoots = {}
       /\ \E n \in ToSet(names) : Len(n) > 1 /\ n[2] \in GameRoots
    THEN 1 ELSE 0

\* Mutant: a wrapper is no concern of the installer's.
StripDeclared(e, names) == Catalog[e].strip

Strip(e, names) ==
    IF Catalog[e].strip # 0 THEN Catalog[e].strip ELSE DetectStrip(names)

\* stripComponents: an entry that lies in the stripped part is left out.
Stripped(names, strip) ==
    LET kept == SelectSeq(names, LAMBDA n : Len(n) > strip)
    IN  [i \in DOMAIN kept |-> SubSeq(kept[i], strip + 1, Len(kept[i]))]

\* The first n entries of an archive, unpacked.
Extracted(t, e, names, n) ==
    FoldLeft(LAMBDA u, name : Put(u, Catalog[e].dest \o name, e), t,
             SubSeq(Stripped(names, Strip(e, names)), 1, n))

\* Mutant: what an archive has put at the top is its own.
OwnedTops(e, names) ==
    {Catalog[e].dest \o <<top>> : top \in Tops(Stripped(names, Strip(e, names)))}

\* ownedPaths.
Owned(e, names) ==
    IF Catalog[e].owns # {} THEN Catalog[e].owns
    ELSE {Catalog[e].dest \o <<top>> : top \in Tops(Stripped(names, Strip(e, names)))}

-------------------------------------------------------------------------------
(***************************************************************************)
(* After the archive                                                       *)
(***************************************************************************)
CoreJson == Csharp \o <<"configs", "core.json">>
WPConfig == Csharp \o <<"configs", "plugins", "WeaponPaints", "WeaponPaints.json">>
Gamedata == Csharp \o <<"gamedata", "weaponpaints.json">>
Stray == Append(CsharpPlugins, "gamedata")
GamedataSources ==
    {CsharpPlugins \o <<"WeaponPaints", "gamedata", "weaponpaints.json">>,
     Append(Stray, "weaponpaints.json")}

\* runPostInstall, where it writes files.  The gamedata is written from whichever
\* of its copies there is, and the stray one goes; without any there is a
\* warning, and nothing is written.
PostInstalled(t, step) ==
    CASE step = "guidelines-off" -> Write(t, CoreJson, "cssharp")
      [] step = "wp-gamedata" ->
           IF GamedataSources \cap DOMAIN t.files # {}
           THEN Removed(Write(t, Gamedata, "weaponpaints"), {Stray}) ELSE t
      [] step = "wp-default-config" ->
           IF WPConfig \in DOMAIN t.files THEN t ELSE Write(t, WPConfig, "config")
      [] OTHER -> t

\* applyGameOwnership: the recorded paths and everything below them.
HandedOver(t, paths) ==
    LET Ours(p) == \E o \in paths : Below(p, o)
    IN  [files |-> [p \in DOMAIN t.files |->
                      IF Ours(p) THEN [t.files[p] EXCEPT !.owner = "game"] ELSE t.files[p]],
         dirs |-> [p \in DOMAIN t.dirs |-> IF Ours(p) THEN "game" ELSE t.dirs[p]]]

\* The entry whose install patches gameinfo.gi, and whose uninstall takes the
\* patch out again.
Patches(e) == "gameinfo-metamod" \in ToSet(Catalog[e].post)

Becomes(t) == files' = t.files /\ dirs' = t.dirs

Required(e) == Catalog[e].requires \cap Entries

\* The names of a release, as published or in a wrapper.
Names(e, wrapper) ==
    IF wrapper THEN [i \in DOMAIN Release[e] |-> <<e \o "-v2">> \o Release[e][i]] ELSE Release[e]

\* The panel never asks to install again what is installed (force).
Begins(e, wrapper) ==
    /\ e \notin DOMAIN rows
    /\ Required(e) \subseteq DOMAIN rows
    /\ wrapper => e \in Wrapped

\* install, from the opened archive to the row.
Install(e, wrapper) ==
    LET names == Names(e, wrapper)
        post == Catalog[e].post
        owned == Owned(e, names)
        unpacked == Extracted(Tree, e, names, Len(names))
    IN  /\ Begins(e, wrapper)
        /\ Becomes(HandedOver(FoldLeft(PostInstalled, unpacked, post), owned))
        /\ rows' = (e :> owned) @@ rows
        /\ gameinfo' = (gameinfo \/ Patches(e))
        /\ torn' = torn \ {e}

\* It fails in the archive or at a post-install step: nothing is recorded and
\* nothing handed over.
InstallFails(e, wrapper) ==
    LET names == Names(e, wrapper)
        post == Catalog[e].post
        unpacked == Extracted(Tree, e, names, Len(names))
    IN  /\ Begins(e, wrapper)
        /\ \/ \E n \in 0 .. Len(names) - 1 : Becomes(Extracted(Tree, e, names, n))
           \/ \E n \in 0 .. Len(post) - 1 :
                Becomes(FoldLeft(PostInstalled, unpacked, SubSeq(post, 1, n)))
        /\ UNCHANGED <<rows, gameinfo, torn>>

\* installedDependents.
Needed(e) == \E d \in DOMAIN rows : e \in Required(d)

Uninstall(e) ==
    /\ e \in DOMAIN rows /\ ~Needed(e)
    /\ Becomes(Removed(Tree, rows[e]))
    /\ rows' = [d \in DOMAIN rows \ {e} |-> rows[d]]
    /\ gameinfo' = (gameinfo /\ ~Patches(e))
    /\ torn' = torn \ {e}

\* A path cannot be removed, or gameinfo.gi or the table cannot be written: the
\* row stays.
UninstallFails(e) ==
    /\ e \in DOMAIN rows /\ ~Needed(e)
    /\ \E some \in SUBSET rows[e] :
         /\ Becomes(Removed(Tree, some))
         /\ torn' = torn \union (IF some = {} THEN {} ELSE {e})
         /\ \/ gameinfo' = gameinfo
            \/ some = rows[e] /\ Patches(e) /\ gameinfo' = FALSE
    /\ UNCHANGED rows

Init ==
    /\ files = <<>> /\ dirs = <<>> /\ rows = <<>>
    /\ gameinfo = FALSE /\ torn = {}

Next ==
    \E e \in Entries :
        \/ \E wrapper \in BOOLEAN : Install(e, wrapper) \/ InstallFails(e, wrapper)
        \/ Uninstall(e) \/ UninstallFails(e)

Spec == Init /\ [][Next]_vars

-------------------------------------------------------------------------------
\* The paths of an entry's files, where the engine and the runtime look for them.
Home(e) ==
    {Catalog[e].dest \o SubSeq(n, Catalog[e].strip + 1, Len(n)) : n \in ToSet(Release[e])}

\* WeaponPaints' gamedata is looked for elsewhere.
Looked(e) ==
    IF e = "weaponpaints"
    THEN (Home(e) \ {Append(Stray, "weaponpaints.json")}) \union {Gamedata} ELSE Home(e)

\* What is recorded as installed is there, where it is looked for, and is the
\* game's to write, whatever failed before, in a wrapper or not: "so a release
\* that starts adding one still installs correctly" (install), "the plugin used
\* to install successfully and then disable itself" (placeWeaponPaintsGamedata),
\* "hand the new files to whoever owns the game tree".  An uninstall that failed
\* half way is the real exception: its row stays.
InstalledIsThere ==
    /\ \A e \in DOMAIN rows \ torn : \A p \in Looked(e) :
         p \in DOMAIN files /\ files[p] = [of |-> e, owner |-> "game"]
    /\ "metamod" \in DOMAIN rows \ torn => gameinfo

\* An uninstall takes every file of its entry and none of another: "without it,
\* uninstalling something that ships into `addons/` would delete every other
\* plugin too" (CatalogEntry.Owns), and the guard on dependents covers what lies
\* below a runtime's directory.
UninstallIsExact ==
    [][\A e \in DOMAIN rows \ DOMAIN rows' :
         /\ \A p \in DOMAIN files' : files'[p].of # e
         /\ \A p \in DOMAIN files \ DOMAIN files' : files[p].of \notin DOMAIN rows'
         /\ e = "metamod" => ~gameinfo']_vars

\* An installed plugin may write its config: "hand the new files to whoever owns
\* the game tree so CounterStrikeSharp can write the configs and data files it
\* generates on first load" (install).
ConfigIsTheGames ==
    "weaponpaints" \in DOMAIN rows /\ WPConfig \in DOMAIN files =>
        files[WPConfig].owner = "game"

===============================================================================
