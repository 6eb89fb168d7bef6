------------------------------- MODULE TelosBuild -------------------------------
(****************************************************************************)
(* The telos commands that write (telos-cli): build, project and eject, the *)
(* routing of modules to backends (telos-router), the files of a project    *)
(* (telos-codegen) and the proof manifest.                                  *)
(*                                                                          *)
(* A version of the source is a record: the boundary flags of its modules,  *)
(* whether it parses and transpiles, and whether all its functions come out *)
(* verified.  What a generated file holds is the version it was made from.  *)
(* The source may be edited, and the command may be stopped, between any    *)
(* two of its reads and writes.  A hash is the version it was taken of.     *)
(****************************************************************************)
EXTENDS Integers, Sequences, FiniteSets

CONSTANTS Versions,    \* records [id, modules, loads, verified]
          MaxEdits,    \* bound: edits of the source
          MaxCommands  \* bound: commands

VARIABLES source,      \* the version on disk
          disk,        \* file -> the version it was generated from, and how
          command,     \* the running command and what it has read
          exit,        \* how the last command ended
          edits, commands

vars == <<source, disk, command, exit, edits, commands>>

RustFlags   == {"cpu_bound", "zero_allocation", "crypto", "real_time"}
GoFlags     == {"network_io", "high_concurrency", "distributed", "high_latency"}
PythonFlags == {"ml_training", "python", "jax"}

\* route_checked: Python wins over Go, Go over Rust
Route(flags) ==
    IF flags \cap PythonFlags # {} THEN "python"
    ELSE IF flags \cap GoFlags # {} THEN "go" ELSE "rust"

Conflict(flags) == Route(flags) = "go" /\ flags \cap {"real_time", "zero_allocation"} # {}

Targets(v) == {Route(v.modules[i]) : i \in DOMAIN v.modules}

\* generate_project: the groups of files of a project, in the order they are
\* written.  The bridge between Rust and Go is written when there are both.
Files(v) ==
    SelectSeq(<<"rust", "go", "bridge", "python">>,
              LAMBDA f : f \in Targets(v) \/ (f = "bridge" /\ {"rust", "go"} \subseteq Targets(v)))

AllFiles == {"crate", "rust", "go", "bridge", "python", "proof", "ejected"}

NoVersion == [id |-> 0, modules |-> << >>, loads |-> FALSE, verified |-> FALSE]

Missing == [of |-> NoVersion, hash |-> NoVersion, torn |-> FALSE, bridged |-> FALSE, by |-> 0]

Idle == [phase |-> "idle", kind |-> "none", strict |-> FALSE,
         bytes |-> NoVersion, modules |-> NoVersion, left |-> << >>]

Init ==
    /\ source \in Versions
    /\ disk = [f \in AllFiles |-> Missing]
    /\ command = Idle
    /\ exit = "none"
    /\ edits = 0 /\ commands = 0

\* Somebody saves the file
Edit ==
    /\ edits < MaxEdits
    /\ source' \in Versions \ {source}
    /\ edits' = edits + 1
    /\ UNCHANGED <<disk, command, exit, commands>>

End(how) ==
    /\ command' = Idle
    /\ exit' = how
    /\ UNCHANGED <<source, disk, edits, commands>>

\* A command reads the source for its hash (an eject has no manifest)
Start(kind, strict) ==
    /\ command.phase = "idle" /\ commands < MaxCommands
    /\ kind = "build" => ~strict
    /\ command' = [Idle EXCEPT !.phase = "load", !.kind = kind, !.strict = strict, !.bytes = source]
    /\ exit' = "none"
    /\ commands' = commands + 1
    /\ UNCHANGED <<source, disk, edits>>

\* The manifest is written before the code
Plan_Mut(kind, v) ==
    <<IF kind = "eject" THEN "ejected" ELSE "proof">>
    \o (IF kind = "build" THEN <<"crate">> ELSE Files(v))

\* What a command writes, in order
Plan(kind, v) ==
    (IF kind = "build" THEN <<"crate">> ELSE Files(v))
    \o <<IF kind = "eject" THEN "ejected" ELSE "proof">>

\* load_modules reads it again; then every module is transpiled.  A routing
\* conflict under --strict-rt, and an eject that names no function, end the
\* command before it writes.
Load ==
    /\ command.phase = "load"
    /\ LET conflict == \E i \in DOMAIN source.modules : Conflict(source.modules[i])
       IN  IF ~source.loads \/ (command.strict /\ conflict) THEN End("error")
           ELSE \/ command.kind = "eject" /\ End("error")
                \/ /\ command' = [command EXCEPT !.phase = "write", !.modules = source,
                                                 !.left = Plan(command.kind, source)]
                   /\ UNCHANGED <<source, disk, exit, edits, commands>>

\* What a file holds: lib.rs names the bridge it is linked with, and the
\* manifest has the hash of the bytes read first.  (torn: the two reads of the
\* source differed; by: the command that wrote the file.)
Content(file) ==
    [of      |-> command.modules,
     hash    |-> IF file = "proof" THEN command.bytes ELSE NoVersion,
     torn    |-> command.bytes # command.modules,
     bridged |-> file = "rust" /\ {"rust", "go"} \subseteq Targets(command.modules),
     by      |-> commands]

Write ==
    /\ command.phase = "write" /\ command.left # << >>
    /\ disk' = [disk EXCEPT ![Head(command.left)] = Content(Head(command.left))]
    /\ command' = [command EXCEPT !.left = Tail(@)]
    /\ UNCHANGED <<source, exit, edits, commands>>

\* The generated code is compiled (external); the exit status says whether all
\* functions were verified and it compiled
Compile ==
    /\ command.phase = "write" /\ command.left = << >>
    /\ IF command.kind = "eject" THEN End("ok")
       ELSE End(IF command.modules.verified THEN "ok" ELSE "unverified") \/ End("error")

\* The command is killed
Stop ==
    /\ command.phase # "idle"
    /\ End("killed")

Next ==
    \/ Edit
    \/ \E kind \in {"build", "project", "eject"}, strict \in BOOLEAN : Start(kind, strict)
    \/ Load
    \/ Write
    \/ Compile
    \/ Stop

Spec == Init /\ [][Next]_vars

--------------------------------------------------------------------------------
\* run_verify_manifest answers MANIFEST OK
ManifestOk == disk["proof"] # Missing /\ disk["proof"].hash = source

\* A manifest that checks against the source records what the verifier said of
\* that very source, whatever was edited, killed or built since, unless the
\* source changed between the command's two reads of it.
ManifestTrue == ManifestOk /\ ~disk["proof"].torn => disk["proof"].of = source

\* The manifest comes last: where there is one, the code of its command, with
\* the bridge its library names, was written before it, and a killed command
\* leaves none.
ManifestLast ==
    disk["proof"].by > 0 =>
        /\ \/ disk["crate"].by >= disk["proof"].by
           \/ \A f \in Targets(disk["proof"].of) : disk[f].by >= disk["proof"].by
        /\ disk["rust"].by = disk["proof"].by /\ disk["rust"].bridged =>
               disk["bridge"].by >= disk["rust"].by

BuildSound == ManifestTrue /\ ManifestLast
================================================================================
