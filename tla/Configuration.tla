---------------------------- MODULE Configuration ----------------------------
(***************************************************************************)
(* Where the configured list of agents comes from: the command line of     *)
(* `serve`, a TOML file anyone may edit at any moment, and the default      *)
(* (cli.rs, run_daemon), and what a SIGHUP takes from the file as it is     *)
(* then.  A start reads the file typed, a SIGHUP as a plain TOML value.     *)
(***************************************************************************)
EXTENDS Sequences, FiniteSets

CONSTANTS
    Agents,          \* paths of upstream agents
    Unset,           \* a list that is not given
    CommandLines,    \* the lists, or none, of the command lines serve is started with
    Files            \* contents the configuration file may have

Optional(S) == S \cup {Unset}

(* A file that is not there cannot be opened; a garbled one is no text or no *)
(* TOML.  agents are the entries of agent_sock_paths that are usable paths.  *)
(* A mistyped file has a value a typed read refuses, in that list or         *)
(* elsewhere; a homeless one an entry whose tilde cannot be expanded.        *)
FileTexts ==
    [state : {"absent", "garbled", "whole", "mistyped", "homeless"},
     agents : Optional(Seq(Agents))]

Blank(state) == [state |-> state, agents |-> Unset]

ASSUME ConfigAssumption ==
    /\ Unset \notin Seq(Agents)
    /\ CommandLines \subseteq Optional(Seq(Agents)) /\ Unset \in CommandLines
    /\ Files \subseteq FileTexts
    /\ \A f \in Files : f.state \in {"absent", "garbled"} => f = Blank(f.state)

VARIABLES
    file,            \* what the configuration file holds now
    phase,           \* of the daemon
    args,            \* the command line it was last started with
    configured,      \* configured_sockets of the socket manager
    offered          \* history: lists the daemon was given, or could have read, since

configVars == <<file, phase, args, configured, offered>>

ConfigTypeOK ==
    /\ file \in Files
    /\ phase \in {"down", "up", "failed"}
    /\ args \in CommandLines
    /\ configured \in Seq(Agents)
    /\ offered \subseteq Seq(Agents)

-----------------------------------------------------------------------------
(* Config::from_serve_args: what the command line gives wins over the file,  *)
(* the file over the default.                                                *)

Given(option, otherwise) == IF option # Unset THEN option ELSE otherwise

Merged(a, f) == Given(a, Given(f.agents, <<>>))

(* A file that cannot be opened is as good as an empty one. *)
Accepted(a, f) ==
    /\ f.state \notin {"garbled", "mistyped"}
    /\ f.state = "homeless" => a # Unset

(* What a SIGHUP finds in the file: it minds no other value. *)
Lists(f) == f.state \in {"whole", "mistyped", "homeless"} /\ f.agents # Unset
Held(f) == IF Lists(f) THEN {f.agents} ELSE {}

-----------------------------------------------------------------------------
ConfigInit ==
    /\ file \in Files
    /\ phase = "down"
    /\ args = Unset
    /\ configured = <<>>
    /\ offered = {<<>>}

(* An editor may write the file in several steps. *)
Edit(f) ==
    /\ f # file
    /\ file' = f
    /\ offered' = offered \cup Held(f)
    /\ UNCHANGED <<phase, args, configured>>

Start(a) ==
    /\ phase # "up"
    /\ Accepted(a, file)
    /\ phase' = "up"
    /\ args' = a
    /\ configured' = Merged(a, file)
    /\ offered' = {configured'} \cup Held(file)
    /\ UNCHANGED file

(* run_daemon fails before it has a socket; a supervisor tries again. *)
StartFails(a) ==
    /\ phase # "up"
    /\ ~ Accepted(a, file)
    /\ phase' = "failed"
    /\ args' = a
    /\ UNCHANGED <<file, configured, offered>>

Stop ==
    /\ phase = "up"
    /\ phase' = "down"
    /\ UNCHANGED <<file, args, configured, offered>>

HangupUnchecked ==    \* Mutant: the value is taken without a look whether it is there.
    /\ phase = "up"
    /\ configured' = file.agents
    /\ UNCHANGED <<file, phase, args, offered>>

HangupTakesDefault ==    \* Mutant: a file without the list counts as an empty list.
    /\ phase = "up"
    /\ configured' = IF Lists(file) THEN file.agents ELSE <<>>
    /\ UNCHANGED <<file, phase, args, offered>>

(* SIGHUP: the list of the file, less its unusable entries, replaces the one  *)
(* in force, wherever that came from; any other trouble leaves all as it is.  *)
Hangup ==
    /\ phase = "up"
    /\ configured' = IF Lists(file) THEN file.agents ELSE configured
    /\ UNCHANGED <<file, phase, args, offered>>

ConfigNext ==
    \/ \E f \in Files : Edit(f)
    \/ \E a \in CommandLines : Start(a) \/ StartFails(a)
    \/ Stop \/ Hangup

ConfigSpec == ConfigInit /\ [][ConfigNext]_configVars

-----------------------------------------------------------------------------
(* Whatever a SIGHUP finds in place of the file, gone, half written or        *)
(* without the list, the daemon never serves a list nobody gave it: the list  *)
(* in force is the one it started with or one the file has held since.        *)
AgentsSurviveBadFiles == phase = "up" => configured \in offered

(* README: "Any options specified on the command line override configuration  *)
(* file settings"; run_daemon: "Re-read config file, keeping existing CLI     *)
(* options".                                                                  *)
CommandLinePrevails == phase = "up" /\ args # Unset => configured = args
=============================================================================
