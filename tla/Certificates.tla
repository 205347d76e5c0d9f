---------------------------- MODULE Certificates ----------------------------
(***************************************************************************)
(* The local certificate authority of the daemon as it starts              *)
(* (proxy-daemon/src/certificates.rs, load_or_create, and main.rs).  The   *)
(* authority is a key and a certificate in two files.  They are written    *)
(* one after the other, each truncated and then filled, by any daemon that *)
(* does not find both; the sockets are bound only after that, so several   *)
(* daemons that are starting share the files.  Every file operation may    *)
(* fail and a daemon may be killed between any two.  A check for a file    *)
(* that fails says that there is none.                                     *)
(*                                                                         *)
(* A certificate is identified with the key it certifies, so the pair is   *)
(* consistent when the two are equal.                                      *)
(***************************************************************************)
EXTENDS Integers, FiniteSets

CONSTANTS
    Daemons,           \* processes that use the same directory
    Keys,              \* keys that KeyPair::generate may return
    Absent,            \* no such file
    Torn,              \* a file that was truncated and not filled yet
    MaxStarts          \* bound: starts of all daemons together

ASSUME CertificatesAssumption ==
    /\ IsFiniteSet(Keys) /\ MaxStarts \in Nat /\ Cardinality(Keys) >= MaxStarts
    /\ Absent \notin Keys /\ Torn \notin Keys /\ Absent # Torn

VARIABLES
    cert_file,         \* ca-cert.pem
    key_file,          \* ca-key.pem
    pc,
    cert,              \* ca_cert of each daemon
    key,               \* ca_key of each daemon, which signs leaf certificates
    used,              \* ghost: the keys generated so far
    authority,         \* ghost: the key of the daemon that ran last
    overlooked,        \* ghost: what the files held when a check failed
    starts             \* bound only

vars == <<cert_file, key_file, pc, cert, key, used, authority, overlooked, starts>>

Points == {"stopped", "check_cert", "check_key", "read_cert", "read_key", "generate", "open_key",
           "fill_key", "protect_key", "open_cert", "fill_cert", "bind", "running"}

Contents == Keys \cup {Absent, Torn}

(* A daemon that is about to listen has a pair that parses, whatever the   *)
(* files held (certificates.rs:56-69).                                     *)
TypeOK ==
    /\ cert_file \in Contents /\ key_file \in Contents
    /\ pc \in [Daemons -> Points]
    /\ cert \in [Daemons -> Contents] /\ key \in [Daemons -> Contents]
    /\ used \subseteq Keys
    /\ authority \in Keys \cup {Absent}
    /\ overlooked \subseteq Contents
    /\ starts \in 0 .. MaxStarts
    /\ \A d \in Daemons : pc[d] \in {"bind", "running"} => cert[d] \in Keys /\ key[d] \in Keys

Init ==
    /\ cert_file = Absent /\ key_file = Absent
    /\ pc = [d \in Daemons |-> "stopped"]
    /\ cert = [d \in Daemons |-> Absent] /\ key = [d \in Daemons |-> Absent]
    /\ used = {} /\ authority = Absent /\ overlooked = {}
    /\ starts = 0

Goto(d, point) == pc' = [pc EXCEPT ![d] = point]

(* A step that changes no file and no key.                                 *)
Moves(d, from, to) ==
    /\ pc[d] = from
    /\ Goto(d, to)
    /\ UNCHANGED <<cert_file, key_file, cert, key, used, authority, overlooked, starts>>

-----------------------------------------------------------------------------
Start(d) ==
    /\ pc[d] = "stopped" /\ starts < MaxStarts
    /\ starts' = starts + 1
    /\ Goto(d, "check_cert")
    /\ UNCHANGED <<cert_file, key_file, cert, key, used, authority, overlooked>>

(* Faulty: an authority is generated at every start.                       *)
CheckNothing(d) == Moves(d, "check_cert", "generate")

CheckCert(d) == Moves(d, "check_cert", IF cert_file = Absent THEN "generate" ELSE "check_key")

CheckKey(d) == Moves(d, "check_key", IF key_file = Absent THEN "generate" ELSE "read_cert")

(* exists() is false of a file that is there if its metadata cannot be     *)
(* read, for whatever reason.                                              *)
CheckFails(d) ==
    /\ \/ pc[d] = "check_cert" /\ cert_file # Absent
       \/ pc[d] = "check_key" /\ key_file # Absent
    /\ overlooked' = overlooked \cup {cert_file, key_file}
    /\ Goto(d, "generate")
    /\ UNCHANGED <<cert_file, key_file, cert, key, used, authority, starts>>

ReadCert(d) ==
    /\ pc[d] = "read_cert"
    /\ cert' = [cert EXCEPT ![d] = cert_file]
    /\ Goto(d, "read_key")
    /\ UNCHANGED <<cert_file, key_file, key, used, authority, overlooked, starts>>

ReadKeyThen(d, next) ==
    /\ pc[d] = "read_key"
    /\ key' = [key EXCEPT ![d] = key_file]
    /\ Goto(d, next)
    /\ UNCHANGED <<cert_file, key_file, cert, used, authority, overlooked, starts>>

(* Then both are parsed, and a torn one stops the daemon.  Nothing checks  *)
(* that they belong together.                                              *)
ReadKey(d) == ReadKeyThen(d, IF Torn \in {cert[d], key_file} THEN "stopped" ELSE "bind")

Generate(d) ==
    /\ pc[d] = "generate"
    /\ \E fresh \in Keys \ used :
          /\ used' = used \cup {fresh}
          /\ key' = [key EXCEPT ![d] = fresh]
          /\ cert' = [cert EXCEPT ![d] = fresh]
    /\ Goto(d, "open_key")
    /\ UNCHANGED <<cert_file, key_file, authority, overlooked, starts>>

(* One of the two steps of fs::write on either file.                       *)
WritesKey(d, from, to, content) ==
    /\ pc[d] = from
    /\ key_file' = content
    /\ Goto(d, to)
    /\ UNCHANGED <<cert_file, cert, key, used, authority, overlooked, starts>>

WritesCert(d, from, to, content) ==
    /\ pc[d] = from
    /\ cert_file' = content
    /\ Goto(d, to)
    /\ UNCHANGED <<key_file, cert, key, used, authority, overlooked, starts>>

OpenKey(d)    == WritesKey(d, "open_key", "fill_key", Torn)
FillKey(d)    == WritesKey(d, "fill_key", "protect_key", key[d])
ProtectKey(d) == Moves(d, "protect_key", "open_cert")
OpenCert(d)   == WritesCert(d, "open_cert", "fill_cert", Torn)
FillCert(d)   == WritesCert(d, "fill_cert", "bind", cert[d])

(* Faulty: the error of writing the key is not passed on.                  *)
WriteKeyFailsUnnoticed(d) ==
    \E from \in {"open_key", "fill_key", "protect_key"} : Moves(d, from, "open_cert")

WriteKeyFails(d) ==
    \E from \in {"open_key", "fill_key", "protect_key"} : Moves(d, from, "stopped")

(* Reading either file, or writing the certificate.                        *)
OtherwiseFails(d) ==
    \E from \in {"read_cert", "read_key", "open_cert", "fill_cert"} : Moves(d, from, "stopped")

(* Only one daemon gets the sockets; any other one stops.                  *)
Bind(d) ==
    /\ pc[d] = "bind" /\ \A e \in Daemons : pc[e] # "running"
    /\ authority' = key[d]
    /\ Goto(d, "running")
    /\ UNCHANGED <<cert_file, key_file, cert, key, used, overlooked, starts>>

BindFails(d) == Moves(d, "bind", "stopped")

Kill(d) == pc[d] # "stopped" /\ Moves(d, pc[d], "stopped")

-----------------------------------------------------------------------------
(* Only the bound on starts leaves the daemons stopped.                    *)
Quiescent ==
    /\ starts = MaxStarts /\ \A d \in Daemons : pc[d] = "stopped"
    /\ UNCHANGED vars

LoadOrCreate(d) ==
    \/ CheckCert(d) \/ CheckKey(d) \/ CheckFails(d)
    \/ ReadCert(d)  \/ ReadKey(d)
    \/ Generate(d)
    \/ OpenKey(d)   \/ FillKey(d)  \/ ProtectKey(d) \/ WriteKeyFails(d)
    \/ OpenCert(d)  \/ FillCert(d) \/ OtherwiseFails(d)

Next ==
    \/ \E d \in Daemons : Start(d) \/ LoadOrCreate(d) \/ Bind(d) \/ BindFails(d) \/ Kill(d)
    \/ Quiescent

Spec == Init /\ [][Next]_vars

-----------------------------------------------------------------------------
(* A daemon that intercepts has the pair that is in the files, so that a   *)
(* restart finds the same, and signs with the key of the certificate in    *)
(* ca-cert.pem, the one a user would import, whatever failed or was killed *)
(* before (certificates.rs:55-86).  The exception is a certificate that a  *)
(* failed check has overlooked: its key may have been replaced, and the    *)
(* daemon killed before the certificate was.                               *)
PairIsConsistent ==
    \A d \in Daemons : pc[d] = "running" =>
        /\ cert_file = cert[d] /\ key_file = key[d]
        /\ key[d] = cert[d] \/ cert[d] \in overlooked

(* A daemon that starts to listen signs with the key its predecessor had,  *)
(* unless a check failed while that key was in the files.                  *)
RestartKeepsAuthority ==
    [][ \A d \in Daemons :
            /\ pc[d] # "running" /\ pc'[d] = "running"
            /\ authority # Absent /\ authority \notin overlooked
            => key[d] = authority ]_vars

(* "The CA itself persists locally so a development device does not need   *)
(* to re-trust a new authority on every engine restart" (docs/TLS.md:52):  *)
(* if the files between two runs can be read, and no check of them failed, *)
(* they hold the key that was in use last.                                 *)
FilesKeepAuthority ==
    /\ \A d \in Daemons : pc[d] = "stopped"
    /\ authority # Absent /\ overlooked = {}
    /\ cert_file \in Keys /\ key_file \in Keys
    => key_file = authority

(* Once the certificate could be imported, no start writes either file     *)
(* again, unless a check has overlooked it: creating the authority over is *)
(* otherwise only for starts that never got as far as a whole certificate  *)
(* (certificates.rs:55).                                                   *)
AuthorityIsLeftAlone ==
    [][ (cert_file \in Keys \ overlooked) => UNCHANGED <<cert_file, key_file>> ]_vars
=============================================================================
