------------------------------- MODULE TlsFiles -------------------------------
(***************************************************************************)
(* The self-signed certificate of a Runtime that listens (pairing.py:      *)
(* ensure_tls_files and what it calls).  Paired devices know the Runtime   *)
(* by the certificate's fingerprint, so the pair of files is made once and *)
(* used by every later start.  One process at a time starts, under the     *)
(* lock of the data directory; it may be killed between any two writes.    *)
(*                                                                         *)
(* A file holds what the start that wrote it generated, numbered; 0 stands *)
(* for a file that was opened and not yet written.                         *)
(***************************************************************************)
EXTENDS Naturals

CONSTANTS
    MaxStarts,  \* bound: starts
    None

VARIABLES
    key, cert,  \* the content of key.pem and cert.pem
    start,      \* the number of starts
    shown,      \* the fingerprint a listening Runtime showed last
    torn,       \* a start was killed while it wrote the files
    removed,    \* a file was removed since the fingerprint was shown
    pc

tlsVars == <<key, cert, start, shown, torn, removed, pc>>

Contents == 0 .. MaxStarts
Writing == {"key", "keyOpen", "cert", "certOpen"}

TypeOK ==
    /\ {key, cert, shown} \subseteq Contents \cup {None} /\ start \in 0 .. MaxStarts
    /\ {torn, removed} \subseteq BOOLEAN
    /\ pc \in {"off", "ensure", "load", "listening", "failed"} \cup Writing

Init ==
    /\ key = None /\ cert = None /\ start = 0 /\ shown = None
    /\ torn = FALSE /\ removed = FALSE /\ pc = "off"

Start ==
    /\ pc = "off" /\ start < MaxStarts
    /\ start' = start + 1 /\ pc' = "ensure"
    /\ UNCHANGED <<key, cert, shown, torn, removed>>

\* Slip: a file that is there is kept, and the other one written.
FirstMissing == IF key = None THEN "key" ELSE IF cert = None THEN "cert" ELSE "load"

\* Slip: every start makes its own.
FirstAlways == "key"

\* Both are used, or both are made.
FirstStep == IF key # None /\ cert # None THEN "load" ELSE "key"

EnsureTlsFiles ==
    /\ pc = "ensure" /\ pc' = FirstStep
    /\ UNCHANGED <<key, cert, start, shown, torn, removed>>

\* _write_secret opens the file with O_TRUNC, and then writes.
WriteKey ==
    /\ \/ pc = "key" /\ key' = 0 /\ pc' = "keyOpen"
       \/ pc = "keyOpen" /\ key' = start /\ pc' = "cert"
    /\ UNCHANGED <<cert, start, shown, torn, removed>>

WriteCert ==
    /\ \/ pc = "cert" /\ cert' = 0 /\ pc' = "certOpen"
       \/ pc = "certOpen" /\ cert' = start /\ pc' = "load"
    /\ UNCHANGED <<key, start, shown, torn, removed>>

\* prepare_listen: the fingerprint and load_cert_chain, which wants a key that
\* is the certificate's.
PrepareListen ==
    /\ pc = "load"
    /\ IF key = cert /\ cert # 0
       THEN pc' = "listening" /\ shown' = cert /\ removed' = FALSE
       ELSE pc' = "failed" /\ UNCHANGED <<shown, removed>>
    /\ UNCHANGED <<key, cert, start, torn>>

Stop ==
    /\ pc \in {"listening", "failed"} /\ pc' = "off"
    /\ UNCHANGED <<key, cert, start, shown, torn, removed>>

Kill ==
    /\ pc \in {"ensure", "load"} \cup Writing /\ pc' = "off"
    /\ torn' = (torn \/ pc \in {"keyOpen", "cert", "certOpen"})
    /\ UNCHANGED <<key, cert, start, shown, removed>>

\* Someone, a reset for one, removes a file of a Runtime that is off.
Remove ==
    /\ pc = "off" /\ removed' = TRUE
    /\ \/ key # None /\ key' = None /\ UNCHANGED cert
       \/ cert # None /\ cert' = None /\ UNCHANGED key
    /\ UNCHANGED <<start, shown, torn, pc>>

Next ==
    Start \/ EnsureTlsFiles \/ WriteKey \/ WriteCert \/ PrepareListen \/ Stop \/ Kill \/ Remove

Spec == Init /\ [][Next]_tlsVars

----------------------------------------------------------------------------
\* A start fails for the sake of its certificate only where an earlier one was
\* killed amid writing it: a removed file, whichever, is made up for, with a
\* pair that fits (ensure_tls_files).
FailsTornOnly == pc = "failed" => torn

\* As long as both files stay, every start shows the fingerprint that devices
\* have paired with, however starts failed or were killed in between.
FingerprintStays ==
    [][shown # None /\ shown' # shown => removed]_tlsVars

\* A start fails for its certificate only after one that was killed amid writing
\* it.
TlsFilesSafe == TypeOK /\ FailsTornOnly
=============================================================================
