------------------------------ MODULE CertRotator ------------------------------
(***************************************************************************)
(* The certificate the server shows (certrotate.go), against a renewal     *)
(* that replaces its two files one after the other.  The times of change   *)
(* of the files are their generations.                                     *)
(***************************************************************************)
EXTENDS Naturals

CONSTANT MaxRenewals  \* how often the certificate is renewed

VARIABLES
  cert, key,  \* generations of the certificate file and the key file
  rotator,    \* CertRotator and its goroutine
  serving,    \* do the clients get answers?
  \* history
  overlooked  \* were the files renewed after the first load and before the monitor
              \* first looked at their times?

cvars == <<cert, key, rotator, serving, overlooked>>

Generations == 1 .. MaxRenewals + 1
Nothing     == [cert |-> 0, key |-> 0]
Pair        == [cert: Generations, key: Generations]
Rotator     == [at: {"off", "reading", "loaded", "failed", "watching", "noticed", "rereading"},
                pair: Pair \union {Nothing},   \* certificate
                read: Generations \union {0},  \* the certificate just read
                noted: Pair \union {Nothing},  \* the times just looked up
                last: Pair \union {Nothing}]   \* lastCertMod, lastKeyMod
Off         == [at |-> "off", pair |-> Nothing, read |-> 0, noted |-> Nothing, last |-> Nothing]
OnDisk      == [cert |-> cert, key |-> key]

Init == cert = 1 /\ key = 1 /\ rotator = Off /\ serving = FALSE /\ overlooked = FALSE

RenewCert ==
  /\ cert = key /\ cert <= MaxRenewals
  /\ cert' = cert + 1
  /\ UNCHANGED <<key, rotator, serving, overlooked>>

RenewKey ==
  /\ key < cert
  /\ key' = cert
  /\ UNCHANGED <<cert, rotator, serving, overlooked>>

-----------------------------------------------------------------------------
Start ==
  /\ rotator.at = "off"
  /\ rotator' = [rotator EXCEPT !.at = "reading", !.read = cert]
  /\ UNCHANGED <<cert, key, serving, overlooked>>

\* LoadX509KeyPair refuses a key that is not the certificate's.
Accepts == rotator.read = key

Loaded == [cert |-> rotator.read, key |-> key]

Load ==
  /\ rotator.at = "reading"
  /\ rotator' = IF Accepts THEN [rotator EXCEPT !.at = "loaded", !.pair = Loaded, !.read = 0]
                           ELSE [Off EXCEPT !.at = "failed"]
  /\ UNCHANGED <<cert, key, serving, overlooked>>

\* The monitor starts from the times it finds, not from those of what was loaded.
Watch ==
  /\ rotator.at = "loaded"
  /\ rotator' = [rotator EXCEPT !.at = "watching", !.last = OnDisk]
  /\ overlooked' = (OnDisk # rotator.pair)
  /\ UNCHANGED <<cert, key, serving>>

\* Mutant: only the certificate's time is watched, and noted at once.
TickOnCertificate ==
  /\ rotator.at = "watching" /\ cert # rotator.last.cert
  /\ rotator' = [rotator EXCEPT !.at = "noticed", !.noted = OnDisk, !.last = OnDisk]
  /\ UNCHANGED <<cert, key, serving, overlooked>>

Tick ==
  /\ rotator.at = "watching" /\ OnDisk # rotator.last
  /\ rotator' = [rotator EXCEPT !.at = "noticed", !.noted = OnDisk]
  /\ UNCHANGED <<cert, key, serving, overlooked>>

Read ==
  /\ rotator.at = "noticed"
  /\ rotator' = [rotator EXCEPT !.at = "rereading", !.read = cert]
  /\ UNCHANGED <<cert, key, serving, overlooked>>

\* Mutant: the times are looked up when the files have been read, and noted anyway.
ReloadNotingAlways ==
  /\ rotator.at = "rereading"
  /\ rotator' = [rotator EXCEPT !.at = "watching", !.read = 0, !.noted = Nothing,
                                !.pair = IF Accepts THEN Loaded ELSE @, !.last = OnDisk]
  /\ overlooked' = (overlooked /\ ~Accepts)
  /\ UNCHANGED <<cert, key, serving>>

\* The times are noted when the files have been loaded, and they are those of before.
Reload ==
  /\ rotator.at = "rereading"
  /\ rotator' = [rotator EXCEPT !.at = "watching", !.read = 0, !.noted = Nothing,
                                !.pair = IF Accepts THEN Loaded ELSE @,
                                !.last = IF Accepts THEN rotator.noted ELSE @]
  /\ overlooked' = (overlooked /\ ~Accepts)
  /\ UNCHANGED <<cert, key, serving>>

\* ListenAndServeTLS is given the files' names and loads them once more, for clients that
\* send no server name; the rotator is asked for the others.
Serve ==
  /\ rotator.at \in {"loaded", "watching", "noticed", "rereading"} /\ ~serving
  /\ cert = key
  /\ serving' = TRUE
  /\ UNCHANGED <<cert, key, rotator, overlooked>>

Stop ==
  /\ rotator' = Off /\ serving' = FALSE /\ overlooked' = FALSE
  /\ UNCHANGED <<cert, key>>

Monitor == Watch \/ Tick \/ Read \/ Reload
Renew   == RenewCert \/ RenewKey
=============================================================================
