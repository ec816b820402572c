------------------------------ MODULE SecretFiles ------------------------------
(* Secrets that are made on first use and must then stay the same: the hub's   *)
(* root (a certificate and a key file) and a device's signing identity (one    *)
(* file).  Processes that start together race through the same steps, and may  *)
(* die between any two of them.  A new secret is named by the attempt that     *)
(* generated it.                                                               *)
EXTENDS Integers

CONSTANTS HubStarts, DeviceStarts,   \* processes
          MaxCrashes, MaxAttempts

VARIABLES file,           \* the files
          at,             \* the next step of each process
          fresh,          \* the secret it has generated, if any
          got,            \* what `ensure' returned to it
          attempts, crashes

secretVars == <<file, at, fresh, got, attempts, crashes>>

Starts == HubStarts \cup DeviceStarts
Files == {"ca-cert", "ca-key", "identity"}
NoSecret == 0        \* an empty file, or no answer yet
Missing == -1
Failed == -1

SecretInit ==
  /\ file = [f \in Files |-> Missing]
  /\ at = [p \in Starts |-> "off"]
  /\ fresh = [p \in Starts |-> NoSecret]
  /\ got = [p \in Starts |-> NoSecret]
  /\ attempts = 0 /\ crashes = 0

Exists(f) == file[f] # Missing

\* The step at which a created file is written.
Writing == [f \in Files |-> CASE f = "ca-cert"  -> "write ca-cert"
                             [] f = "ca-key"   -> "write ca-key"
                             [] f = "identity" -> "write identity"]

Return(p, result) ==
  /\ at' = [at EXCEPT ![p] = "done"]
  /\ got' = [got EXCEPT ![p] = result]

Launch(p) ==
  /\ at[p] = "off"
  /\ attempts < MaxAttempts
  /\ attempts' = attempts + 1
  /\ at' = [at EXCEPT ![p] = IF p \in HubStarts THEN "ca" ELSE "id"]
  /\ fresh' = [fresh EXCEPT ![p] = attempts + 1]
  /\ got' = [got EXCEPT ![p] = NoSecret]
  /\ UNCHANGED <<file, crashes>>

(* HubCa::ensure: both files are loaded, neither makes a new root, one of the  *)
(* two is refused.  The hub starts serving only if the key parses.             *)
Whole == Exists("ca-cert") /\ Exists("ca-key")
None == ~Exists("ca-cert") /\ ~Exists("ca-key")

EnsureRoot(p) ==
  /\ at[p] = "ca"
  /\ IF Whole
     THEN Return(p, IF file["ca-key"] = NoSecret \/ file["ca-cert"] # file["ca-key"]
                    THEN Failed ELSE file["ca-key"])
     ELSE IF None THEN at' = [at EXCEPT ![p] = "ca-cert"] /\ UNCHANGED got
     ELSE Return(p, Failed)
  /\ UNCHANGED <<file, fresh, attempts, crashes>>

(* file_fallback::ensure of an identity. *)
EnsureIdentity(p) ==
  /\ at[p] = "id"
  /\ IF Exists("identity")
     THEN Return(p, IF file["identity"] = NoSecret THEN Failed ELSE file["identity"])
     ELSE at' = [at EXCEPT ![p] = "identity"] /\ UNCHANGED got
  /\ UNCHANGED <<file, fresh, attempts, crashes>>

\* fault: create(true) for create_new(true)
MayCreate_Truncating(f) == TRUE
MayCreate(f) == ~Exists(f)

(* create_new(true): the file appears empty, or the process gives up. *)
CreateFile(p, f) ==
  /\ at[p] = f
  /\ IF MayCreate(f)
     THEN /\ file' = [file EXCEPT ![f] = NoSecret]
          /\ at' = [at EXCEPT ![p] = Writing[f]]
          /\ UNCHANGED got
     ELSE Return(p, Failed) /\ UNCHANGED file
  /\ UNCHANGED <<fresh, attempts, crashes>>

WriteFile(p, f) ==
  /\ at[p] = Writing[f]
  /\ file' = [file EXCEPT ![f] = fresh[p]]
  /\ IF f = "ca-cert" THEN at' = [at EXCEPT ![p] = "ca-key"] /\ UNCHANGED got
     ELSE Return(p, fresh[p])
  /\ UNCHANGED <<fresh, attempts, crashes>>

Exit(p) ==
  /\ at[p] = "done"
  /\ at' = [at EXCEPT ![p] = "off"]
  /\ UNCHANGED <<file, fresh, got, attempts, crashes>>

Die(p) ==
  /\ at[p] \notin {"off", "done"}
  /\ crashes < MaxCrashes
  /\ crashes' = crashes + 1
  /\ at' = [at EXCEPT ![p] = "off"]
  /\ UNCHANGED <<file, fresh, got, attempts>>

SecretNext ==
  \E p \in Starts :
    \/ Launch(p) \/ EnsureRoot(p) \/ EnsureIdentity(p) \/ Exit(p) \/ Die(p)
    \/ \E f \in Files : CreateFile(p, f) \/ WriteFile(p, f)

SecretSpec == SecretInit /\ [][SecretNext]_secretVars

-----------------------------------------------------------------------------

(* "Idempotent: a second call loads the same root rather than minting a second *)
(* one, which matters because every device certificate already issued chains   *)
(* to whichever root is on disk": no two starts, however they race and die,    *)
(* ever come back with different secrets, and what the files hold, once one    *)
(* start has come back with it, is it.                                         *)
OneSecret ==
  \A group \in {HubStarts, DeviceStarts} : \A p, q \in group :
    /\ got[p] > 0 /\ got[q] > 0 => got[p] = got[q]
    /\ got[p] > 0 =>
         \A f \in IF group = HubStarts THEN {"ca-cert", "ca-key"} ELSE {"identity"} :
           file[f] = got[p]

=============================================================================
