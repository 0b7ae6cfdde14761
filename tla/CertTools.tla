----------------------------- MODULE CertTools -----------------------------
(***************************************************************************)
(* The command that makes a bundle of test certificates (tools/main.go,    *)
(* tools/lib/certs.go).  A run makes a new CA, then a certificate per      *)
(* server and per client, saving each pair as it is made, and the CA last. *)
(* A pair is written to two temporary files, whose write errors are        *)
(* ignored, and saved by copying these to two files, each created          *)
(* (truncated), filled and closed, where the error of the closing is       *)
(* ignored; any other failure is log.Fatal, which ends the command where   *)
(* it stands.  It can be run again over what it left.                      *)
(***************************************************************************)
EXTENDS Identity

CONSTANTS ClientCaName,   \* -client-ca-name
          ServerIDs,      \* -server-ids, as common names
          ClientIDs,      \* -client-ids
          BoardIDs,       \* those with the prefix "board"
          CASuffixed,     \* the parts of names that end in " CA"
          MaxRuns         \* bound: how often the command is run

VARIABLES run,       \* the number of the run; each has its own CA
          toolPc,    \* idle, running between pairs, cert, saved, key, done, failed
          jobs,      \* the certificates still to make
          certFile,  \* file name -> what <name>.cert holds
          keyFile    \* file name -> what <name>.key holds

toolVars == <<run, toolPc, jobs, certFile, keyFile>>

\* A certificate of run n.  The fields Identity does not read are the CA that
\* signed it, whose key it certifies, and what it may be used for.
Certificate(n, cn, usage) ==
  [issuer |-> ClientCaName, cn |-> cn, oids |-> << >>, usage |-> usage,
   ou |-> IF usage = "client" /\ cn \in BoardIDs THEN <<"Tesla Motors SN">> ELSE << >>,
   ca |-> n, pair |-> <<n, cn, usage>>]

RootName == <<<<ClientCaName>>>>
CAName == <<<<"CA">>>>
EmptyName == <<<<"">>>>

\* strings.HasSuffix(clientName, " CA"), of a name without dots.
EndsInCA(name) == Last(name[1]) \in CASuffixed

\* getCertFilename: the type and the name, which becomes "CA" if it ends in
\* " CA", whoever's name it is, and is left out if it is empty.
GetCertFilename(cert) ==
  LET id == CreateIdentityFromCert(cert) IN
  <<id.clientType>> \o (IF id.deviceID = EmptyName THEN << >>
                        ELSE IF EndsInCA(id.deviceID) THEN CAName ELSE id.deviceID)

\* strings.Split of the two flags, and the root.
Jobs == [i \in 1..Len(ServerIDs) |-> <<ServerIDs[i], "server">>]
        \o [i \in 1..Len(ClientIDs) |-> <<ClientIDs[i], "client">>]
        \o << <<RootName, "ca">> >>

FileOf(job) == GetCertFilename(Certificate(0, job[1], job[2]))

\* A certificate without a client type ends the command in getCertFilename.
HasType(job) == CreateIdentityFromCert(Certificate(0, job[1], job[2])).err = "none"

\* IDs may share a file name: the later pair then replaces the earlier.
ASSUME ToolAssumption ==
  /\ Len(ServerIDs) \in Nat /\ Len(ClientIDs) \in Nat
  /\ MaxRuns \in Nat
  /\ knownIssuers \cap CASuffixed = knownIssuers \ {"TeslaMotors"}

Files == {FileOf(Jobs[i]) : i \in DOMAIN Jobs}
Nothing == << >>     \* no file, or one that is not whole

ToolsInit ==
  /\ run = 0
  /\ toolPc = "idle"
  /\ jobs = << >>
  /\ certFile = [f \in Files |-> Nothing]
  /\ keyFile = [f \in Files |-> Nothing]

\* A bundle that only adds what is missing from the directory.
GenerateRootSigningCertMissing ==
  /\ toolPc \in {"idle", "failed", "done"}
  /\ run < MaxRuns
  /\ run' = run + 1
  /\ jobs' = SelectSeq(Jobs, LAMBDA j : certFile[FileOf(j)] = Nothing)
  /\ toolPc' = "running"
  /\ UNCHANGED <<certFile, keyFile>>

\* main up to the root certificate, which is kept in memory until the end.
GenerateRootSigningCert ==
  /\ toolPc \in {"idle", "failed", "done"}
  /\ run < MaxRuns
  /\ run' = run + 1
  /\ jobs' = Jobs
  /\ toolPc' = "running"
  /\ UNCHANGED <<certFile, keyFile>>

Job == Head(jobs)

\* A pair is generated and named, and os.Create truncates the file of its
\* certificate.
CreateCert ==
  /\ toolPc = "running" /\ jobs # << >>
  /\ HasType(Job)
  /\ certFile' = [certFile EXCEPT ![FileOf(Job)] = Nothing]
  /\ toolPc' = "cert"
  /\ UNCHANGED <<run, jobs, keyFile>>

\* What a copy leaves in a file: all of it, or less if pem.Encode or one of
\* the closings failed, of which nobody hears.
Copied(content) == {<<content>>, Nothing}

\* The certificate is copied, and its original removed.
CopyCert ==
  /\ toolPc = "cert"
  /\ \E c \in Copied(Certificate(run, Job[1], Job[2])) : certFile' = [certFile EXCEPT ![FileOf(Job)] = c]
  /\ toolPc' = "saved"
  /\ UNCHANGED <<run, jobs, keyFile>>

\* os.Create truncates the file of the key.
CreateKey ==
  /\ toolPc = "saved"
  /\ keyFile' = [keyFile EXCEPT ![FileOf(Job)] = Nothing]
  /\ toolPc' = "key"
  /\ UNCHANGED <<run, jobs, certFile>>

CopyKey ==
  /\ toolPc = "key"
  /\ \E c \in Copied(Certificate(run, Job[1], Job[2]).pair) : keyFile' = [keyFile EXCEPT ![FileOf(Job)] = c]
  /\ jobs' = Tail(jobs)
  /\ toolPc' = "running"
  /\ UNCHANGED <<run, certFile>>

ToolEnds ==
  /\ toolPc = "running" /\ jobs = << >>
  /\ toolPc' = "done"
  /\ UNCHANGED <<run, jobs, certFile, keyFile>>

\* log.Fatal of any step, or the command is killed.
Fatal ==
  /\ toolPc \in {"running", "cert", "saved", "key"}
  /\ toolPc' = "failed"
  /\ jobs' = << >>
  /\ UNCHANGED <<run, certFile, keyFile>>

GenerateCertificateBundle ==
  \/ GenerateRootSigningCert \/ CreateCert \/ CopyCert \/ CreateKey \/ CopyKey \/ ToolEnds \/ Fatal

\* The CA the bundle's peers trust: the one in the file of the CA; 0 if that
\* file is not whole.
TrustedCA == LET f == FileOf(<<RootName, "ca">>) IN IF certFile[f] = Nothing THEN 0 ELSE certFile[f][1].ca

\* A certificate and a key that are both whole are a pair, and a certificate
\* verifies against the CA, if that is whole.
GoTogether(f) ==
  certFile[f] # Nothing =>
    /\ keyFile[f] # Nothing => certFile[f][1].pair = keyFile[f][1]
    /\ TrustedCA # 0 => certFile[f][1].ca = TrustedCA

\* A run of the command that ended leaves no mixture: whatever files are whole
\* go together, certificates with their keys and with the CA that was saved,
\* whatever runs that were cut short before it left in the directory, which
\* writes were lost, and whichever IDs share a file (generateCertificateBundle,
\* SaveCerts).
BundleConsistent == toolPc = "done" => \A f \in Files : GoTogether(f)
=============================================================================
