----------------------------- MODULE Deployment -----------------------------
(***************************************************************************)
(* What surrounds the server, put together.  The endpoint is started       *)
(* either with certificates of its own, and then a vehicle with a          *)
(* certificate of Tesla sends a message, or an operator asks the control   *)
(* plane for the endpoint's health; or with a bundle that the command      *)
(* made, and then a device of the bundle connects.  The clients share no   *)
(* state in the server, so one of them at a time is enough.                *)
(***************************************************************************)
EXTENDS CertTools, DataPath, ControlPlane

VARIABLE client      \* none, vehicle, operator, device

deploymentVars == <<toolVars, pathVars, planeVars, client>>

DeploymentInit ==
  /\ ToolsInit
  /\ PathInit
  /\ PlaneInit /\ endpoint = "down"
  /\ client = "none"

MakeBundle ==
  /\ client = "none"
  /\ GenerateCertificateBundle
  /\ UNCHANGED <<pathVars, planeVars, client>>

\* An endpoint is started with a bundle only when that is finished.
ClientComes(c) ==
  /\ client = "none"
  /\ toolPc = IF c = "device" THEN "done" ELSE "idle"
  /\ client' = c
  /\ UNCHANGED <<toolVars, pathVars, planeVars>>

VehicleStep ==
  /\ client = "vehicle"
  /\ PathNext
  /\ UNCHANGED <<toolVars, planeVars, client>>

\* A client certificate of the bundle and its key.  The handshake needs both,
\* and verifies the certificate against the CA the server was given.
BundleConnections ==
  {[cert |-> certFile[f][1], verified |-> certFile[f][1].pair = keyFile[f][1] /\ certFile[f][1].ca = TrustedCA] :
     f \in {f \in Files : certFile[f] # Nothing /\ keyFile[f] # Nothing /\ certFile[f][1].usage = "client"}}

\* A device of the bundle connects.  What it sends then takes the way of any
\* vehicle's messages, in which the bundle has no part.
DeviceStep ==
  /\ client = "device"
  /\ \E c \in BundleConnections : Connect(c)
  /\ UNCHANGED <<toolVars, planeVars, client>>

OperatorStep ==
  /\ client = "operator"
  /\ PlaneNext
  /\ UNCHANGED <<toolVars, pathVars, client>>

DeploymentNext ==
  \/ MakeBundle
  \/ \E c \in {"vehicle", "operator", "device"} : ClientComes(c)
  \/ VehicleStep
  \/ DeviceStep
  \/ OperatorStep

DeploymentSpec == DeploymentInit /\ [][DeploymentNext]_deploymentVars

\* A device whose certificate and key are whole files of a finished bundle is
\* let in, if the file of the CA is whole too; and the device is the one that
\* its file is named after, unless its name is empty or ends in " CA", so that
\* getCertFilename names the file otherwise (getCertFilename and
\* extractIdentityFromConnection read the same identity).
BundleDevicesConnect ==
  client = "device" /\ tls # << >> /\ TrustedCA # 0 =>
     /\ stage # "refused"
     /\ \/ ident.deviceID = EmptyName \/ EndsInCA(ident.deviceID)
        \/ SenderIDOf(ident) \in Files /\ certFile[SenderIDOf(ident)] = <<tls[1].cert>>
=============================================================================
