----------------------------- MODULE HostProofs -----------------------------
(***************************************************************************)
(* Proofs about the host stack, for any set of kernels, sources, bundles,  *)
(* sizes and apertures, and an application that calls the host API, the    *)
(* runtime and the driver in any order.                                    *)
(***************************************************************************)
EXTENDS HostRuntime, TLAPS, WellFoundedInduction

(***************************************************************************)
(* Launches.  A polling call is always told from none by its name, and a   *)
(* driver that is configured never shows between calls.                    *)
(***************************************************************************)
CallTypes == call = NoCall \/ call \in [op : {"launch", "runtime_launch", "sync"}, polled : BOOLEAN]

ExecSettled ==
    /\ g_exec_state \in {"IDLE", "RUNNING", "COMPLETED", "FAILED"}
    /\ g_exec_state = "RUNNING" => Fpga
    /\ Idle /\ last.ran \in {"driver", "backend"} => g_exec_state = "COMPLETED"

ArgumentsFresh ==
    g_staged_args \in Nat /\ staged_since \in Nat /\ g_staged_args <= staged_since

LaunchIInv == CallTypes /\ ExecSettled /\ ArgumentsFresh

LEMMA PolledCall ==
    ASSUME CallTypes, call # NoCall, NEW b \in BOOLEAN
    PROVE  [call EXCEPT !.polled = b] \in [op : {"launch", "runtime_launch", "sync"}, polled : BOOLEAN]
           /\ [call EXCEPT !.polled = b].op = call.op
  BY DEF CallTypes

LEMMA CallNotNone ==
    ASSUME NEW x \in [op : {"launch", "runtime_launch", "sync"}, polled : BOOLEAN]
    PROVE  x # NoCall
  BY DEF NoCall

\* What the execution state of the driver goes through in a launch.
LEMMA ExecStates ==
    ASSUME ConfigureLaunch
    PROVE  /\ BeginKernelExecution("CONFIGURED") = "RUNNING"
           /\ StartKernel("CONFIGURED") = "COMPLETED"
           /\ FinishKernelExecution("RUNNING", TRUE) = "COMPLETED"
           /\ \A s : FinishKernelExecution(s, FALSE) = "FAILED"
  BY DEF ConfigureLaunch, BeginKernelExecution, StartKernel, FinishKernelExecution

LEMMA QuietLaunchInv ==
    ASSUME LaunchIInv, UNCHANGED <<build, g_exec_state, g_staged_args, staged_since, call, last>>
    PROVE  LaunchIInv'
  BY DEF LaunchIInv, CallTypes, ExecSettled, ArgumentsFresh, Fpga, Idle

\* A call that returns without having stepped the driver.
LEMMA OtherLaunchInv ==
    ASSUME LaunchIInv, NEW op, NEW ok, Returns(op, ok, "nothing"), UNCHANGED <<build, g_exec_state>>,
           \/ UNCHANGED <<g_staged_args, staged_since>>
           \/ g_staged_args' = 0 /\ staged_since' = 0
           \/ g_staged_args' = g_staged_args + 1 /\ staged_since' = staged_since + 1
    PROVE  LaunchIInv'
<1>1. CallTypes' /\ ExecSettled'
  BY DEF LaunchIInv, CallTypes, ExecSettled, Fpga, Idle, Returns
<1>2. ArgumentsFresh'
  BY DEF LaunchIInv, ArgumentsFresh
<1> QED BY <1>1, <1>2 DEF LaunchIInv

LEMMA LaunchKernelInv ==
    ASSUME LaunchIInv, NEW op \in {"launch", "runtime_launch"}, NEW n, GpgpuLaunchKernel(op, n)
    PROVE  LaunchIInv'
<1>1. CASE LaunchMissingPtx(op, n)
  BY <1>1, OtherLaunchInv DEF LaunchMissingPtx, LaunchRejected, apiUnchanged, loaderVars
<1>2. CASE LaunchSimulated(op, n)
  <2>1. g_exec_state' = "COMPLETED" /\ call' = NoCall /\ g_staged_args' = 0 /\ staged_since' = 0
    BY <1>2, ExecStates DEF LaunchSimulated, Consume, Returns
  <2> QED BY <2>1 DEF LaunchIInv, CallTypes, ExecSettled, ArgumentsFresh, Fpga, Idle
<1>3. CASE LaunchOnFpga(op, n)
  <2>1. UNCHANGED <<build, g_staged_args, staged_since>> /\ Fpga /\ ConfigureLaunch
    BY <1>3 DEF LaunchOnFpga
  <2>2. \/ /\ g_exec_state' = BeginKernelExecution("CONFIGURED")
           /\ call' = [op |-> op, polled |-> FALSE]
        \/ /\ g_exec_state' = FinishKernelExecution(BeginKernelExecution("CONFIGURED"), FALSE)
           /\ Returns(op, FALSE, "nothing")
    BY <1>3 DEF LaunchOnFpga
  <2>3. CASE g_exec_state' = "RUNNING" /\ call' = [op |-> op, polled |-> FALSE]
    <3>1. call' \in [op : {"launch", "runtime_launch", "sync"}, polled : BOOLEAN]
      BY <2>3
    <3>2. call' # NoCall
      BY <3>1, CallNotNone
    <3> QED BY <2>1, <2>3, <3>1, <3>2 DEF LaunchIInv, CallTypes, ExecSettled, ArgumentsFresh, Fpga, Idle
  <2>4. CASE g_exec_state' = "FAILED" /\ Returns(op, FALSE, "nothing")
    BY <2>1, <2>4 DEF LaunchIInv, CallTypes, ExecSettled, ArgumentsFresh, Fpga, Idle, Returns
  <2> QED BY <2>1, <2>2, <2>3, <2>4, ExecStates
<1>4. CASE LaunchPtxFails(op, n)
  <2>1. g_exec_state' = "FAILED"
    BY <1>4, ExecStates DEF LaunchPtxFails, NoBackendState
  <2>2. Returns(op, FALSE, "nothing") /\ g_staged_args' = 0 /\ staged_since' = 0
    BY <1>4 DEF LaunchPtxFails
  <2> QED BY <2>1, <2>2 DEF LaunchIInv, CallTypes, ExecSettled, ArgumentsFresh, Fpga, Idle, Returns
<1>5. CASE LaunchPtx(op, n)
  <2>1. PICK executed \in BOOLEAN :
          /\ g_exec_state' = FinishKernelExecution(BeginKernelExecution("CONFIGURED"), executed)
          /\ Returns(op, executed, IF executed THEN "backend" ELSE "nothing")
    BY <1>5 DEF LaunchPtx
  <2>2. ConfigureLaunch /\ g_staged_args' = 0 /\ staged_since' = 0
    BY <1>5 DEF LaunchPtx
  <2>3. CASE executed = TRUE
    <3>1. g_exec_state' = "COMPLETED" /\ call' = NoCall
      BY <2>1, <2>2, <2>3, ExecStates DEF Returns
    <3> QED BY <2>2, <3>1 DEF LaunchIInv, CallTypes, ExecSettled, ArgumentsFresh, Fpga, Idle
  <2>4. CASE executed = FALSE
    <3>1. g_exec_state' = "FAILED" /\ call' = NoCall /\ last'.ran = "nothing"
      BY <2>1, <2>2, <2>4, ExecStates DEF Returns
    <3> QED BY <2>2, <3>1 DEF LaunchIInv, CallTypes, ExecSettled, ArgumentsFresh, Fpga, Idle
  <2> QED BY <2>3, <2>4
<1> QED BY <1>1, <1>2, <1>3, <1>4, <1>5 DEF GpgpuLaunchKernel

LEMMA PollingLaunchInv ==
    ASSUME LaunchIInv, Polling
    PROVE  LaunchIInv'
<1> USE DEF LaunchIInv, CallTypes, ExecSettled, ArgumentsFresh, Fpga, Idle
<1>1. ASSUME NEW b \in BOOLEAN, call # NoCall, call' = [call EXCEPT !.polled = b],
             UNCHANGED <<build, last, g_exec_state, g_staged_args, staged_since>>
      PROVE  LaunchIInv'
  <2>1. call' \in [op : {"launch", "runtime_launch", "sync"}, polled : BOOLEAN]
    BY <1>1, PolledCall
  <2>2. call' # NoCall
    BY <2>1, CallNotNone
  <2> QED BY <1>1, <2>1, <2>2
<1>2. CASE PollRunning
  <2>1. call # NoCall /\ UNCHANGED <<build, g_exec_state>>
    BY <1>2 DEF PollRunning, loaderVars
  <2>2. \/ call' = [call EXCEPT !.polled = TRUE] /\ UNCHANGED <<last, g_staged_args, staged_since>>
        \/ call' = NoCall /\ last'.ran = "fpga" /\ g_staged_args' = 0 /\ staged_since' = 0
    BY <1>2 DEF PollRunning, Consume, Returns
  <2>3. CASE call' = [call EXCEPT !.polled = TRUE] /\ UNCHANGED <<last, g_staged_args, staged_since>>
    BY <1>1, <2>1, <2>3
  <2>4. CASE call' = NoCall /\ last'.ran = "fpga" /\ g_staged_args' = 0 /\ staged_since' = 0
    BY <2>1, <2>4
  <2> QED BY <2>2, <2>3, <2>4
<1>3. CASE PollAgain
  BY <1>1, <1>3 DEF PollAgain, loaderVars, apiUnchanged
<1>4. CASE LaunchDeadline
  <2>1. /\ UNCHANGED build /\ call' = NoCall
        /\ \/ /\ g_staged_args' = 0 /\ staged_since' = 0
              /\ UNCHANGED g_exec_state /\ last'.ran = "fpga"
           \/ /\ UNCHANGED <<g_staged_args, staged_since>>
              /\ g_exec_state' = "FAILED" /\ last'.ran = "nothing"
    BY <1>4 DEF LaunchDeadline, Consume, Returns, FinishKernelExecution
  <2> QED BY <2>1
<1>5. CASE PollDone
  <2>1. call # NoCall /\ UNCHANGED <<build, g_staged_args, staged_since>>
    BY <1>5 DEF PollDone
  <2>2. \/ call' = [call EXCEPT !.polled = TRUE] /\ UNCHANGED <<last, g_exec_state>>
        \/ call' = NoCall /\ last'.ran = "nothing" /\ g_exec_state' \in {"COMPLETED", "FAILED"}
    BY <1>5 DEF PollDone, Returns, FinishKernelExecution
  <2> QED BY <1>1, <2>1, <2>2
<1>6. CASE SyncDeadline
  <2>1. /\ UNCHANGED <<build, g_staged_args, staged_since>> /\ call' = NoCall
        /\ last'.ran = "nothing" /\ g_exec_state' = "FAILED"
    BY <1>6 DEF SyncDeadline, Returns, FinishKernelExecution, apiUnchanged
  <2> QED BY <2>1
<1> QED BY <1>2, <1>3, <1>4, <1>5, <1>6 DEF Polling

LEMMA ApiCallLaunchInv ==
    ASSUME LaunchIInv, ApiCall
    PROVE  LaunchIInv'
<1>1. ASSUME NEW size, GpgpuMalloc(size) PROVE LaunchIInv'
  BY <1>1, OtherLaunchInv DEF GpgpuMalloc, Done, apiUnchanged, loaderVars
<1>2. ASSUME NEW a, NEW size, GpgpuMemcpyH2D(a, size) PROVE LaunchIInv'
  BY <1>2, OtherLaunchInv DEF GpgpuMemcpyH2D, Done, apiUnchanged, loaderVars
<1>3. ASSUME NEW a, GpgpuFree(a) PROVE LaunchIInv'
  BY <1>3, OtherLaunchInv DEF GpgpuFree, Done, apiUnchanged, loaderVars
<1>4. CASE SetKernelArgument \/ ClearKernelArguments
  BY <1>4, OtherLaunchInv DEF SetKernelArgument, ClearKernelArguments, Done, loaderVars
<1>5. CASE InstallKernelExecutionBackend
  BY <1>5, QuietLaunchInv DEF InstallKernelExecutionBackend, loaderVars
<1>6. CASE LaunchRejected("launch")
  BY <1>6, OtherLaunchInv DEF LaunchRejected, apiUnchanged, loaderVars
<1>7. CASE \E n \in Names : GpgpuLaunchKernel("launch", n)
  BY <1>7, LaunchKernelInv
<1>8. CASE SynchronizeSimulated
  BY <1>8, OtherLaunchInv DEF SynchronizeSimulated, apiUnchanged, loaderVars
<1>9. CASE SynchronizeFpga
  <2>1. UNCHANGED <<build, g_exec_state, g_staged_args, staged_since>>
    BY <1>9 DEF SynchronizeFpga, apiUnchanged, loaderVars
  <2>2. CASE Returns("sync", FALSE, "nothing")
    BY <2>1, <2>2, OtherLaunchInv
  <2>3. CASE call' = [op |-> "sync", polled |-> FALSE]
    <3>1. call' \in [op : {"launch", "runtime_launch", "sync"}, polled : BOOLEAN]
      BY <2>3
    <3>2. call' # NoCall
      BY <3>1, CallNotNone
    <3> QED BY <2>1, <3>1, <3>2 DEF LaunchIInv, CallTypes, ExecSettled, ArgumentsFresh, Fpga, Idle
  <2> QED BY <1>9, <2>2, <2>3 DEF SynchronizeFpga
<1>10. CASE OpenOrClose \/ Reset
  BY <1>10, OtherLaunchInv DEF OpenOrClose, Reset, Done, apiUnchanged, loaderVars
<1> QED BY <1>1, <1>2, <1>3, <1>4, <1>5, <1>6, <1>7, <1>8, <1>9, <1>10 DEF ApiCall

LEMMA NextLaunchInv == LaunchIInv /\ [Next]_vars => LaunchIInv'
<1> SUFFICES ASSUME LaunchIInv, [Next]_vars PROVE LaunchIInv'
  OBVIOUS
<1>1. CASE UNCHANGED vars
  BY <1>1, QuietLaunchInv DEF vars, apiVars, loaderVars
<1>2. CASE Device
  BY <1>2, QuietLaunchInv DEF Device, apiVars, loaderVars
<1>3. ASSUME NEW n, NEW src, AppRegisterPtx(n, src) PROVE LaunchIInv'
  BY <1>3, OtherLaunchInv DEF AppRegisterPtx, GpgpuRegisterPtx, Done, loaderVars
<1>4. ASSUME NEW n, AppUnregisterPtx(n) PROVE LaunchIInv'
  BY <1>4, OtherLaunchInv DEF AppUnregisterPtx, GpgpuUnregisterPtx, Done, loaderVars
<1>5. CASE AppShutdown
  BY <1>5, OtherLaunchInv DEF AppShutdown, ShutdownHostAPI, Done, loaderVars
<1>6. ASSUME NEW m, UploadFails(m) PROVE LaunchIInv'
  BY <1>6, OtherLaunchInv DEF UploadFails, Done, apiUnchanged, loaderVars
<1>7. ASSUME NEW m, Upload(m) PROVE LaunchIInv'
  <2>1. UNCHANGED <<build, g_staged_args, staged_since>> /\ Returns("other", TRUE, "nothing")
    BY <1>7 DEF Upload, Done
  <2>2. UNCHANGED g_exec_state \/ g_exec_state' = "IDLE"
    BY <1>7 DEF Upload, LoadKernelBinary
  <2> QED BY <2>1, <2>2 DEF LaunchIInv, CallTypes, ExecSettled, ArgumentsFresh, Fpga, Idle, Returns
<1>8. CASE UnloadKernelBundle
  BY <1>8, OtherLaunchInv DEF UnloadKernelBundle, Done, loaderVars
<1>9. ASSUME NEW n, LaunchRefused(n) PROVE LaunchIInv'
  BY <1>9, OtherLaunchInv DEF LaunchRefused, LaunchRejected, apiUnchanged, loaderVars
<1>10. ASSUME NEW n, LaunchPtxBundle(n) PROVE LaunchIInv'
  <2>1. CASE LaunchRejected("runtime_launch")
    BY <2>1, OtherLaunchInv DEF LaunchRejected, apiUnchanged, loaderVars
  <2> QED BY <1>10, <2>1, LaunchKernelInv DEF LaunchPtxBundle
<1>11. ASSUME NEW n, LaunchElfBundle(n) PROVE LaunchIInv'
  <2>1. g_exec_state' = "COMPLETED" /\ call' = NoCall /\ UNCHANGED <<build, g_staged_args, staged_since>>
    BY <1>11, ExecStates DEF LaunchElfBundle, Returns, apiUnchanged
  <2> QED BY <2>1 DEF LaunchIInv, CallTypes, ExecSettled, ArgumentsFresh, Fpga, Idle
<1> QED BY <1>1, <1>2, <1>3, <1>4, <1>5, <1>6, <1>7, <1>8, <1>9, <1>10, <1>11,
           ApiCallLaunchInv, PollingLaunchInv DEF Next

(***************************************************************************)
(* Every path through gpgpuLaunchKernel() and the runtime's launch         *)
(* (host_api.cpp:164) leaves the driver settled, and arguments that a      *)
(* launch has used up are not staged any more, whatever the application    *)
(* interleaves.  A launch the FPGA refuses keeps its arguments             *)
(* (host_api.cpp:200-203), one of an ELF bundle takes none.                *)
(***************************************************************************)
THEOREM LaunchProof == Spec => []LaunchInv
<1>1. Init => LaunchIInv
  BY DEF Init, LoaderInit, ApiInit, LaunchIInv, CallTypes, ExecSettled, ArgumentsFresh, NoCall
<1>2. LaunchIInv => LaunchInv
  BY DEF LaunchIInv, ExecSettled, ArgumentsFresh, LaunchInv, LaunchSettles, NoArgumentReuse
<1> QED BY <1>1, <1>2, NextLaunchInv, PTL DEF Spec
-----------------------------------------------------------------------------
(***************************************************************************)
(* The PTX registry.  A PTX bundle's name stays required, so no launch of  *)
(* it takes the path of a kernel without PTX; and the runtime holds no     *)
(* name the application had registered before.                             *)
(***************************************************************************)
PtxBundle == current.format = "ptx" /\ ~shut

RegistryIInv ==
    /\ CallTypes
    /\ PtxBundle => current.name \in g_required_ptx
    /\ PtxBundle => call.op # "runtime_launch"
    /\ current.owned => current.name \notin DOMAIN app_ptx \ exposed
    /\ PtxBundleRunsAsPtx /\ PtxSourcesKept

LEMMA OtherRegistryInv ==
    ASSUME RegistryIInv, UNCHANGED <<g_registered_ptx, g_required_ptx>>,
           UNCHANGED <<current, app_ptx, exposed, touched, shut>>,
           CallTypes', PtxBundle => call'.op # "runtime_launch",
           UNCHANGED last \/ last'.op # "runtime_launch" \/ last'.ok = FALSE \/ ~PtxBundle
           \/ last'.ran = "backend"
    PROVE  RegistryIInv'
<1>1. PtxBundleRunsAsPtx' /\ PtxSourcesKept'
  BY DEF RegistryIInv, PtxBundle, PtxBundleRunsAsPtx, PtxSourcesKept
<1>2. PtxBundle' <=> PtxBundle
  BY DEF PtxBundle
<1> QED BY <1>1, <1>2 DEF RegistryIInv

LEMMA ReturnsRegistryInv ==
    ASSUME RegistryIInv, UNCHANGED <<g_registered_ptx, g_required_ptx>>,
           UNCHANGED <<current, app_ptx, exposed, touched, shut>>,
           NEW op, NEW ok, NEW ran, Returns(op, ok, ran),
           op # "runtime_launch" \/ ok = FALSE \/ ~PtxBundle \/ ran = "backend"
    PROVE  RegistryIInv'
<1>1. call' = NoCall /\ last' = [op |-> op, ok |-> ok, ran |-> ran]
  BY DEF Returns
<1>2. call'.op # "runtime_launch" /\ CallTypes'
  BY <1>1 DEF NoCall, CallTypes
<1>3. last'.op = op /\ last'.ok = ok /\ last'.ran = ran
  BY <1>1
<1> QED BY <1>2, <1>3, OtherRegistryInv

LEMMA LaunchKernelRegistry ==
    ASSUME RegistryIInv, NEW op \in {"launch", "runtime_launch"}, NEW n,
           op = "runtime_launch" => n = current.name,
           GpgpuLaunchKernel(op, n), UNCHANGED runtimeVars
    PROVE  RegistryIInv'
<1> USE DEF runtimeVars
<1>1. CASE LaunchMissingPtx(op, n)
  BY <1>1, ReturnsRegistryInv DEF LaunchMissingPtx, LaunchRejected, apiUnchanged
<1>2. CASE LaunchSimulated(op, n)
  <2>1. op = "runtime_launch" => ~PtxBundle
    BY <1>2 DEF LaunchSimulated, MissingPtx, RegistryIInv
  <2>2. Returns(op, TRUE, "driver") /\ UNCHANGED <<g_registered_ptx, g_required_ptx>>
    BY <1>2 DEF LaunchSimulated
  <2> QED BY <2>1, <2>2, ReturnsRegistryInv
<1>3. CASE LaunchOnFpga(op, n)
  <2>1. op = "runtime_launch" => ~PtxBundle
    BY <1>3 DEF LaunchOnFpga, MissingPtx, RegistryIInv
  <2>2. UNCHANGED <<g_registered_ptx, g_required_ptx>>
    BY <1>3 DEF LaunchOnFpga
  <2>3. CASE Returns(op, FALSE, "nothing")
    BY <2>2, <2>3, ReturnsRegistryInv
  <2>4. CASE call' = [op |-> op, polled |-> FALSE] /\ UNCHANGED last
    <3>1. call' \in [op : {"launch", "runtime_launch", "sync"}, polled : BOOLEAN] /\ call'.op = op
      BY <2>4
    <3>2. CallTypes' /\ (PtxBundle => call'.op # "runtime_launch")
      BY <2>1, <3>1 DEF CallTypes
    <3> QED BY <2>2, <2>4, <3>2, OtherRegistryInv
  <2> QED BY <1>3, <2>3, <2>4 DEF LaunchOnFpga
<1>4. CASE LaunchPtxFails(op, n)
  BY <1>4, ReturnsRegistryInv DEF LaunchPtxFails
<1>5. CASE LaunchPtx(op, n)
  <2>1. PICK executed \in BOOLEAN : Returns(op, executed, IF executed THEN "backend" ELSE "nothing")
    BY <1>5 DEF LaunchPtx
  <2>2. UNCHANGED <<g_registered_ptx, g_required_ptx>>
    BY <1>5 DEF LaunchPtx
  <2>3. CASE executed = TRUE
    <3>1. Returns(op, TRUE, "backend")
      BY <2>1, <2>3
    <3> QED BY <2>2, <3>1, ReturnsRegistryInv
  <2>4. CASE executed = FALSE
    <3>1. Returns(op, FALSE, "nothing")
      BY <2>1, <2>4
    <3> QED BY <2>2, <3>1, ReturnsRegistryInv
  <2> QED BY <2>3, <2>4
<1> QED BY <1>1, <1>2, <1>3, <1>4, <1>5 DEF GpgpuLaunchKernel

LEMMA PollingRegistry ==
    ASSUME RegistryIInv, Polling, UNCHANGED runtimeVars
    PROVE  RegistryIInv'
<1> USE DEF runtimeVars
<1>1. call # NoCall /\ UNCHANGED <<g_registered_ptx, g_required_ptx>>
  BY DEF Polling, PollRunning, PollAgain, LaunchDeadline, PollDone, SyncDeadline, apiUnchanged
<1>2. ASSUME NEW b \in BOOLEAN, call' = [call EXCEPT !.polled = b], UNCHANGED last PROVE RegistryIInv'
  <2>1. call' \in [op : {"launch", "runtime_launch", "sync"}, polled : BOOLEAN] /\ call'.op = call.op
    BY <1>1, <1>2, PolledCall DEF RegistryIInv
  <2>2. CallTypes' /\ (PtxBundle => call'.op # "runtime_launch")
    BY <2>1 DEF CallTypes, RegistryIInv
  <2> QED BY <1>1, <1>2, <2>2, OtherRegistryInv
<1>3. ASSUME Returns(call.op, TRUE, "fpga") PROVE RegistryIInv'
  <2>1. call.op # "runtime_launch" \/ ~PtxBundle
    BY DEF RegistryIInv
  <2> QED BY <1>1, <1>3, <2>1, ReturnsRegistryInv
<1>4. ASSUME Returns(call.op, FALSE, "nothing") PROVE RegistryIInv'
  BY <1>1, <1>4, ReturnsRegistryInv
<1>5. ASSUME NEW ok, Returns("sync", ok, "nothing") PROVE RegistryIInv'
  BY <1>1, <1>5, ReturnsRegistryInv
<1>6. CASE PollRunning
  BY <1>2, <1>3, <1>6 DEF PollRunning
<1>7. CASE PollAgain
  BY <1>2, <1>7 DEF PollAgain
<1>8. CASE LaunchDeadline
  BY <1>3, <1>4, <1>8 DEF LaunchDeadline
<1>9. CASE PollDone
  BY <1>2, <1>5, <1>9 DEF PollDone
<1>10. CASE SyncDeadline
  BY <1>5, <1>10 DEF SyncDeadline
<1> QED BY <1>6, <1>7, <1>8, <1>9, <1>10 DEF Polling

LEMMA ApiCallRegistry ==
    ASSUME RegistryIInv, ApiCall, UNCHANGED runtimeVars
    PROVE  RegistryIInv'
<1> USE DEF runtimeVars
<1>1. ASSUME NEW size, GpgpuMalloc(size) PROVE RegistryIInv'
  BY <1>1, ReturnsRegistryInv DEF GpgpuMalloc, Done, apiUnchanged
<1>2. ASSUME NEW a, NEW size, GpgpuMemcpyH2D(a, size) PROVE RegistryIInv'
  BY <1>2, ReturnsRegistryInv DEF GpgpuMemcpyH2D, Done, apiUnchanged
<1>3. ASSUME NEW a, GpgpuFree(a) PROVE RegistryIInv'
  BY <1>3, ReturnsRegistryInv DEF GpgpuFree, Done, apiUnchanged
<1>4. CASE SetKernelArgument \/ ClearKernelArguments
  BY <1>4, ReturnsRegistryInv DEF SetKernelArgument, ClearKernelArguments, Done
<1>5. CASE InstallKernelExecutionBackend
  <2>1. UNCHANGED <<g_registered_ptx, g_required_ptx, call, last>>
    BY <1>5 DEF InstallKernelExecutionBackend
  <2>2. CallTypes' /\ (PtxBundle => call'.op # "runtime_launch")
    BY <2>1 DEF CallTypes, RegistryIInv
  <2> QED BY <2>1, <2>2, OtherRegistryInv
<1>6. CASE LaunchRejected("launch")
  BY <1>6, ReturnsRegistryInv DEF LaunchRejected, apiUnchanged
<1>7. CASE \E n \in Names : GpgpuLaunchKernel("launch", n)
  BY <1>7, LaunchKernelRegistry
<1>8. CASE SynchronizeSimulated
  BY <1>8, ReturnsRegistryInv DEF SynchronizeSimulated, apiUnchanged
<1>9. CASE SynchronizeFpga
  <2>1. UNCHANGED <<g_registered_ptx, g_required_ptx>>
    BY <1>9 DEF SynchronizeFpga, apiUnchanged
  <2>2. CASE Returns("sync", FALSE, "nothing")
    BY <2>1, <2>2, ReturnsRegistryInv
  <2>3. CASE call' = [op |-> "sync", polled |-> FALSE] /\ UNCHANGED last
    <3>1. call' \in [op : {"launch", "runtime_launch", "sync"}, polled : BOOLEAN] /\ call'.op = "sync"
      BY <2>3
    <3>2. CallTypes' /\ call'.op # "runtime_launch"
      BY <3>1 DEF CallTypes
    <3> QED BY <2>1, <2>3, <3>2, OtherRegistryInv
  <2> QED BY <1>9, <2>2, <2>3 DEF SynchronizeFpga
<1>10. CASE OpenOrClose \/ Reset
  BY <1>10, ReturnsRegistryInv DEF OpenOrClose, Reset, Done, apiUnchanged
<1> QED BY <1>1, <1>2, <1>3, <1>4, <1>5, <1>6, <1>7, <1>8, <1>9, <1>10 DEF ApiCall

LEMMA UploadRegistry ==
    ASSUME RegistryIInv, NEW m, Upload(m)
    PROVE  RegistryIInv'
<1>1. /\ call' = NoCall /\ last'.op = "other" /\ UNCHANGED app_ptx
      /\ UNCHANGED exposed
      /\ current' = [loaded |-> TRUE, name |-> m.kernel_name, format |-> m.format,
                     owned |-> m.format = "ptx",
                     source |-> IF m.format = "ptx" THEN Files[m.path].source ELSE ""]
  BY DEF Upload, Done, Returns
<1>2. /\ current'.name = m.kernel_name /\ current'.format = m.format
      /\ current'.owned <=> m.format = "ptx"
      /\ m.format = "ptx" => current'.source = Files[m.path].source
  BY <1>1
<1>3. CallTypes' /\ call'.op # "runtime_launch" /\ PtxBundleRunsAsPtx'
  BY <1>1 DEF CallTypes, NoCall, PtxBundleRunsAsPtx
<1>4. PtxBundle' => current'.name \in g_required_ptx'
  <2> SUFFICES ASSUME m.format = "ptx" PROVE m.kernel_name \in g_required_ptx'
    BY <1>2 DEF PtxBundle
  <2> QED BY DEF Upload
<1>5. m.format = "ptx" => m.kernel_name \notin DOMAIN app_ptx \ exposed
  <2> SUFFICES ASSUME m.format = "ptx", m.kernel_name \in DOMAIN app_ptx \ exposed PROVE FALSE
    OBVIOUS
  <2>1. m.kernel_name \in DOMAIN g_registered_ptx
    BY DEF RegistryIInv, PtxSourcesKept
  <2>2. current.owned /\ current.name = m.kernel_name
    BY <2>1 DEF Upload, Uploadable, OwnerCheck
  <2> QED BY <2>2 DEF RegistryIInv
<1>6. ASSUME NEW x \in DOMAIN app_ptx \ exposed
      PROVE  x \in DOMAIN g_registered_ptx' /\ g_registered_ptx'[x] = app_ptx[x]
  <2>1. x \in DOMAIN g_registered_ptx /\ g_registered_ptx[x] = app_ptx[x]
    BY DEF RegistryIInv, PtxSourcesKept
  <2>2. current.owned => x # current.name
    BY DEF RegistryIInv
  <2>3. CASE m.format = "ptx"
    <3>1. PICK gone : /\ gone \in {{}, {current.name}} /\ (gone # {} => current.owned)
                      /\ g_registered_ptx' = [k \in DOMAIN Registered(m.kernel_name, Files[m.path].source) \ gone
                              |-> Registered(m.kernel_name, Files[m.path].source)[k]]
      BY <2>3 DEF Upload
    <3>2. x # m.kernel_name /\ x \notin gone
      BY <1>5, <2>2, <2>3, <3>1
    <3> QED BY <2>1, <3>1, <3>2 DEF Registered
  <2>4. CASE m.format # "ptx"
    <3>1. PICK gone : /\ gone \in {{}, {current.name}} /\ (gone # {} => current.owned)
                      /\ g_registered_ptx' = [k \in DOMAIN g_registered_ptx \ gone |-> g_registered_ptx[k]]
      BY <2>4 DEF Upload
    <3>2. x \notin gone
      BY <2>2, <3>1
    <3> QED BY <2>1, <3>1, <3>2
  <2> QED BY <2>3, <2>4
<1>7. ASSUME m.format = "ptx"
      PROVE  /\ m.kernel_name \in DOMAIN g_registered_ptx'
             /\ g_registered_ptx'[m.kernel_name] = Files[m.path].source
  <2>1. PICK gone : /\ gone = IF current.owned /\ ~(m.format = "ptx" /\ current.name = m.kernel_name)
                              THEN {current.name} ELSE {}
                    /\ g_registered_ptx' = [k \in DOMAIN Registered(m.kernel_name, Files[m.path].source) \ gone
                            |-> Registered(m.kernel_name, Files[m.path].source)[k]]
    BY <1>7 DEF Upload
  <2>2. m.kernel_name \notin gone
    BY <1>7, <2>1
  <2> QED BY <2>1, <2>2 DEF Registered
<1>8. PtxSourcesKept'
  BY <1>1, <1>2, <1>6, <1>7 DEF PtxSourcesKept
<1> QED BY <1>1, <1>2, <1>3, <1>4, <1>5, <1>8 DEF RegistryIInv

LEMMA NextRegistry == RegistryIInv /\ [Next]_vars => RegistryIInv'
<1> SUFFICES ASSUME RegistryIInv, [Next]_vars PROVE RegistryIInv'
  OBVIOUS
<1>1. ASSUME UNCHANGED <<apiVars, runtimeVars>> PROVE RegistryIInv'
  <2>1. UNCHANGED <<g_registered_ptx, g_required_ptx, call, last>> /\ UNCHANGED <<current, app_ptx, exposed, touched, shut>>
    BY <1>1 DEF apiVars, runtimeVars
  <2>2. CallTypes' /\ (PtxBundle => call'.op # "runtime_launch")
    BY <2>1 DEF CallTypes, RegistryIInv
  <2> QED BY <2>1, <2>2, OtherRegistryInv
<1>2. CASE UNCHANGED vars
  BY <1>1, <1>2 DEF vars
<1>3. CASE Device /\ UNCHANGED runtimeVars
  BY <1>1, <1>3 DEF Device
<1>4. ASSUME NEW n, NEW src, AppRegisterPtx(n, src) PROVE RegistryIInv'
  <2>1. /\ call' = NoCall /\ last'.op = "other" /\ UNCHANGED <<current, shut, g_required_ptx>>
        /\ g_registered_ptx' = Registered(n, src)
        /\ app_ptx' = [x \in DOMAIN app_ptx \cup {n} |-> IF x = n THEN src ELSE app_ptx[x]]
        /\ exposed' = (IF RuntimeHolds(n) THEN exposed \cup {n} ELSE exposed \ {n})
        /\ touched' = (touched \/ RuntimeHolds(n))
    BY <1>4 DEF AppRegisterPtx, GpgpuRegisterPtx, Done, Returns
  <2>2. CallTypes' /\ call'.op # "runtime_launch" /\ PtxBundleRunsAsPtx'
    BY <2>1 DEF CallTypes, NoCall, PtxBundleRunsAsPtx
  <2>3. PtxBundle' => current'.name \in g_required_ptx'
    BY <2>1 DEF PtxBundle, RegistryIInv
  <2>4. ASSUME NEW x \in DOMAIN app_ptx' \ exposed'
        PROVE  x \in DOMAIN g_registered_ptx' /\ g_registered_ptx'[x] = app_ptx'[x]
    BY <2>1, <2>4 DEF RegistryIInv, PtxSourcesKept, Registered
  <2>5. ASSUME current.owned, ~touched'
        PROVE  /\ current.name \in DOMAIN g_registered_ptx'
               /\ g_registered_ptx'[current.name] = current.source
    BY <2>1, <2>5 DEF RegistryIInv, PtxSourcesKept, Registered, RuntimeHolds
  <2>6. current'.owned => current'.name \notin DOMAIN app_ptx' \ exposed'
    BY <2>1 DEF RegistryIInv, RuntimeHolds
  <2>7. PtxSourcesKept'
    BY <2>1, <2>4, <2>5 DEF PtxSourcesKept
  <2> QED BY <2>2, <2>3, <2>6, <2>7 DEF RegistryIInv
<1>5. ASSUME NEW n, AppUnregisterPtx(n) PROVE RegistryIInv'
  <2>1. /\ call' = NoCall /\ last'.op = "other" /\ UNCHANGED <<current, shut, g_required_ptx>>
        /\ g_registered_ptx' = Unregistered(n)
        /\ app_ptx' = [x \in DOMAIN app_ptx \ {n} |-> app_ptx[x]]
        /\ exposed' = exposed \ {n} /\ touched' = (touched \/ RuntimeHolds(n))
    BY <1>5 DEF AppUnregisterPtx, GpgpuUnregisterPtx, Done, Returns
  <2>2. CallTypes' /\ call'.op # "runtime_launch" /\ PtxBundleRunsAsPtx'
    BY <2>1 DEF CallTypes, NoCall, PtxBundleRunsAsPtx
  <2>3. PtxBundle' => current'.name \in g_required_ptx'
    BY <2>1 DEF PtxBundle, RegistryIInv
  <2>4. PtxSourcesKept'
    BY <2>1 DEF RegistryIInv, PtxSourcesKept, Unregistered, RuntimeHolds
  <2>5. current'.owned => current'.name \notin DOMAIN app_ptx' \ exposed'
    BY <2>1 DEF RegistryIInv
  <2> QED BY <2>2, <2>3, <2>4, <2>5 DEF RegistryIInv
<1>6. CASE AppShutdown
  <2>1. /\ call' = NoCall /\ last'.op = "other" /\ shut' = TRUE /\ app_ptx' = << >>
        /\ touched' = current.owned /\ UNCHANGED current
    BY <1>6 DEF AppShutdown, ShutdownHostAPI, Done, Returns
  <2>2. DOMAIN app_ptx' = {}
    BY <2>1
  <2>3. CallTypes' /\ call'.op # "runtime_launch" /\ PtxBundleRunsAsPtx' /\ ~PtxBundle'
    BY <2>1 DEF CallTypes, NoCall, PtxBundleRunsAsPtx, PtxBundle
  <2>4. PtxSourcesKept'
    BY <2>1, <2>2 DEF PtxSourcesKept
  <2> QED BY <2>2, <2>3, <2>4 DEF RegistryIInv
<1>7. ASSUME NEW m, UploadFails(m) PROVE RegistryIInv'
  BY <1>7, ReturnsRegistryInv DEF UploadFails, Done, apiUnchanged, runtimeVars
<1>8. CASE UnloadKernelBundle
  <2>1. /\ call' = NoCall /\ last'.op = "other" /\ current' = NoBundle
        /\ UNCHANGED <<app_ptx, exposed>>
        /\ \A x \in DOMAIN g_registered_ptx : (current.owned => x # current.name) =>
               x \in DOMAIN g_registered_ptx' /\ g_registered_ptx'[x] = g_registered_ptx[x]
    BY <1>8 DEF UnloadKernelBundle, Done, Returns
  <2>2. CallTypes' /\ call'.op # "runtime_launch" /\ PtxBundleRunsAsPtx'
    BY <2>1 DEF CallTypes, NoCall, PtxBundleRunsAsPtx
  <2>3. ~PtxBundle' /\ ~current'.owned
    BY <2>1 DEF PtxBundle, NoBundle
  <2>4. PtxSourcesKept'
    BY <2>1, <2>3 DEF RegistryIInv, PtxSourcesKept
  <2> QED BY <2>2, <2>3, <2>4 DEF RegistryIInv
<1>9. ASSUME NEW n, LaunchRefused(n) PROVE RegistryIInv'
  BY <1>9, ReturnsRegistryInv DEF LaunchRefused, LaunchRejected, apiUnchanged, runtimeVars
<1>10. ASSUME NEW n, LaunchPtxBundle(n) PROVE RegistryIInv'
  <2>1. CASE LaunchRejected("runtime_launch")
    BY <1>10, <2>1, ReturnsRegistryInv DEF LaunchPtxBundle, LaunchRejected, apiUnchanged, runtimeVars
  <2> QED BY <1>10, <2>1, LaunchKernelRegistry DEF LaunchPtxBundle
<1>11. ASSUME NEW n, LaunchElfBundle(n) PROVE RegistryIInv'
  <2>1. ~PtxBundle
    BY <1>11 DEF LaunchElfBundle, PtxBundle
  <2> QED BY <1>11, <2>1, ReturnsRegistryInv DEF LaunchElfBundle, apiUnchanged, runtimeVars
<1> QED BY <1>2, <1>3, <1>4, <1>5, <1>6, <1>7, <1>8, <1>9, <1>10, <1>11,
           ApiCallRegistry, PollingRegistry, UploadRegistry DEF Next

LEMMA InitRegistry == Init => RegistryIInv
<1> SUFFICES ASSUME Init PROVE RegistryIInv
  OBVIOUS
<1>1. /\ call = NoCall /\ last.op = "other" /\ current = NoBundle /\ app_ptx = << >>
  BY DEF Init, ApiInit
<1>2. DOMAIN app_ptx = {}
  BY <1>1
<1>3. ~PtxBundle /\ ~current.owned
  BY <1>1 DEF PtxBundle, NoBundle
<1> QED BY <1>1, <1>2, <1>3 DEF RegistryIInv, CallTypes, PtxBundleRunsAsPtx, PtxSourcesKept

(***************************************************************************)
(* The PTX registry, for any application and any bundles.  A PTX bundle is *)
(* executed as PTX or not at all until the host API is shut down, also     *)
(* when the application unregisters its name (gpgpuRequireRegisteredPtx,   *)
(* host_runtime.cpp:113).  Under names that only one of them uses at a     *)
(* time, application and runtime keep their sources: bundles that come and *)
(* go take no source the application registered while the runtime did not  *)
(* hold the name, and a bundle keeps its own while the application leaves  *)
(* the name alone (host_runtime.cpp:83-100, 126-128).  It says nothing of  *)
(* a source registered under a name the runtime holds, which the next      *)
(* unload erases (AppPtxKept).                                             *)
(***************************************************************************)
THEOREM PtxRegistryProof == Spec => []PtxRegistryInv
<1>1. RegistryIInv => PtxRegistryInv
  BY DEF RegistryIInv, PtxRegistryInv
<1> QED BY <1>1, InitRegistry, NextRegistry, PTL DEF Spec
-----------------------------------------------------------------------------
(***************************************************************************)
(* gpgpuSynchronize().  A START is only pending inside the launch that     *)
(* wrote it, and one that was ignored leaves the device in ERROR, where    *)
(* no synchronize succeeds.                                                *)
(***************************************************************************)
DeviceTypes ==
    /\ dev = [status |-> dev.status, start |-> dev.start, run |-> dev.run, wanted |-> dev.wanted]
    /\ dev.status \in {"IDLE", "RUNNING", "DONE", "ERROR"} /\ dev.start \in BOOLEAN
    /\ dev.wanted \in {"none", "waiting", "running", "ended"}

StartPending == dev.start => call.op \in {"launch", "runtime_launch"} /\ dev.status # "RUNNING"

WantedFate ==
    /\ dev.wanted = "waiting" /\ ~dev.start => dev.status = "ERROR"
    /\ dev.wanted = "running" => dev.status = "RUNNING"

NothingOutstanding ==
    ~outstanding => ~dev.start /\ dev.status # "RUNNING" /\ dev.wanted \in {"none", "ended"}

SyncIInv ==
    /\ CallTypes /\ DeviceTypes /\ StartPending /\ WantedFate /\ NothingOutstanding
    /\ ~Fpga => ~outstanding
    /\ Idle /\ last.op = "sync" /\ last.ok => ~outstanding

LEMMA IdleNoStart ==
    ASSUME SyncIInv, Idle PROVE ~dev.start
  BY DEF SyncIInv, StartPending, Idle, NoCall

\* A call that leaves the device alone returns.
LEMMA ReturnsSync ==
    ASSUME SyncIInv, UNCHANGED <<build, dev, outstanding>>, ~dev.start,
           NEW op, NEW ok, NEW ran, Returns(op, ok, ran), op # "sync" \/ ok = FALSE \/ ~Fpga
    PROVE  SyncIInv'
<1>1. call' = NoCall /\ last'.op = op /\ last'.ok = ok
  BY DEF Returns
<1>2. CallTypes' /\ DeviceTypes' /\ WantedFate' /\ NothingOutstanding' /\ (~Fpga => ~outstanding)'
  BY <1>1 DEF SyncIInv, CallTypes, DeviceTypes, WantedFate, NothingOutstanding, Fpga
<1>3. StartPending'
  BY DEF StartPending
<1> QED BY <1>1, <1>2, <1>3 DEF SyncIInv, Fpga

\* Nothing returns, and a call in progress keeps its name.
LEMMA KeepsSync ==
    ASSUME SyncIInv, UNCHANGED <<build, dev, outstanding, last>>, CallTypes',
           Idle' => Idle, dev.start => call'.op = call.op
    PROVE  SyncIInv'
<1>1. DeviceTypes' /\ WantedFate' /\ NothingOutstanding' /\ (~Fpga => ~outstanding)'
  BY DEF SyncIInv, DeviceTypes, WantedFate, NothingOutstanding, Fpga
<1>2. StartPending'
  BY DEF SyncIInv, StartPending
<1> QED BY <1>1, <1>2 DEF SyncIInv

LEMMA LaunchKernelSync ==
    ASSUME WAITS, SyncIInv, NEW op \in {"launch", "runtime_launch"}, NEW n, GpgpuLaunchKernel(op, n)
    PROVE  SyncIInv'
<1>1. Idle /\ ~dev.start /\ ~outstanding /\ UNCHANGED build
  BY IdleNoStart DEF GpgpuLaunchKernel, LaunchMissingPtx, LaunchRejected, LaunchSimulated,
     LaunchOnFpga, LaunchPtxFails, LaunchPtx, MayLaunch, apiUnchanged
<1>2. CASE LaunchMissingPtx(op, n)
  BY <1>1, <1>2, ReturnsSync DEF LaunchMissingPtx, LaunchRejected, apiUnchanged, fpgaVars
<1>3. CASE LaunchSimulated(op, n)
  BY <1>1, <1>3, ReturnsSync DEF LaunchSimulated, fpgaVars
<1>4. CASE LaunchOnFpga(op, n)
  <2>1. CASE UNCHANGED <<dev, outstanding>> /\ Returns(op, FALSE, "nothing")
    BY <1>1, <2>1, ReturnsSync
  <2>2. CASE StartDevice /\ outstanding' = TRUE /\ call' = [op |-> op, polled |-> FALSE]
    <3>1. dev' = [dev EXCEPT !.start = TRUE, !.wanted = "waiting"]
      BY <2>2 DEF StartDevice
    <3>2. /\ dev' = [status |-> dev.status, start |-> TRUE, run |-> dev.run, wanted |-> "waiting"]
      BY <3>1 DEF SyncIInv, DeviceTypes
    <3>3. DeviceTypes' /\ WantedFate' /\ NothingOutstanding'
      BY <2>2, <3>2 DEF SyncIInv, DeviceTypes, WantedFate, NothingOutstanding
    <3>4. call' \in [op : {"launch", "runtime_launch", "sync"}, polled : BOOLEAN] /\ call'.op = op
      BY <2>2
    <3>5. CallTypes' /\ ~Idle'
      BY <3>4, CallNotNone DEF CallTypes, Idle
    <3>6. StartPending'
      BY <1>1, <3>2, <3>4 DEF StartPending, SyncIInv, NothingOutstanding
    <3>7. Fpga'
      BY <1>1, <1>4 DEF LaunchOnFpga, Fpga
    <3> QED BY <3>3, <3>5, <3>6, <3>7 DEF SyncIInv
  <2> QED BY <1>4, <2>1, <2>2 DEF LaunchOnFpga
<1>5. CASE LaunchPtxFails(op, n)
  BY <1>1, <1>5, ReturnsSync DEF LaunchPtxFails, fpgaVars
<1>6. CASE LaunchPtx(op, n)
  BY <1>1, <1>6, ReturnsSync DEF LaunchPtx, fpgaVars
<1> QED BY <1>2, <1>3, <1>4, <1>5, <1>6 DEF GpgpuLaunchKernel

LEMMA PollingSync ==
    ASSUME SyncIInv, Polling
    PROVE  SyncIInv'
<1>1. ASSUME NEW b \in BOOLEAN, call # NoCall, call' = [call EXCEPT !.polled = b],
             UNCHANGED <<build, dev, outstanding, last>>
      PROVE  SyncIInv'
  <2>1. call' \in [op : {"launch", "runtime_launch", "sync"}, polled : BOOLEAN] /\ call'.op = call.op
    BY <1>1, PolledCall DEF SyncIInv
  <2>2. CallTypes' /\ ~Idle'
    BY <2>1, CallNotNone DEF CallTypes, Idle
  <2> QED BY <1>1, <2>1, <2>2, KeepsSync
<1>2. CASE PollRunning
  <2>1. call # NoCall /\ call.op # "sync" /\ UNCHANGED <<build, dev, outstanding>>
    BY <1>2 DEF PollRunning, fpgaVars
  <2>2. CASE dev.status = "RUNNING"
    <3>1. ~dev.start /\ Returns(call.op, TRUE, "fpga")
      BY <1>2, <2>2 DEF PollRunning, SyncIInv, StartPending
    <3> QED BY <2>1, <3>1, ReturnsSync
  <2>3. CASE dev.status # "RUNNING"
    BY <1>1, <1>2, <2>1, <2>3 DEF PollRunning
  <2> QED BY <2>2, <2>3
<1>3. CASE PollAgain
  BY <1>1, <1>3 DEF PollAgain, apiUnchanged, fpgaVars
<1>4. CASE LaunchDeadline
  <2>1. call.op # "sync" /\ ~dev.start /\ UNCHANGED <<build, dev, outstanding>>
    BY <1>4 DEF LaunchDeadline, fpgaVars
  <2> QED BY <1>4, <2>1, ReturnsSync DEF LaunchDeadline
<1>5. CASE PollDone
  <2>1. call # NoCall /\ call.op = "sync" /\ UNCHANGED <<build, dev>>
    BY <1>5 DEF PollDone, fpgaVars
  <2>2. ~dev.start
    BY <2>1 DEF SyncIInv, StartPending
  <2>3. CASE dev.status = "DONE"
    <3>1. ~outstanding' /\ call' = NoCall
      BY <1>5, <2>3 DEF PollDone, Returns
    <3>2. dev.wanted \in {"none", "ended"}
      BY <2>2, <2>3 DEF SyncIInv, DeviceTypes, WantedFate
    <3>3. CallTypes' /\ DeviceTypes' /\ WantedFate' /\ NothingOutstanding' /\ StartPending'
      BY <2>1, <2>2, <2>3, <3>1, <3>2 DEF SyncIInv, CallTypes, DeviceTypes, WantedFate,
         NothingOutstanding, StartPending
    <3> QED BY <3>1, <3>3 DEF SyncIInv
  <2>4. CASE dev.status # "DONE"
    BY <1>1, <1>5, <2>1, <2>4 DEF PollDone
  <2> QED BY <2>3, <2>4
<1>6. CASE SyncDeadline
  <2>1. ~dev.start /\ UNCHANGED <<build, dev, outstanding>> /\ Returns("sync", FALSE, "nothing")
    BY <1>6 DEF SyncDeadline, SyncIInv, StartPending, apiUnchanged, fpgaVars
  <2> QED BY <2>1, ReturnsSync
<1> QED BY <1>2, <1>3, <1>4, <1>5, <1>6 DEF Polling

LEMMA ApiCallSync ==
    ASSUME WAITS, SyncIInv, ApiCall
    PROVE  SyncIInv'
<1>1. ASSUME NEW size, GpgpuMalloc(size) PROVE SyncIInv'
  BY <1>1, IdleNoStart, ReturnsSync DEF GpgpuMalloc, AllocateBuffer, Done, apiUnchanged, fpgaVars
<1>2. ASSUME NEW a, NEW size, GpgpuMemcpyH2D(a, size) PROVE SyncIInv'
  BY <1>2, IdleNoStart, ReturnsSync DEF GpgpuMemcpyH2D, CopyToDevice, Done, apiUnchanged, fpgaVars
<1>3. ASSUME NEW a, GpgpuFree(a) PROVE SyncIInv'
  BY <1>3, IdleNoStart, ReturnsSync DEF GpgpuFree, FreeBuffer, Done, apiUnchanged, fpgaVars
<1>4. CASE SetKernelArgument \/ ClearKernelArguments
  BY <1>4, IdleNoStart, ReturnsSync DEF SetKernelArgument, ClearKernelArguments, Done, fpgaVars
<1>5. CASE InstallKernelExecutionBackend
  <2>1. UNCHANGED <<build, dev, outstanding, last, call>>
    BY <1>5 DEF InstallKernelExecutionBackend, fpgaVars
  <2>2. CallTypes' /\ (Idle' => Idle)
    BY <2>1 DEF SyncIInv, CallTypes, Idle
  <2> QED BY <2>1, <2>2, KeepsSync
<1>6. CASE LaunchRejected("launch")
  BY <1>6, IdleNoStart, ReturnsSync DEF LaunchRejected, MayLaunch, apiUnchanged, fpgaVars
<1>7. CASE \E n \in Names : GpgpuLaunchKernel("launch", n)
  BY <1>7, LaunchKernelSync
<1>8. CASE SynchronizeSimulated
  BY <1>8, IdleNoStart, ReturnsSync DEF SynchronizeSimulated, apiUnchanged, fpgaVars
<1>9. CASE SynchronizeFpga
  <2>1. UNCHANGED <<build, dev, outstanding>> /\ ~dev.start
    BY <1>9, IdleNoStart DEF SynchronizeFpga, apiUnchanged, fpgaVars
  <2>2. CASE Returns("sync", FALSE, "nothing")
    BY <2>1, <2>2, ReturnsSync
  <2>3. CASE call' = [op |-> "sync", polled |-> FALSE] /\ UNCHANGED last
    <3>1. call' \in [op : {"launch", "runtime_launch", "sync"}, polled : BOOLEAN]
      BY <2>3
    <3>2. CallTypes' /\ ~Idle'
      BY <3>1, CallNotNone DEF CallTypes, Idle
    <3> QED BY <2>1, <2>3, <3>2, KeepsSync
  <2> QED BY <1>9, <2>2, <2>3 DEF SynchronizeFpga
<1>10. CASE OpenOrClose
  BY <1>10, IdleNoStart, ReturnsSync DEF OpenOrClose, OpenDriver, CloseDriver, Done, apiUnchanged
<1>11. CASE Reset
  <2>1. /\ dev' = [status |-> "IDLE", start |-> FALSE, run |-> NoPath, wanted |-> "none"]
        /\ outstanding' = FALSE /\ call' = NoCall /\ last'.op = "other"
    BY <1>11 DEF Reset, ResetDevice, Done, Returns
  <2>2. CallTypes' /\ DeviceTypes' /\ WantedFate' /\ NothingOutstanding' /\ StartPending'
    BY <2>1 DEF CallTypes, DeviceTypes, WantedFate, NothingOutstanding, StartPending
  <2> QED BY <2>1, <2>2 DEF SyncIInv
<1> QED BY <1>1, <1>2, <1>3, <1>4, <1>5, <1>6, <1>7, <1>8, <1>9, <1>10, <1>11 DEF ApiCall

LEMMA DeviceSync ==
    ASSUME SyncIInv, Device
    PROVE  SyncIInv'
<1>1. UNCHANGED <<build, outstanding, call, last>>
  BY DEF Device, apiVars
<1>2. DeviceTypes /\ StartPending /\ WantedFate /\ NothingOutstanding
  BY DEF SyncIInv
<1>3. CASE DeviceTakesStart
  <2>1. dev.start /\ dev.status # "RUNNING" /\ call.op \in {"launch", "runtime_launch"} /\ outstanding
    BY <1>2, <1>3 DEF DeviceTakesStart, StartPending, NothingOutstanding
  <2>2. CASE dev.status \in {"IDLE", "DONE"}
    <3>1. dev' = [status |-> "RUNNING", start |-> FALSE, run |-> pc_init, wanted |-> "running"]
      BY <1>3, <2>2 DEF DeviceTakesStart
    <3>2. DeviceTypes' /\ StartPending' /\ WantedFate' /\ NothingOutstanding'
      BY <1>1, <2>1, <3>1 DEF DeviceTypes, StartPending, WantedFate, NothingOutstanding
    <3> QED BY <1>1, <2>1, <3>2 DEF SyncIInv, CallTypes, Fpga, Idle
  <2>3. CASE dev.status \notin {"IDLE", "DONE"}
    <3>1. dev' = [dev EXCEPT !.start = FALSE] /\ dev.status = "ERROR"
      BY <1>2, <1>3, <2>1, <2>3 DEF DeviceTakesStart, DeviceTypes
    <3>2. dev' = [status |-> "ERROR", start |-> FALSE, run |-> dev.run, wanted |-> dev.wanted]
      BY <1>2, <3>1 DEF DeviceTypes
    <3>3. dev.wanted # "running"
      BY <1>2, <3>1 DEF WantedFate
    <3>4. DeviceTypes' /\ StartPending' /\ WantedFate' /\ NothingOutstanding'
      BY <1>1, <1>2, <2>1, <3>2, <3>3 DEF DeviceTypes, StartPending, WantedFate, NothingOutstanding
    <3> QED BY <1>1, <2>1, <3>4 DEF SyncIInv, CallTypes, Fpga, Idle
  <2> QED BY <2>2, <2>3
<1>4. CASE DeviceEnds
  <2>1. dev.status = "RUNNING" /\ ~dev.start /\ outstanding
    BY <1>2, <1>4 DEF DeviceEnds, StartPending, NothingOutstanding
  <2>2. PICK s \in {"DONE", "ERROR"} :
          dev' = [dev EXCEPT !.status = s, !.wanted = IF @ = "running" THEN "ended" ELSE @]
    BY <1>4 DEF DeviceEnds
  <2>3. dev.wanted # "waiting"
    BY <1>2, <2>1 DEF WantedFate
  <2>4. dev' = [status |-> s, start |-> FALSE, run |-> dev.run,
                wanted |-> IF dev.wanted = "running" THEN "ended" ELSE dev.wanted]
    BY <1>2, <2>1, <2>2 DEF DeviceTypes
  <2>5. DeviceTypes' /\ StartPending' /\ WantedFate' /\ NothingOutstanding'
    BY <1>1, <1>2, <2>1, <2>3, <2>4 DEF DeviceTypes, StartPending, WantedFate, NothingOutstanding
  <2> QED BY <1>1, <2>1, <2>5 DEF SyncIInv, CallTypes, Fpga, Idle
<1> QED BY <1>3, <1>4 DEF Device

LEMMA NextSync ==
    ASSUME WAITS, SyncIInv, [Next]_vars
    PROVE  SyncIInv'
<1>1. CASE UNCHANGED vars
  <2>1. UNCHANGED <<build, dev, outstanding, last, call>>
    BY <1>1 DEF vars, apiVars, fpgaVars
  <2>2. CallTypes' /\ (Idle' => Idle)
    BY <2>1 DEF SyncIInv, CallTypes, Idle
  <2> QED BY <2>1, <2>2, KeepsSync
<1>2. ASSUME NEW n, NEW src, AppRegisterPtx(n, src) PROVE SyncIInv'
  BY <1>2, IdleNoStart, ReturnsSync DEF AppRegisterPtx, GpgpuRegisterPtx, Done, fpgaVars
<1>3. ASSUME NEW n, AppUnregisterPtx(n) PROVE SyncIInv'
  BY <1>3, IdleNoStart, ReturnsSync DEF AppUnregisterPtx, GpgpuUnregisterPtx, Done, fpgaVars
<1>4. CASE AppShutdown
  BY <1>4, IdleNoStart, ReturnsSync DEF AppShutdown, ShutdownHostAPI, Done, fpgaVars
<1>5. ASSUME NEW m, UploadFails(m) PROVE SyncIInv'
  BY <1>5, IdleNoStart, ReturnsSync DEF UploadFails, Done, apiUnchanged, fpgaVars
<1>6. ASSUME NEW m, Upload(m) PROVE SyncIInv'
  <2>1. Idle /\ UNCHANGED <<build, dev, outstanding>> /\ Returns("other", TRUE, "nothing")
    BY <1>6 DEF Upload, Done, fpgaVars
  <2> QED BY <2>1, IdleNoStart, ReturnsSync
<1>7. CASE UnloadKernelBundle
  BY <1>7, IdleNoStart, ReturnsSync DEF UnloadKernelBundle, Done, fpgaVars
<1>8. ASSUME NEW n, LaunchRefused(n) PROVE SyncIInv'
  BY <1>8, IdleNoStart, ReturnsSync DEF LaunchRefused, LaunchRejected, MayLaunch, apiUnchanged, fpgaVars
<1>9. ASSUME NEW n, LaunchPtxBundle(n) PROVE SyncIInv'
  <2>1. CASE LaunchRejected("runtime_launch")
    BY <2>1, IdleNoStart, ReturnsSync DEF LaunchRejected, MayLaunch, apiUnchanged, fpgaVars
  <2> QED BY <1>9, <2>1, LaunchKernelSync DEF LaunchPtxBundle
<1>10. ASSUME NEW n, LaunchElfBundle(n) PROVE SyncIInv'
  BY <1>10, IdleNoStart, ReturnsSync DEF LaunchElfBundle, MayLaunch, apiUnchanged, fpgaVars
<1> QED BY <1>1, <1>2, <1>3, <1>4, <1>5, <1>6, <1>7, <1>8, <1>9, <1>10,
           ApiCallSync, PollingSync, DeviceSync DEF Next

LEMMA InitSync == Init => SyncIInv
<1> SUFFICES ASSUME Init PROVE SyncIInv
  OBVIOUS
<1>1. /\ dev = [status |-> "IDLE", start |-> FALSE, run |-> NoPath, wanted |-> "none"]
      /\ outstanding = FALSE /\ call = NoCall /\ last.op = "other"
  BY DEF Init, FpgaInit, ApiInit
<1>2. CallTypes /\ DeviceTypes /\ WantedFate /\ NothingOutstanding /\ StartPending
  BY <1>1 DEF CallTypes, DeviceTypes, WantedFate, NothingOutstanding, StartPending
<1> QED BY <1>1, <1>2 DEF SyncIInv

(***************************************************************************)
(* For a host that launches again only after a successful synchronize or a *)
(* reset: when gpgpuSynchronize() returns true on the FPGA, the run of the *)
(* last START has ended, however the 10 ms poll of the launch, the         *)
(* deadlines and the device interleave, and after an ignored START too.    *)
(***************************************************************************)
THEOREM SynchronizeProof ==
    ASSUME WAITS
    PROVE  Spec => []SynchronizeWaits
<1>1. SyncIInv => SynchronizeWaits
  BY DEF SyncIInv, NothingOutstanding, SynchronizeWaits
<1>2. SyncIInv /\ [Next]_vars => SyncIInv'
  BY NextSync
<1> QED BY <1>1, <1>2, InitSync, PTL DEF Spec
-----------------------------------------------------------------------------
(***************************************************************************)
(* Device memory.  While no address wraps, both allocators only move up:   *)
(* a buffer starts and ends below the address they hand out next, and      *)
(* frees take nothing back.                                                *)
(***************************************************************************)
\* No size is so close to the greatest size_t that rounding it up or adding
\* it to an address wraps.
NoWrap ==
    \A b \in Builds : \A s \in Sizes[b] :
        s + ALLOC_ALIGN - 1 + MEM_BASE + MEM_SIZE < SIZE_VALUES
        /\ s + ALLOC_ALIGN - 1 + DEV_LIMIT < SIZE_VALUES

Table(b, next) ==
    /\ next \in Nat
    /\ \A a \in DOMAIN b : a \in Nat /\ b[a] \in Nat /\ a < next /\ a + b[a] <= next
    /\ \A a, c \in DOMAIN b : a < c => a + b[a] <= c

DriverTypes ==
    /\ driver = [open |-> driver.open, next_alloc |-> driver.next_alloc, buffers |-> driver.buffers]
    /\ Table(driver.buffers, driver.next_alloc)
    /\ \A a \in DOMAIN driver.buffers : a >= HeapStart
    /\ driver.open => HeapStart <= driver.next_alloc /\ driver.next_alloc <= MEM_BASE + MEM_SIZE
    /\ ~driver.open => DOMAIN driver.buffers = {}

BufferIInv ==
    /\ build \in Builds
    /\ Table(g_device_buffers, g_next_dev_addr) /\ g_next_dev_addr <= DEV_LIMIT
    /\ DriverTypes

\* The size that is set aside holds the buffer, and little more.
LEMMA AlignedCovers ==
    ASSUME NEW size \in Nat, size + ALLOC_ALIGN - 1 < SIZE_VALUES
    PROVE  /\ Aligned(size) \in Nat
           /\ size <= Aligned(size) /\ Aligned(size) <= size + ALLOC_ALIGN - 1
<1>1. PICK x : x = size + ALLOC_ALIGN - 1
  OBVIOUS
<1>2. /\ ALLOC_ALIGN \in Nat \ {0} /\ SIZE_VALUES \in Nat \ {0}
      /\ x \in Nat /\ x < SIZE_VALUES
  BY <1>1, DriverLoaderAssumption
<1>3. x % SIZE_VALUES = x
  BY <1>2
<1>4. PICK q : q = x \div ALLOC_ALIGN
  OBVIOUS
<1>5. q \in Nat /\ x < ALLOC_ALIGN * q + ALLOC_ALIGN /\ ALLOC_ALIGN * q <= x
  BY <1>2, <1>4
<1>6. q * ALLOC_ALIGN \in Nat /\ q * ALLOC_ALIGN = ALLOC_ALIGN * q
  BY <1>2, <1>5
<1>7. size <= q * ALLOC_ALIGN /\ q * ALLOC_ALIGN <= x
  BY <1>1, <1>2, <1>5, <1>6
<1> QED BY <1>1, <1>3, <1>4, <1>6, <1>7 DEF Aligned

\* Below a limit that leaves room for the size, the pointer moves up past it.
LEMMA BumpedCovers ==
    ASSUME NEW size \in Nat \ {0}, NEW limit \in Nat, size + ALLOC_ALIGN - 1 + limit < SIZE_VALUES,
           NEW next \in Nat, next <= limit
    PROVE  Bumped(next, size) \in Nat /\ next + size <= Bumped(next, size)
<1>1. ALLOC_ALIGN \in Nat \ {0} /\ SIZE_VALUES \in Nat \ {0}
  BY DriverLoaderAssumption
<1>2. PICK s : /\ s = Aligned(size) /\ s \in Nat
               /\ size <= s /\ s <= size + ALLOC_ALIGN - 1
  BY <1>1, AlignedCovers
<1>3. next + s \in Nat /\ next + s < SIZE_VALUES
  BY <1>1, <1>2
<1>4. (next + s) % SIZE_VALUES = next + s
  BY <1>1, <1>3
<1> QED BY <1>2, <1>3, <1>4 DEF Bumped

LEMMA HeapInAperture ==
    HeapStart \in Nat /\ HeapStart <= MEM_BASE + MEM_SIZE /\ MEM_BASE + MEM_SIZE \in Nat
<1>1. MEM_SIZE \div 2 \in Nat /\ MEM_SIZE \div 2 <= MEM_SIZE
  BY FpgaDriverAssumption
<1>2. PICK h : h = MEM_SIZE \div 2
  OBVIOUS
<1>3. HEAP_OFFSET \in Nat /\ MEM_BASE \in Nat /\ MEM_SIZE \in Nat /\ h \in Nat /\ h <= MEM_SIZE
  BY <1>1, <1>2, FpgaDriverAssumption
<1>4. \E x \in {HEAP_OFFSET, h} : \A y \in {HEAP_OFFSET, h} : x <= y
  BY <1>3
<1>5. Min({HEAP_OFFSET, h}) \in {HEAP_OFFSET, h} /\ Min({HEAP_OFFSET, h}) <= h
  BY <1>4 DEF Min
<1> QED BY <1>2, <1>3, <1>5 DEF HeapStart

LEMMA TableEmpty ==
    ASSUME NEW next \in Nat, NEW b, DOMAIN b = {}
    PROVE  Table(b, next)
  BY DEF Table

LEMMA TableAllocates ==
    ASSUME NEW b, NEW next, Table(b, next), NEW n \in Nat, next < n,
           NEW size \in Nat, next + size <= n
    PROVE  /\ Table(WithBuffer(b, next, size), n)
           /\ DOMAIN WithBuffer(b, next, size) = DOMAIN b \cup {next}
<1>1. next \in Nat
  BY DEF Table
<1>2. PICK w : w = WithBuffer(b, next, size)
  OBVIOUS
<1>3. /\ DOMAIN w = DOMAIN b \cup {next} /\ w[next] = size
      /\ \A a \in DOMAIN b : a # next => w[a] = b[a]
  BY <1>2 DEF WithBuffer
<1>4. \A a \in DOMAIN b : a \in Nat /\ b[a] \in Nat /\ a + b[a] <= next /\ a < next
  BY DEF Table
<1>5. \A a \in DOMAIN w : a \in Nat /\ w[a] \in Nat /\ a < n /\ a + w[a] <= n
  BY <1>1, <1>3, <1>4
<1>6. ASSUME NEW a \in DOMAIN w, NEW c \in DOMAIN w, a < c PROVE a + w[a] <= c
  <2>1. CASE c = next
    BY <1>1, <1>3, <1>4, <1>6, <2>1
  <2>2. CASE c # next
    <3>1. c \in DOMAIN b /\ c < next
      BY <1>3, <1>4, <2>2
    <3>2. a # next /\ a \in DOMAIN b
      BY <1>1, <1>3, <1>4, <1>6, <3>1
    <3> QED BY <1>3, <1>6, <3>1, <3>2 DEF Table
  <2> QED BY <2>1, <2>2
<1> QED BY <1>1, <1>2, <1>3, <1>5, <1>6 DEF Table

LEMMA TableFrees ==
    ASSUME NEW b, NEW next, Table(b, next), NEW a
    PROVE  /\ Table(WithoutBuffer(b, a), next)
           /\ DOMAIN WithoutBuffer(b, a) = DOMAIN b \ {a}
  BY DEF Table, WithoutBuffer

LEMMA KeepsBuffers ==
    ASSUME BufferIInv, UNCHANGED <<build, driver, g_device_buffers, g_next_dev_addr>>
    PROVE  BufferIInv'
  BY DEF BufferIInv, DriverTypes

LEMMA MallocBuffers ==
    ASSUME NoWrap, BufferIInv, NEW size \in Sizes[build], GpgpuMalloc(size)
    PROVE  BufferIInv'
<1>1. size \in Nat /\ UNCHANGED build
  BY HostApiAssumption, DriverLoaderAssumption DEF BufferIInv, GpgpuMalloc, apiUnchanged
<1>2. /\ size + ALLOC_ALIGN - 1 + (MEM_BASE + MEM_SIZE) < SIZE_VALUES
      /\ size + ALLOC_ALIGN - 1 + DEV_LIMIT < SIZE_VALUES
  <2>1. /\ size + ALLOC_ALIGN - 1 + MEM_BASE + MEM_SIZE < SIZE_VALUES
        /\ size + ALLOC_ALIGN - 1 + DEV_LIMIT < SIZE_VALUES
    BY DEF NoWrap, BufferIInv
  <2> QED BY <1>1, <2>1, DriverLoaderAssumption, FpgaDriverAssumption
<1>3. CASE UNCHANGED <<fpgaVars, loaderVars>>
  BY <1>1, <1>3, KeepsBuffers DEF fpgaVars, loaderVars
<1>4. CASE size # 0 /\ Fpga /\ HasRoom(size)
  <2>1. AllocateBuffer(size) /\ UNCHANGED loaderVars
    BY <1>4 DEF GpgpuMalloc
  <2>2. PICK b, n : /\ b = WithBuffer(driver.buffers, driver.next_alloc, size)
                    /\ n = Bumped(driver.next_alloc, size)
    OBVIOUS
  <2>3. driver' = [open |-> driver.open, next_alloc |-> n, buffers |-> b]
    BY <2>1, <2>2 DEF AllocateBuffer, BufferIInv, DriverTypes
  <2>4. driver.open /\ n <= MEM_BASE + MEM_SIZE
    BY <1>4, <2>2 DEF HasRoom
  <2>5. /\ driver.next_alloc \in Nat /\ HeapStart <= driver.next_alloc
        /\ n \in Nat /\ driver.next_alloc + size <= n
    <3>1. /\ driver.next_alloc \in Nat /\ HeapStart <= driver.next_alloc
          /\ driver.next_alloc <= MEM_BASE + MEM_SIZE
      BY <2>4 DEF BufferIInv, DriverTypes, Table
    <3> QED BY <1>2, <1>1, <1>4, <2>2, <3>1, BumpedCovers, HeapInAperture
  <2>6. /\ Table(b, n) /\ DOMAIN b = DOMAIN driver.buffers \cup {driver.next_alloc}
        /\ HeapStart <= n
    <3>1. driver.next_alloc < n /\ HeapStart <= n
      BY <1>1, <1>4, <2>5, HeapInAperture
    <3> QED BY <1>1, <2>2, <2>5, <3>1, TableAllocates DEF BufferIInv, DriverTypes
  <2>7. \A a \in DOMAIN b : a >= HeapStart
    BY <2>5, <2>6, HeapInAperture DEF BufferIInv, DriverTypes
  <2>8. DriverTypes'
    BY <2>3, <2>4, <2>5, <2>6, <2>7 DEF DriverTypes
  <2> QED BY <1>1, <2>1, <2>8 DEF BufferIInv, loaderVars
<1>5. CASE size # 0 /\ ~Fpga
  <2>1. AllocateSimulated(size) /\ UNCHANGED fpgaVars
    BY <1>5 DEF GpgpuMalloc
  <2>2. Table(g_device_buffers, g_next_dev_addr)' /\ g_next_dev_addr' <= DEV_LIMIT
    <3>1. PICK n, kept : /\ n = Bumped(g_next_dev_addr, size)
                         /\ kept = Assigned(g_device_buffers, g_next_dev_addr, size)
      OBVIOUS
    <3>2. /\ g_next_dev_addr' = n /\ n <= DEV_LIMIT
          /\ g_device_buffers' = WithBuffer(g_device_buffers, g_next_dev_addr, kept)
      BY <2>1, <3>1 DEF AllocateSimulated
    <3>3. /\ g_next_dev_addr \in Nat /\ n \in Nat /\ g_next_dev_addr + size <= n
      BY <1>2, <1>1, <1>5, <3>1, BumpedCovers, DriverLoaderAssumption DEF BufferIInv, Table
    <3>4. g_next_dev_addr \notin DOMAIN g_device_buffers
      BY DEF BufferIInv, Table
    <3>5. kept \in {0, size}
      BY <3>1, <3>4 DEF Assigned
    <3>6. kept \in Nat /\ g_next_dev_addr < n /\ g_next_dev_addr + kept <= n
      BY <1>1, <1>5, <3>3, <3>5
    <3> QED BY <3>2, <3>3, <3>6, TableAllocates DEF BufferIInv
  <2>3. DriverTypes'
    BY <2>1 DEF fpgaVars, BufferIInv, DriverTypes
  <2> QED BY <1>1, <2>2, <2>3 DEF BufferIInv
<1> QED BY <1>3, <1>4, <1>5 DEF GpgpuMalloc

LEMMA FreeBuffers ==
    ASSUME BufferIInv, NEW a, GpgpuFree(a)
    PROVE  BufferIInv'
<1>1. UNCHANGED build
  BY DEF GpgpuFree, apiUnchanged
<1>2. CASE Fpga
  <2>1. FreeBuffer(a) /\ UNCHANGED loaderVars
    BY <1>2 DEF GpgpuFree
  <2>2. PICK b : b = WithoutBuffer(driver.buffers, a)
    OBVIOUS
  <2>3. driver' = [open |-> driver.open, next_alloc |-> driver.next_alloc, buffers |-> b]
    BY <2>1, <2>2 DEF FreeBuffer, BufferIInv, DriverTypes
  <2>4. Table(b, driver.next_alloc) /\ DOMAIN b = DOMAIN driver.buffers \ {a}
    BY <2>2, TableFrees DEF BufferIInv, DriverTypes
  <2>5. DriverTypes'
    BY <2>3, <2>4 DEF BufferIInv, DriverTypes
  <2> QED BY <1>1, <2>1, <2>5 DEF BufferIInv, loaderVars
<1>3. CASE ~Fpga
  <2>1. FreeSimulated(a) /\ UNCHANGED fpgaVars
    BY <1>3 DEF GpgpuFree
  <2>2. Table(g_device_buffers, g_next_dev_addr)' /\ g_next_dev_addr' <= DEV_LIMIT
    BY <2>1, TableFrees DEF FreeSimulated, BufferIInv
  <2>3. DriverTypes'
    BY <2>1 DEF fpgaVars, BufferIInv, DriverTypes
  <2> QED BY <1>1, <2>2, <2>3 DEF BufferIInv
<1> QED BY <1>2, <1>3

LEMMA OpenBuffers ==
    ASSUME BufferIInv, OpenOrClose
    PROVE  BufferIInv'
<1>1. UNCHANGED <<build, loaderVars>>
  BY DEF OpenOrClose, apiUnchanged
<1>2. \/ driver' = [open |-> TRUE, next_alloc |-> HeapStart, buffers |-> << >>]
      \/ driver' = [open |-> FALSE, next_alloc |-> 0, buffers |-> << >>]
  BY DEF OpenOrClose, OpenDriver, CloseDriver, Closed
<1>3. DOMAIN driver'.buffers = {} /\ driver'.next_alloc \in Nat
  BY <1>2, HeapInAperture
<1>4. Table(driver'.buffers, driver'.next_alloc)
  BY <1>3, TableEmpty
<1>5. driver'.open => driver'.next_alloc = HeapStart
  BY <1>2
<1>6. driver' = [open |-> driver'.open, next_alloc |-> driver'.next_alloc, buffers |-> driver'.buffers]
  BY <1>2
<1>7. DriverTypes'
  BY <1>3, <1>4, <1>5, <1>6, HeapInAperture DEF DriverTypes
<1> QED BY <1>1, <1>7 DEF BufferIInv, loaderVars

LEMMA LaunchKernelBuffers ==
    ASSUME BufferIInv, NEW op, NEW n, GpgpuLaunchKernel(op, n)
    PROVE  BufferIInv'
<1>1. CASE LaunchMissingPtx(op, n) \/ LaunchSimulated(op, n)
  BY <1>1, KeepsBuffers DEF LaunchMissingPtx, LaunchRejected, LaunchSimulated, apiUnchanged, fpgaVars,
     loaderVars
<1>2. CASE LaunchOnFpga(op, n)
  BY <1>2, KeepsBuffers DEF LaunchOnFpga
<1>3. CASE LaunchPtxFails(op, n) \/ LaunchPtx(op, n)
  BY <1>3, KeepsBuffers DEF LaunchPtxFails, LaunchPtx, fpgaVars
<1> QED BY <1>1, <1>2, <1>3 DEF GpgpuLaunchKernel

LEMMA NextBuffers ==
    ASSUME NoWrap, BufferIInv, [Next]_vars
    PROVE  BufferIInv'
<1>1. CASE UNCHANGED vars
  BY <1>1, KeepsBuffers DEF vars, apiVars, fpgaVars, loaderVars
<1>2. CASE ApiCall
  <2>1. ASSUME NEW a, NEW size, GpgpuMemcpyH2D(a, size) PROVE BufferIInv'
    BY <2>1, KeepsBuffers DEF GpgpuMemcpyH2D, CopyToDevice, apiUnchanged, fpgaVars, loaderVars
  <2>2. CASE SetKernelArgument \/ ClearKernelArguments \/ InstallKernelExecutionBackend
    BY <2>2, KeepsBuffers DEF SetKernelArgument, ClearKernelArguments, InstallKernelExecutionBackend,
       fpgaVars, loaderVars
  <2>3. CASE LaunchRejected("launch") \/ SynchronizeSimulated \/ SynchronizeFpga
    BY <2>3, KeepsBuffers DEF LaunchRejected, SynchronizeSimulated, SynchronizeFpga, apiUnchanged,
       fpgaVars, loaderVars
  <2>4. CASE Reset
    BY <2>4, KeepsBuffers DEF Reset, ResetDevice, loaderVars
  <2> QED BY <1>2, <2>1, <2>2, <2>3, <2>4, MallocBuffers, FreeBuffers, OpenBuffers, LaunchKernelBuffers
          DEF ApiCall
<1>3. CASE Polling
  BY <1>3, KeepsBuffers DEF Polling, PollRunning, PollAgain, LaunchDeadline, PollDone, SyncDeadline,
     apiUnchanged, fpgaVars, loaderVars
<1>4. CASE Device
  BY <1>4, KeepsBuffers DEF Device, DeviceTakesStart, DeviceEnds, apiVars, loaderVars
<1>5. CASE \/ \E n \in Names : \E src \in Sources[build] : AppRegisterPtx(n, src)
           \/ \E n \in Names : AppUnregisterPtx(n)
           \/ AppShutdown
  BY <1>5, KeepsBuffers DEF AppRegisterPtx, GpgpuRegisterPtx, AppUnregisterPtx, GpgpuUnregisterPtx,
     AppShutdown, ShutdownHostAPI, fpgaVars, loaderVars
<1>6. ASSUME NEW m, Upload(m) \/ UploadFails(m) PROVE BufferIInv'
  <2>1. CASE Upload(m)
    BY <2>1, KeepsBuffers DEF Upload, fpgaVars
  <2>2. CASE UploadFails(m)
    BY <2>2, KeepsBuffers DEF UploadFails, apiUnchanged, fpgaVars, loaderVars
  <2> QED BY <1>6, <2>1, <2>2
<1>7. CASE UnloadKernelBundle
  BY <1>7, KeepsBuffers DEF UnloadKernelBundle, fpgaVars, loaderVars
<1>8. ASSUME NEW n, LaunchRefused(n) \/ LaunchPtxBundle(n) \/ LaunchElfBundle(n) PROVE BufferIInv'
  <2>1. CASE LaunchRejected("runtime_launch")
    BY <2>1, KeepsBuffers DEF LaunchRejected, apiUnchanged, fpgaVars, loaderVars
  <2>2. CASE LaunchElfBundle(n)
    BY <2>2, KeepsBuffers DEF LaunchElfBundle, apiUnchanged, fpgaVars
  <2> QED BY <1>8, <2>1, <2>2, LaunchKernelBuffers DEF LaunchRefused, LaunchPtxBundle
<1> QED BY <1>1, <1>2, <1>3, <1>4, <1>5, <1>6, <1>7, <1>8 DEF Next

LEMMA InitBuffers == Init => BufferIInv
<1> SUFFICES ASSUME Init PROVE BufferIInv
  OBVIOUS
<1>1. /\ g_device_buffers = << >> /\ g_next_dev_addr = DEV_BASE /\ build \in Builds
      /\ driver = [open |-> FALSE, next_alloc |-> 0, buffers |-> << >>]
  BY DEF Init, LoaderInit, FpgaInit, ApiInit, Closed
<1>2. DOMAIN g_device_buffers = {} /\ DOMAIN driver.buffers = {} /\ g_next_dev_addr \in Nat
      /\ driver.next_alloc \in Nat /\ g_next_dev_addr <= DEV_LIMIT
  BY <1>1, DriverLoaderAssumption
<1>3. Table(g_device_buffers, g_next_dev_addr) /\ Table(driver.buffers, driver.next_alloc)
  BY <1>2, TableEmpty
<1>4. DriverTypes
  BY <1>1, <1>2, <1>3 DEF DriverTypes
<1> QED BY <1>1, <1>2, <1>3, <1>4 DEF BufferIInv

LEMMA BuffersApart == BufferIInv => BuffersDisjoint
<1> SUFFICES ASSUME BufferIInv PROVE BuffersDisjoint
  OBVIOUS
<1>1. \A a, b \in DOMAIN Buffers : a < b => a + Buffers[a] <= b
  BY DEF BufferIInv, DriverTypes, Table, Buffers
<1>2. ASSUME NEW a \in DOMAIN driver.buffers
      PROVE  a >= HeapStart /\ a + driver.buffers[a] <= MEM_BASE + MEM_SIZE
  <2>1. driver.open
    BY DEF BufferIInv, DriverTypes
  <2>2. a + driver.buffers[a] <= driver.next_alloc /\ driver.next_alloc <= MEM_BASE + MEM_SIZE
        /\ a \in Nat /\ driver.buffers[a] \in Nat /\ driver.next_alloc \in Nat
    BY <2>1 DEF BufferIInv, DriverTypes, Table
  <2> QED BY <2>2, HeapInAperture DEF BufferIInv, DriverTypes
<1> QED BY <1>1, <1>2 DEF BuffersDisjoint

(***************************************************************************)
(* Live device buffers are disjoint in both builds, and on the FPGA they   *)
(* lie between the code and the end of the aperture, for every alignment,  *)
(* aperture and sequence of allocations, frees and re-opens                *)
(* (loader.cpp:46, fpga_driver.cpp:154), for sizes that wrap neither when  *)
(* they are rounded up nor when they are added to an address (NoWrap).     *)
(* Sizes near the greatest size_t do wrap (fpga_driver.cpp:159).           *)
(***************************************************************************)
THEOREM BuffersProof ==
    ASSUME NoWrap
    PROVE  Spec => []BuffersDisjoint
<1>1. BufferIInv /\ [Next]_vars => BufferIInv'
  BY NextBuffers
<1> QED BY <1>1, InitBuffers, BuffersApart, PTL DEF Spec
-----------------------------------------------------------------------------
(***************************************************************************)
(* loadElfToFpga().  By induction over the segments: after i of them either *)
(* the load has failed, or each loadable one lies in the aperture and its  *)
(* cells hold the image.  A later segment does not disturb an earlier one  *)
(* because the segments of an image do not overlap.                        *)
(***************************************************************************)
Tags == {"none", "data", "zero"} \cup DOMAIN Images
RamTypes(m) == m \in [Cells -> Tags]

Segments(path) == Images[path].segments
FileCells(seg) == seg.vaddr .. seg.vaddr + seg.filesz - 1

\* The first i segments of path are in m.
InPlace(path, m, i) ==
    \A j \in 1 .. i : Loadable(Segments(path)[j]) =>
        /\ MemAt(Segments(path)[j].vaddr, Segments(path)[j].memsz)
        /\ \A x \in FileCells(Segments(path)[j]) : x \in Cells /\ m[x] = path

Loading(path, acc, i) ==
    /\ acc = [ok |-> acc.ok, m |-> acc.m] /\ acc.ok \in BOOLEAN
    /\ RamTypes(acc.m)
    /\ acc.ok => InPlace(path, acc.m, i)

LEMMA WriteTypes ==
    ASSUME NEW m, RamTypes(m), NEW a, NEW size, NEW tag \in Tags
    PROVE  /\ RamTypes(Write(m, a, size, tag))
           /\ \A x \in Cells : x \in a .. a + size - 1 => Write(m, a, size, tag)[x] = tag
           /\ \A x \in Cells : x \notin a .. a + size - 1 => Write(m, a, size, tag)[x] = m[x]
  BY DEF RamTypes, Write

LEMMA SegmentFacts ==
    ASSUME NEW path \in DOMAIN Images
    PROVE  /\ Len(Segments(path)) \in Nat /\ DOMAIN Segments(path) = 1 .. Len(Segments(path))
           /\ \A i \in 1 .. Len(Segments(path)) :
                 /\ Segments(path)[i].vaddr \in Nat /\ Segments(path)[i].filesz \in Nat
                 /\ Segments(path)[i].memsz \in Nat
                 /\ Segments(path)[i].load \in BOOLEAN /\ Segments(path)[i].in_file \in BOOLEAN
                 /\ Segments(path)[i].filesz <= Segments(path)[i].memsz
<1>1. PICK segs : segs = Segments(path)
  OBVIOUS
<1>2. WellFormed(segs)
  BY <1>1, ImagesAssumption DEF Segments
<1>3. PICK S : S = [load: BOOLEAN, in_file: BOOLEAN, vaddr: Nat, filesz: Nat, memsz: Nat]
  OBVIOUS
<1>4. segs \in Seq(S)
  BY <1>2, <1>3 DEF WellFormed
<1>5. Len(segs) \in Nat /\ DOMAIN segs = 1 .. Len(segs) /\ \A i \in 1 .. Len(segs) : segs[i] \in S
  BY <1>4
<1>6. \A seg \in S : /\ seg.vaddr \in Nat /\ seg.filesz \in Nat /\ seg.memsz \in Nat
                      /\ seg.load \in BOOLEAN /\ seg.in_file \in BOOLEAN
  BY <1>3
<1>7. \A i \in DOMAIN segs : segs[i].filesz <= segs[i].memsz
  BY <1>2 DEF WellFormed
<1> QED BY <1>1, <1>5, <1>6, <1>7

LEMMA CellsApart ==
    ASSUME NEW v \in Nat, NEW f \in Nat, NEW z \in Nat, f <= z,
           NEW sv \in Nat, NEW sf \in Nat, NEW sz \in Nat, sf <= sz,
           sv + sz <= v \/ v + z <= sv,
           NEW x \in sv .. sv + sf - 1
    PROVE  x \notin v .. v + f - 1 /\ x \notin v + f .. (v + f) + (z - f) - 1
  OBVIOUS

\* One segment more.
LEMMA LoadSegmentKeeps ==
    ASSUME NEW path \in DOMAIN Images, NEW i \in 1 .. Len(Segments(path)),
           NEW acc, Loading(path, acc, i - 1)
    PROVE  Loading(path, LoadSegment(path, acc, Segments(path)[i]), i)
<1>1. PICK seg : seg = Segments(path)[i]
  OBVIOUS
<1>2. /\ i \in Nat \ {0} /\ seg.vaddr \in Nat /\ seg.filesz \in Nat /\ seg.memsz \in Nat
      /\ seg.filesz <= seg.memsz
  BY <1>1, SegmentFacts
<1>3. 1 .. i = (1 .. i - 1) \cup {i}
  BY <1>2
<1>4. CASE ~acc.ok \/ ~Loadable(seg)
  <2>1. LoadSegment(path, acc, seg) = acc
    BY <1>4 DEF LoadSegment
  <2>2. acc.ok => InPlace(path, acc.m, i)
    BY <1>1, <1>3, <1>4 DEF Loading, InPlace
  <2> QED BY <1>1, <2>1, <2>2 DEF Loading
<1>5. CASE acc.ok /\ Loadable(seg)
  <2>1. PICK written : written = IF seg.filesz > 0 /\ MemAt(seg.vaddr, seg.filesz)
                                   THEN Write(acc.m, seg.vaddr, seg.filesz, path) ELSE acc.m
    OBVIOUS
  <2>2. PICK zeroed : zeroed = Write(written, seg.vaddr + seg.filesz, seg.memsz - seg.filesz, "zero")
    OBVIOUS
  <2>3. PICK verified \in BOOLEAN :
          verified <=> \A x \in seg.vaddr .. seg.vaddr + Min({VERIFY_BYTES, seg.filesz}) - 1 : zeroed[x] = path
    OBVIOUS
  <2>4. LoadSegment(path, acc, seg) =
           IF ~seg.in_file \/ (seg.filesz > 0 /\ ~MemAt(seg.vaddr, seg.filesz))
             THEN [acc EXCEPT !.ok = FALSE]
           ELSE IF ~MemAt(seg.vaddr, seg.memsz) THEN [ok |-> FALSE, m |-> written]
           ELSE [ok |-> verified, m |-> zeroed]
    BY <1>5, <2>1, <2>2, <2>3 DEF LoadSegment
  <2>5. path \in Tags /\ "zero" \in Tags
    BY DEF Tags
  <2>6. RamTypes(written)
    BY <2>1, <2>5, WriteTypes DEF Loading
  <2>7. RamTypes(zeroed)
    BY <2>2, <2>5, <2>6, WriteTypes
  <2>8. CASE ~seg.in_file \/ (seg.filesz > 0 /\ ~MemAt(seg.vaddr, seg.filesz))
    <3>1. LoadSegment(path, acc, seg) = [acc EXCEPT !.ok = FALSE]
      BY <2>4, <2>8
    <3>2. LoadSegment(path, acc, seg) = [ok |-> FALSE, m |-> acc.m]
      BY <3>1 DEF Loading
    <3> QED BY <1>1, <3>2 DEF Loading
  <2>9. CASE /\ ~(~seg.in_file \/ (seg.filesz > 0 /\ ~MemAt(seg.vaddr, seg.filesz)))
             /\ ~MemAt(seg.vaddr, seg.memsz)
    <3>1. LoadSegment(path, acc, seg) = [ok |-> FALSE, m |-> written]
      BY <2>4, <2>9
    <3> QED BY <1>1, <2>6, <3>1 DEF Loading
  <2>10. CASE /\ ~(~seg.in_file \/ (seg.filesz > 0 /\ ~MemAt(seg.vaddr, seg.filesz)))
              /\ MemAt(seg.vaddr, seg.memsz)
    <3>1. LoadSegment(path, acc, seg) = [ok |-> verified, m |-> zeroed]
      BY <2>4, <2>10
    <3>2. /\ seg.vaddr >= MEM_BASE /\ seg.vaddr + seg.memsz <= MEM_BASE + MEM_SIZE
          /\ MEM_BASE \in Nat /\ MEM_SIZE \in Nat
      BY <2>10, FpgaDriverAssumption DEF MemAt
    <3>3. FileCells(seg) \subseteq Cells
      <4>1. PICK v, f, z : v = seg.vaddr /\ f = seg.filesz /\ z = seg.memsz
        OBVIOUS
      <4>2. v \in Nat /\ f \in Nat /\ z \in Nat /\ f <= z /\ v >= MEM_BASE /\ v + z <= MEM_BASE + MEM_SIZE
        BY <1>2, <3>2, <4>1
      <4>3. \A x \in v .. v + f - 1 : x \in MEM_BASE .. MEM_BASE + MEM_SIZE - 1
        BY <3>2, <4>2
      <4> QED BY <4>1, <4>3 DEF FileCells, Cells
    <3>4. ASSUME NEW x \in FileCells(seg) PROVE zeroed[x] = path
      <4>1. seg.filesz > 0 /\ x \in seg.vaddr .. seg.vaddr + seg.filesz - 1 /\ x \in Cells /\ x \in Int
        BY <1>2, <3>3, <3>4 DEF FileCells
      <4>2. written = Write(acc.m, seg.vaddr, seg.filesz, path)
        BY <2>1, <2>10, <4>1
      <4>3. written[x] = path
        BY <2>5, <4>1, <4>2, WriteTypes DEF Loading
      <4>4. x \notin seg.vaddr + seg.filesz .. (seg.vaddr + seg.filesz) + (seg.memsz - seg.filesz) - 1
        BY <1>2, <4>1
      <4> QED BY <2>2, <2>5, <2>6, <4>1, <4>3, <4>4, WriteTypes
    <3>5. ASSUME NEW j \in 1 .. i - 1, Loadable(Segments(path)[j])
          PROVE  /\ MemAt(Segments(path)[j].vaddr, Segments(path)[j].memsz)
                 /\ \A x \in FileCells(Segments(path)[j]) : x \in Cells /\ zeroed[x] = path
      <4>1. PICK s : s = Segments(path)[j]
        OBVIOUS
      <4>2. /\ MemAt(s.vaddr, s.memsz)
            /\ \A x \in FileCells(s) : x \in Cells /\ acc.m[x] = path
        BY <1>5, <3>5, <4>1 DEF Loading, InPlace
      <4>3. j \in 1 .. Len(Segments(path)) /\ j # i
        BY <1>2, SegmentFacts
      <4>4. /\ s.vaddr \in Nat /\ s.filesz \in Nat /\ s.memsz \in Nat /\ s.filesz <= s.memsz
        BY <4>1, <4>3, SegmentFacts
      <4>5. s.vaddr + s.memsz <= seg.vaddr \/ seg.vaddr + seg.memsz <= s.vaddr
        <5>1. j \in DOMAIN Segments(path) /\ i \in DOMAIN Segments(path)
          BY <4>3, SegmentFacts
        <5>2. Loadable(s) /\ Loadable(seg)
          BY <1>5, <3>5, <4>1
        <5>3. WellFormed(Segments(path))
          BY ImagesAssumption DEF Segments
        <5> QED BY <1>1, <4>1, <4>3, <5>1, <5>2, <5>3 DEF WellFormed
      <4>6. ASSUME NEW x \in FileCells(s) PROVE zeroed[x] = path
        <5>1. x \in Cells /\ acc.m[x] = path
          BY <4>2, <4>6
        <5>2. /\ x \notin seg.vaddr .. seg.vaddr + seg.filesz - 1
              /\ x \notin seg.vaddr + seg.filesz .. (seg.vaddr + seg.filesz) + (seg.memsz - seg.filesz) - 1
          BY <1>2, <4>4, <4>5, <4>6, CellsApart DEF FileCells
        <5>3. written[x] = path
          BY <2>1, <2>5, <5>1, <5>2, WriteTypes DEF Loading
        <5> QED BY <2>2, <2>5, <2>6, <5>1, <5>2, <5>3, WriteTypes
      <4> QED BY <4>1, <4>2, <4>6
    <3>6. InPlace(path, zeroed, i)
      BY <1>1, <1>3, <2>10, <3>3, <3>4, <3>5 DEF InPlace
    <3> QED BY <1>1, <2>3, <2>7, <3>1, <3>6 DEF Loading
  <2> QED BY <2>8, <2>9, <2>10
<1> QED BY <1>4, <1>5, <1>1 DEF Loading

(***************************************************************************)
(* The loop of LoadElf is a recursive function of the index: it is shown   *)
(* to exist, then what it computes, each time by a least counterexample.   *)
(***************************************************************************)
Steps(path, f, k) ==
    [i \in 0 .. k |-> IF i = 0 THEN [ok |-> TRUE, m |-> ram]
                      ELSE LoadSegment(path, f[i - 1], Segments(path)[i])]

\* The least element of a set of naturals.
LEMMA LeastNatural ==
    ASSUME NEW T \in SUBSET Nat, T # {}
    PROVE  \E x \in T : \A y \in T : ~(y < x)
<1> DEFINE R == OpToRel(<, Nat)
<1>1. IsWellFoundedOn(R, Nat)
  BY NatLessThanWellFounded
<1>2. \E x \in T : \A y \in T : ~(<<y, x>> \in R)
  <2> HIDE DEF R
  <2> QED BY <1>1, WFMin
<1> QED BY <1>2 DEF OpToRel

\* The loop over the segments has a result.
LEMMA LoopExists ==
    ASSUME NEW path, NEW n \in Nat
    PROVE  \E f : f = Steps(path, f, n)
<1> DEFINE T == {k \in Nat : ~ \E f : f = Steps(path, f, k)}
<1> SUFFICES ASSUME T # {} PROVE FALSE
  OBVIOUS
<1>1. PICK k \in T : \A l \in T : ~(l < k)
  <2>1. T \in SUBSET Nat
    OBVIOUS
  <2> HIDE DEF T
  <2> QED BY <2>1, LeastNatural
<1>2. k \in Nat /\ ~ \E f : f = Steps(path, f, k)
  OBVIOUS
<1>3. CASE k = 0
  <2>1. PICK f : f = [i \in 0 .. 0 |-> [ok |-> TRUE, m |-> ram]]
    OBVIOUS
  <2>2. \A i \in 0 .. 0 : i = 0
    OBVIOUS
  <2>3. f = Steps(path, f, 0)
    BY <2>1, <2>2 DEF Steps
  <2> QED BY <1>2, <1>3, <2>3
<1>4. CASE k # 0
  <2>1. k - 1 \in Nat /\ k - 1 \notin T
    BY <1>1, <1>2, <1>4
  <2>2. PICK f : f = Steps(path, f, k - 1)
    BY <2>1
  <2>3. PICK g : g = [i \in 0 .. k |-> IF i = k THEN LoadSegment(path, f[k - 1], Segments(path)[k]) ELSE f[i]]
    OBVIOUS
  <2>4. \A i \in 0 .. k : i # k => i \in 0 .. k - 1 /\ g[i] = f[i]
    BY <1>2, <2>3
  <2>5. ASSUME NEW i \in 0 .. k
        PROVE  g[i] = IF i = 0 THEN [ok |-> TRUE, m |-> ram]
                      ELSE LoadSegment(path, g[i - 1], Segments(path)[i])
    <3>1. CASE i = k
      <4>1. g[i] = LoadSegment(path, f[k - 1], Segments(path)[k])
        BY <2>3, <3>1
      <4>2. k - 1 \in 0 .. k /\ k - 1 # k
        BY <1>2, <1>4
      <4>3. g[k - 1] = f[k - 1]
        BY <2>4, <4>2
      <4> QED BY <1>4, <3>1, <4>1, <4>3
    <3>2. CASE i # k
      <4>1. i \in 0 .. k - 1 /\ g[i] = f[i]
        BY <2>4, <3>2
      <4>2. f[i] = IF i = 0 THEN [ok |-> TRUE, m |-> ram] ELSE LoadSegment(path, f[i - 1], Segments(path)[i])
        BY <2>2, <4>1 DEF Steps
      <4>3. i # 0 => i - 1 \in 0 .. k /\ i - 1 # k
        BY <1>2, <4>1
      <4>4. i # 0 => g[i - 1] = f[i - 1]
        BY <2>4, <4>3
      <4> QED BY <4>1, <4>2, <4>4
    <3> QED BY <3>1, <3>2
  <2>6. g = Steps(path, g, k)
    BY <2>3, <2>5 DEF Steps
  <2> QED BY <1>2, <2>6
<1> QED BY <1>3, <1>4

LEMMA LoadElfLoop ==
    ASSUME NEW path \in DOMAIN Images, Images[path].header
    PROVE  \E f : /\ f = Steps(path, f, Len(Segments(path)))
                  /\ LoadElf(path) = f[Len(Segments(path))]
<1>1. Len(Segments(path)) \in Nat
  BY SegmentFacts
<1>2. PICK f : f = CHOOSE h : h = Steps(path, h, Len(Segments(path)))
  OBVIOUS
<1>3. f = Steps(path, f, Len(Segments(path)))
  BY <1>1, <1>2, LoopExists
<1>4. LoadElf(path) = f[Len(Segments(path))]
  BY <1>2 DEF LoadElf, Steps, Segments
<1> QED BY <1>3, <1>4

LEMMA LoadElfFacts ==
    ASSUME NEW path \in DOMAIN Images, Images[path].header, RamTypes(ram)
    PROVE  Loading(path, LoadElf(path), Len(Segments(path)))
<1>1. PICK n : n = Len(Segments(path)) /\ n \in Nat
  BY SegmentFacts
<1>2. PICK f : f = Steps(path, f, n) /\ LoadElf(path) = f[n]
  BY <1>1, LoadElfLoop
<1> DEFINE T == {k \in 0 .. n : ~Loading(path, f[k], k)}
<1> SUFFICES ASSUME T # {} PROVE FALSE
  BY <1>1, <1>2
<1>3. PICK k \in T : \A l \in T : ~(l < k)
  <2>1. T \in SUBSET Nat
    BY <1>1
  <2> HIDE DEF T
  <2> QED BY <2>1, LeastNatural
<1>4. k \in 0 .. n /\ ~Loading(path, f[k], k)
  OBVIOUS
<1>5. CASE k = 0
  <2>1. f[0] = [ok |-> TRUE, m |-> ram]
    BY <1>1, <1>2 DEF Steps
  <2>2. InPlace(path, ram, 0)
    BY DEF InPlace
  <2> QED BY <1>4, <1>5, <2>1, <2>2 DEF Loading
<1>6. CASE k # 0
  <2>1. k \in 1 .. Len(Segments(path)) /\ k - 1 \in 0 .. n /\ k - 1 < k
    BY <1>1, <1>4, <1>6
  <2>2. Loading(path, f[k - 1], k - 1)
    BY <1>3, <2>1
  <2>3. f[k] = LoadSegment(path, f[k - 1], Segments(path)[k])
    BY <1>2, <1>4, <1>6 DEF Steps
  <2> QED BY <1>4, <2>1, <2>2, <2>3, LoadSegmentKeeps
<1> QED BY <1>5, <1>6

\* A load that succeeds leaves the whole image in place, below the heap.
LEMMA LoadElfResult ==
    ASSUME NEW path, RamTypes(ram)
    PROVE  /\ RamTypes(LoadElf(path).m)
           /\ LoadElf(path).ok =>
                 /\ path \in DOMAIN Images
                 /\ \A x \in CodeCells(path) : x \in Cells /\ x < HeapStart /\ LoadElf(path).m[x] = path
<1>1. CASE path \notin DOMAIN Images \/ ~Images[path].header
  <2>1. LoadElf(path) = [ok |-> FALSE, m |-> ram]
    BY <1>1 DEF LoadElf
  <2> QED BY <2>1
<1>2. CASE path \in DOMAIN Images /\ Images[path].header
  <2>1. PICK load : load = LoadElf(path) /\ Loading(path, load, Len(Segments(path)))
    BY <1>2, LoadElfFacts
  <2>2. RamTypes(load.m)
    BY <2>1 DEF Loading
  <2>3. ASSUME load.ok, NEW x \in CodeCells(path)
        PROVE  x \in Cells /\ x < HeapStart /\ load.m[x] = path
    <3>1. PICK seg \in Range(Segments(path)) : Loadable(seg) /\ x \in FileCells(seg)
      BY <2>3 DEF CodeCells, Segments, FileCells
    <3>2. PICK j \in DOMAIN Segments(path) : seg = Segments(path)[j]
      BY <3>1 DEF Range
    <3>3. j \in 1 .. Len(Segments(path))
      BY <1>2, SegmentFacts
    <3>4. InPlace(path, load.m, Len(Segments(path)))
      BY <2>1, <2>3 DEF Loading
    <3>5. x \in Cells /\ load.m[x] = path
      BY <3>1, <3>2, <3>3, <3>4 DEF InPlace
    <3>6. \A i \in DOMAIN Segments(path) : Loadable(Segments(path)[i]) =>
              MemAt(Segments(path)[i].vaddr, Segments(path)[i].memsz)
      BY <1>2, <3>4, SegmentFacts DEF InPlace
    <3>7. BelowHeap(Segments(path))
      BY <1>2, ImagesAssumption DEF Segments
    <3>8. seg.vaddr + seg.filesz <= HeapStart
      BY <3>1, <3>2, <3>6, <3>7 DEF BelowHeap
    <3>9. seg.vaddr \in Nat /\ seg.filesz \in Nat /\ HeapStart \in Nat
      BY <1>2, <3>2, <3>3, SegmentFacts, HeapInAperture
    <3>10. x < HeapStart
      BY <3>1, <3>8, <3>9 DEF FileCells
    <3> QED BY <3>5, <3>10
  <2> QED BY <1>2, <2>1, <2>2, <2>3
<1> QED BY <1>1, <1>2

-----------------------------------------------------------------------------
(***************************************************************************)
(* The code that runs.  While a START is pending or the device runs, the   *)
(* image is complete and lies below every buffer; a host that waits does   *)
(* not load another one meanwhile.                                         *)
(***************************************************************************)
CodeIntact(path) ==
    path \in DOMAIN Images /\ \A x \in CodeCells(path) : x \in Cells /\ x < HeapStart /\ ram[x] = path

CodeIInv ==
    /\ RamTypes(ram)
    /\ dev.status = "RUNNING" => CodeIntact(dev.run)
    /\ dev.start => CodeIntact(pc_init)

LEMMA KeepsCode ==
    ASSUME CodeIInv, UNCHANGED <<ram, pc_init, dev>>
    PROVE  CodeIInv'
  BY DEF CodeIInv, CodeIntact, RamTypes

\* Copies stay within buffers, and buffers lie above the code.
LEMMA CopyCode ==
    ASSUME CodeIInv, BufferIInv, NEW a, NEW size \in Sizes[build], GpgpuMemcpyH2D(a, size)
    PROVE  CodeIInv'
<1>1. CASE UNCHANGED fpgaVars
  BY <1>1, KeepsCode DEF fpgaVars
<1>2. CASE Fpga /\ CopyAllowed(Buffers, a, size) /\ MemAt(a, size)
  <2>1. ram' = Write(ram, a, size, "data") /\ UNCHANGED <<pc_init, dev>>
    BY <1>2 DEF GpgpuMemcpyH2D, CopyToDevice
  <2>2. a \in DOMAIN driver.buffers /\ size \in Nat
    BY <1>2, HostApiAssumption, DriverLoaderAssumption DEF CopyAllowed, Buffers, BufferIInv
  <2>3. a \in Nat /\ a >= HeapStart /\ HeapStart \in Nat
    BY <2>2, HeapInAperture DEF BufferIInv, DriverTypes, Table
  <2>4. "data" \in Tags
    BY DEF Tags
  <2>5. RamTypes(ram) /\ RamTypes(ram)'
    BY <2>1, <2>4, WriteTypes DEF CodeIInv, RamTypes
  <2>6. ASSUME NEW x \in Cells, x < HeapStart PROVE ram'[x] = ram[x]
    <3>1. x \in Int
      BY FpgaDriverAssumption DEF Cells
    <3>2. x \notin a .. a + size - 1
      BY <2>2, <2>3, <2>6, <3>1
    <3> QED BY <2>1, <2>4, <2>5, <3>2, WriteTypes
  <2>7. \A path : CodeIntact(path) => CodeIntact(path)'
    BY <2>6 DEF CodeIntact
  <2> QED BY <2>1, <2>5, <2>7 DEF CodeIInv
<1> QED BY <1>1, <1>2 DEF GpgpuMemcpyH2D

\* A launch finds no kernel running and no START pending.
LEMMA LaunchCode ==
    ASSUME WAITS, CodeIInv, SyncIInv, NEW op, NEW n, GpgpuLaunchKernel(op, n)
    PROVE  CodeIInv'
<1>1. CASE LaunchMissingPtx(op, n) \/ LaunchSimulated(op, n)
  BY <1>1, KeepsCode DEF LaunchMissingPtx, LaunchRejected, LaunchSimulated, fpgaVars
<1>2. CASE LaunchPtxFails(op, n) \/ LaunchPtx(op, n)
  BY <1>2, KeepsCode DEF LaunchPtxFails, LaunchPtx, fpgaVars
<1>3. CASE LaunchOnFpga(op, n)
  <2>1. PICK load : load = LoadElf(g_kernel_binary_path)
    OBVIOUS
  <2>2. ~dev.start /\ dev.status # "RUNNING"
    BY <1>3 DEF LaunchOnFpga, MayLaunch, SyncIInv, NothingOutstanding
  <2>3. RamTypes(ram) /\ RamTypes(load.m)
    BY <2>1, LoadElfResult DEF CodeIInv
  <2>4. CASE driver.open /\ load.ok
    <3>1. ram' = load.m /\ pc_init' = g_kernel_binary_path /\ StartDevice
      BY <1>3, <2>1, <2>4 DEF LaunchOnFpga
    <3>2. CodeIntact(pc_init)'
      BY <2>1, <2>3, <2>4, <3>1, LoadElfResult DEF CodeIntact
    <3>3. dev'.status = dev.status
      BY <3>1 DEF StartDevice, SyncIInv, DeviceTypes
    <3>4. RamTypes(ram)'
      BY <2>3, <3>1 DEF RamTypes
    <3> QED BY <2>2, <3>2, <3>3, <3>4 DEF CodeIInv
  <2>5. CASE ~(driver.open /\ load.ok)
    <3>1. (ram' = load.m \/ ram' = ram) /\ UNCHANGED dev
      BY <1>3, <2>1, <2>5 DEF LaunchOnFpga
    <3>2. RamTypes(ram)'
      BY <2>3, <3>1 DEF RamTypes
    <3> QED BY <2>2, <3>1, <3>2 DEF CodeIInv
  <2> QED BY <2>4, <2>5
<1> QED BY <1>1, <1>2, <1>3 DEF GpgpuLaunchKernel

\* The device runs what pc_init held when it took START.
LEMMA DeviceCode ==
    ASSUME CodeIInv, SyncIInv, Device
    PROVE  CodeIInv'
<1>1. UNCHANGED <<ram, pc_init>>
  BY DEF Device, DeviceTakesStart, DeviceEnds
<1>2. \A path : CodeIntact(path) => CodeIntact(path)'
  BY <1>1 DEF CodeIntact
<1>3. RamTypes(ram)'
  BY <1>1 DEF CodeIInv, RamTypes
<1>4. CASE DeviceTakesStart
  <2>1. \/ dev' = [status |-> "RUNNING", start |-> FALSE, run |-> pc_init, wanted |-> "running"]
        \/ dev' = [dev EXCEPT !.start = FALSE]
    BY <1>4 DEF DeviceTakesStart
  <2>2. CASE dev' = [status |-> "RUNNING", start |-> FALSE, run |-> pc_init, wanted |-> "running"]
    <3>1. dev'.run = pc_init /\ ~dev'.start
      BY <2>2
    <3>2. CodeIntact(pc_init)
      BY <1>4 DEF DeviceTakesStart, CodeIInv
    <3> QED BY <1>2, <1>3, <3>1, <3>2 DEF CodeIInv
  <2>3. CASE dev' = [dev EXCEPT !.start = FALSE]
    <3>1. dev'.status = dev.status /\ dev'.run = dev.run /\ ~dev'.start
      BY <2>3 DEF SyncIInv, DeviceTypes
    <3> QED BY <1>2, <1>3, <3>1 DEF CodeIInv
  <2> QED BY <2>1, <2>2, <2>3
<1>5. CASE DeviceEnds
  <2>1. PICK s \in {"DONE", "ERROR"} :
          dev' = [dev EXCEPT !.status = s, !.wanted = IF @ = "running" THEN "ended" ELSE @]
    BY <1>5 DEF DeviceEnds
  <2>2. dev'.status # "RUNNING" /\ dev'.start = dev.start
    BY <2>1 DEF SyncIInv, DeviceTypes
  <2> QED BY <1>1, <1>2, <1>3, <2>2 DEF CodeIInv
<1> QED BY <1>4, <1>5 DEF Device

LEMMA NextCode ==
    ASSUME WAITS, CodeIInv, SyncIInv, BufferIInv, [Next]_vars
    PROVE  CodeIInv'
<1>1. CASE UNCHANGED vars
  BY <1>1, KeepsCode DEF vars, fpgaVars
<1>2. CASE ApiCall
  <2>1. ASSUME NEW size, GpgpuMalloc(size) PROVE CodeIInv'
    BY <2>1, KeepsCode DEF GpgpuMalloc, AllocateBuffer, fpgaVars
  <2>2. ASSUME NEW a, GpgpuFree(a) PROVE CodeIInv'
    BY <2>2, KeepsCode DEF GpgpuFree, FreeBuffer, fpgaVars
  <2>3. CASE SetKernelArgument \/ ClearKernelArguments \/ InstallKernelExecutionBackend
    BY <2>3, KeepsCode DEF SetKernelArgument, ClearKernelArguments, InstallKernelExecutionBackend, fpgaVars
  <2>4. CASE LaunchRejected("launch") \/ SynchronizeSimulated \/ SynchronizeFpga
    BY <2>4, KeepsCode DEF LaunchRejected, SynchronizeSimulated, SynchronizeFpga, fpgaVars
  <2>5. CASE OpenOrClose
    BY <2>5, KeepsCode DEF OpenOrClose, OpenDriver, CloseDriver
  <2>6. CASE Reset
    <3>1. UNCHANGED <<ram, pc_init>> /\ dev'.status # "RUNNING" /\ ~dev'.start
      BY <2>6 DEF Reset, ResetDevice
    <3> QED BY <3>1 DEF CodeIInv, RamTypes
  <2> QED BY <1>2, <2>1, <2>2, <2>3, <2>4, <2>5, <2>6, CopyCode, LaunchCode DEF ApiCall
<1>3. CASE Polling
  BY <1>3, KeepsCode DEF Polling, PollRunning, PollAgain, LaunchDeadline, PollDone, SyncDeadline, fpgaVars
<1>4. CASE \/ \E n \in Names : \E src \in Sources[build] : AppRegisterPtx(n, src)
           \/ \E n \in Names : AppUnregisterPtx(n)
           \/ AppShutdown \/ UnloadKernelBundle
  BY <1>4, KeepsCode DEF AppRegisterPtx, GpgpuRegisterPtx, AppUnregisterPtx, GpgpuUnregisterPtx,
     AppShutdown, ShutdownHostAPI, UnloadKernelBundle, fpgaVars
<1>5. ASSUME NEW m, Upload(m) \/ UploadFails(m) PROVE CodeIInv'
  <2>1. UNCHANGED fpgaVars
    <3>1. CASE Upload(m)
      BY <3>1 DEF Upload
    <3> QED BY <1>5, <3>1 DEF UploadFails
  <2> QED BY <2>1, KeepsCode DEF fpgaVars
<1>6. ASSUME NEW n, LaunchRefused(n) \/ LaunchPtxBundle(n) \/ LaunchElfBundle(n) PROVE CodeIInv'
  <2>1. CASE LaunchRejected("runtime_launch")
    BY <2>1, KeepsCode DEF LaunchRejected, fpgaVars
  <2>2. CASE LaunchElfBundle(n)
    BY <2>2, KeepsCode DEF LaunchElfBundle, fpgaVars
  <2> QED BY <1>6, <2>1, <2>2, LaunchCode DEF LaunchRefused, LaunchPtxBundle
<1> QED BY <1>1, <1>2, <1>3, <1>4, <1>5, <1>6, DeviceCode DEF Next

-----------------------------------------------------------------------------
(***************************************************************************)
(* Types of what calls return, of the staged arguments and of the names.   *)
(***************************************************************************)
LastTypes ==
    /\ last.op \in {"other", "launch", "runtime_launch", "sync"}
    /\ last.ran \in {"nothing", "driver", "fpga", "backend"}

StagedTypes == g_staged_args \in 0 .. MAX_STAGED /\ staged_since = g_staged_args

NameTypes ==
    /\ g_required_ptx \subseteq Names /\ DOMAIN g_registered_ptx \subseteq Names
    /\ current.name \in Names \cup {"none"} /\ current.format \in {"elf", "ptx"}

LEMMA ReturnsTypes ==
    ASSUME NEW op \in {"other", "launch", "runtime_launch", "sync"},
           NEW ran \in {"nothing", "driver", "fpga", "backend"}, NEW ok, Returns(op, ok, ran)
    PROVE  LastTypes'
<1>1. last' = [op |-> op, ok |-> ok, ran |-> ran]
  BY DEF Returns
<1>2. last'.op = op /\ last'.ran = ran
  BY <1>1
<1> QED BY <1>2 DEF LastTypes

LEMMA KeepsLast ==
    ASSUME LastTypes, UNCHANGED last PROVE LastTypes'
  BY DEF LastTypes

LEMMA NextLast ==
    ASSUME CallTypes, LastTypes, [Next]_vars
    PROVE  LastTypes'
<1>1. ASSUME NEW op \in {"launch", "runtime_launch"}, NEW n, GpgpuLaunchKernel(op, n) PROVE LastTypes'
  <2>1. op \in {"other", "launch", "runtime_launch", "sync"}
    BY <1>1
  <2>2. CASE LaunchMissingPtx(op, n) \/ LaunchSimulated(op, n) \/ LaunchPtxFails(op, n)
    BY <2>1, <2>2, ReturnsTypes DEF LaunchMissingPtx, LaunchRejected, LaunchSimulated, LaunchPtxFails
  <2>3. CASE LaunchOnFpga(op, n)
    <3>1. Returns(op, FALSE, "nothing") \/ UNCHANGED last
      BY <2>3 DEF LaunchOnFpga
    <3> QED BY <2>1, <3>1, ReturnsTypes, KeepsLast
  <2>4. CASE LaunchPtx(op, n)
    <3>1. PICK executed \in BOOLEAN : Returns(op, executed, IF executed THEN "backend" ELSE "nothing")
      BY <2>4 DEF LaunchPtx
    <3>2. PICK ran : ran = (IF executed THEN "backend" ELSE "nothing") /\ ran \in {"backend", "nothing"}
      OBVIOUS
    <3>3. Returns(op, executed, ran)
      BY <3>1, <3>2
    <3> QED BY <2>1, <3>2, <3>3, ReturnsTypes
  <2> QED BY <1>1, <2>2, <2>3, <2>4 DEF GpgpuLaunchKernel
<1>2. CASE UNCHANGED last
  BY <1>2, KeepsLast
<1>3. ASSUME Returns("other", TRUE, "nothing") PROVE LastTypes'
  BY <1>3, ReturnsTypes
<1>4. CASE ApiCall
  <2>1. \/ UNCHANGED last \/ Returns("other", TRUE, "nothing")
        \/ LaunchRejected("launch") \/ SynchronizeSimulated \/ SynchronizeFpga
        \/ \E n \in Names : GpgpuLaunchKernel("launch", n)
    BY <1>4 DEF ApiCall, GpgpuMalloc, GpgpuMemcpyH2D, GpgpuFree, SetKernelArgument, ClearKernelArguments,
       InstallKernelExecutionBackend, OpenOrClose, Reset, Done
  <2>2. CASE LaunchRejected("launch")
    BY <2>2, ReturnsTypes DEF LaunchRejected
  <2>3. CASE SynchronizeSimulated
    BY <2>3, ReturnsTypes DEF SynchronizeSimulated
  <2>4. CASE SynchronizeFpga
    <3>1. Returns("sync", FALSE, "nothing") \/ UNCHANGED last
      BY <2>4 DEF SynchronizeFpga
    <3> QED BY <1>2, <3>1, ReturnsTypes
  <2> QED BY <1>1, <1>2, <1>3, <2>1, <2>2, <2>3, <2>4
<1>5. CASE Polling
  <2>1. call # NoCall
    BY <1>5 DEF Polling, PollRunning, PollAgain, LaunchDeadline, PollDone, SyncDeadline
  <2>2. call.op \in {"other", "launch", "runtime_launch", "sync"}
    BY <2>1 DEF CallTypes
  <2>3. \/ UNCHANGED last \/ Returns(call.op, TRUE, "fpga") \/ Returns(call.op, FALSE, "nothing")
        \/ Returns("sync", TRUE, "nothing") \/ Returns("sync", FALSE, "nothing")
    BY <1>5 DEF Polling, PollRunning, PollAgain, LaunchDeadline, PollDone, SyncDeadline
  <2> QED BY <1>2, <2>2, <2>3, ReturnsTypes
<1>6. CASE Device
  BY <1>6, <1>2 DEF Device, apiVars
<1>7. ASSUME \/ \E n \in Names : \E src \in Sources[build] : AppRegisterPtx(n, src)
             \/ \E n \in Names : AppUnregisterPtx(n)
             \/ AppShutdown \/ UnloadKernelBundle
      PROVE  LastTypes'
  BY <1>3, <1>7 DEF AppRegisterPtx, GpgpuRegisterPtx, AppUnregisterPtx, GpgpuUnregisterPtx,
     AppShutdown, ShutdownHostAPI, UnloadKernelBundle, Done
<1>8. ASSUME NEW m, Upload(m) \/ UploadFails(m) PROVE LastTypes'
  <2>1. CASE Upload(m)
    BY <1>3, <2>1 DEF Upload, Done
  <2> QED BY <1>3, <1>8, <2>1 DEF UploadFails, Done
<1>9. ASSUME NEW n, LaunchRefused(n) \/ LaunchPtxBundle(n) \/ LaunchElfBundle(n) PROVE LastTypes'
  <2>1. CASE LaunchRejected("runtime_launch")
    BY <2>1, ReturnsTypes DEF LaunchRejected
  <2>2. CASE LaunchElfBundle(n)
    BY <2>2, ReturnsTypes DEF LaunchElfBundle
  <2> QED BY <1>1, <1>9, <2>1, <2>2 DEF LaunchRefused, LaunchPtxBundle
<1>10. CASE UNCHANGED vars
  BY <1>2, <1>10 DEF vars, apiVars
<1> QED BY <1>4, <1>5, <1>6, <1>7, <1>8, <1>9, <1>10 DEF Next

LEMMA NextStaged ==
    ASSUME StagedTypes, [Next]_vars
    PROVE  StagedTypes'
<1>1. CASE UNCHANGED <<g_staged_args, staged_since>>
  BY <1>1 DEF StagedTypes
<1>2. CASE g_staged_args' = 0 /\ staged_since' = 0
  BY <1>2, HostApiAssumption DEF StagedTypes
<1>3. CASE SetKernelArgument
  <2>1. /\ g_staged_args < MAX_STAGED
        /\ g_staged_args' = g_staged_args + 1 /\ staged_since' = staged_since + 1
    BY <1>3 DEF SetKernelArgument
  <2> QED BY <2>1, HostApiAssumption DEF StagedTypes
<1>4. ASSUME NEW op, NEW n, GpgpuLaunchKernel(op, n) PROVE StagedTypes'
  BY <1>1, <1>2, <1>4 DEF GpgpuLaunchKernel, LaunchMissingPtx, LaunchRejected, LaunchSimulated,
     LaunchOnFpga, LaunchPtxFails, LaunchPtx, Consume, apiUnchanged
<1>5. CASE ApiCall
  <2>1. \/ UNCHANGED <<g_staged_args, staged_since>>
        \/ g_staged_args' = 0 /\ staged_since' = 0
        \/ SetKernelArgument
        \/ \E n \in Names : GpgpuLaunchKernel("launch", n)
    BY <1>5 DEF ApiCall, GpgpuMalloc, GpgpuMemcpyH2D, GpgpuFree, ClearKernelArguments,
       InstallKernelExecutionBackend, LaunchRejected, SynchronizeSimulated, SynchronizeFpga,
       OpenOrClose, Reset, apiUnchanged
  <2> QED BY <1>1, <1>2, <1>3, <1>4, <2>1
<1>6. CASE Polling
  BY <1>1, <1>2, <1>6 DEF Polling, PollRunning, PollAgain, LaunchDeadline, PollDone, SyncDeadline,
     Consume, apiUnchanged
<1>7. CASE Device
  BY <1>1, <1>7 DEF Device, apiVars
<1>8. CASE \/ \E n \in Names : \E src \in Sources[build] : AppRegisterPtx(n, src)
           \/ \E n \in Names : AppUnregisterPtx(n)
           \/ AppShutdown \/ UnloadKernelBundle
  BY <1>1, <1>2, <1>8 DEF AppRegisterPtx, GpgpuRegisterPtx, AppUnregisterPtx, GpgpuUnregisterPtx,
     AppShutdown, ShutdownHostAPI, UnloadKernelBundle
<1>9. ASSUME NEW m, Upload(m) \/ UploadFails(m) PROVE StagedTypes'
  <2>1. CASE Upload(m)
    BY <1>1, <2>1 DEF Upload
  <2> QED BY <1>1, <1>9, <2>1 DEF UploadFails, apiUnchanged
<1>10. ASSUME NEW n, LaunchRefused(n) \/ LaunchPtxBundle(n) \/ LaunchElfBundle(n) PROVE StagedTypes'
  BY <1>1, <1>4, <1>10 DEF LaunchRefused, LaunchPtxBundle, LaunchElfBundle, LaunchRejected, apiUnchanged
<1>11. CASE UNCHANGED vars
  BY <1>1, <1>11 DEF vars, apiVars
<1> QED BY <1>5, <1>6, <1>7, <1>8, <1>9, <1>10, <1>11 DEF Next

LEMMA NextNames ==
    ASSUME build \in Builds, NameTypes, [Next]_vars
    PROVE  NameTypes'
<1>1. CASE UNCHANGED <<g_required_ptx, g_registered_ptx, current>>
  BY <1>1 DEF NameTypes
<1>2. ASSUME NEW op, NEW n, GpgpuLaunchKernel(op, n) PROVE UNCHANGED <<g_required_ptx, g_registered_ptx>>
  BY <1>2 DEF GpgpuLaunchKernel, LaunchMissingPtx, LaunchRejected, LaunchSimulated,
     LaunchOnFpga, LaunchPtxFails, LaunchPtx, apiUnchanged
<1>3. CASE (ApiCall \/ Polling \/ Device) /\ UNCHANGED runtimeVars
  <2>1. CASE ApiCall
    <3>1. UNCHANGED <<g_required_ptx, g_registered_ptx>>
      BY <1>2, <2>1 DEF ApiCall, GpgpuMalloc, GpgpuMemcpyH2D, GpgpuFree, SetKernelArgument,
         ClearKernelArguments, InstallKernelExecutionBackend, LaunchRejected, SynchronizeSimulated,
         SynchronizeFpga, OpenOrClose, Reset, apiUnchanged
    <3> QED BY <1>1, <1>3, <3>1 DEF runtimeVars
  <2>2. CASE Polling
    BY <1>1, <1>3, <2>2 DEF Polling, PollRunning, PollAgain, LaunchDeadline, PollDone, SyncDeadline,
       apiUnchanged, runtimeVars
  <2>3. CASE Device
    BY <1>1, <1>3, <2>3 DEF Device, apiVars, runtimeVars
  <2> QED BY <1>3, <2>1, <2>2, <2>3
<1>4. ASSUME NEW n \in Names, NEW src, AppRegisterPtx(n, src) PROVE NameTypes'
  BY <1>4 DEF AppRegisterPtx, GpgpuRegisterPtx, Registered, NameTypes
<1>5. ASSUME NEW n \in Names, AppUnregisterPtx(n) PROVE NameTypes'
  BY <1>5 DEF AppUnregisterPtx, GpgpuUnregisterPtx, Unregistered, NameTypes
<1>6. CASE AppShutdown
  <2>1. g_required_ptx' = {} /\ g_registered_ptx' = << >> /\ UNCHANGED current
    BY <1>6 DEF AppShutdown, ShutdownHostAPI
  <2>2. DOMAIN g_registered_ptx' = {}
    BY <2>1
  <2> QED BY <2>1, <2>2 DEF NameTypes
<1>7. ASSUME NEW m \in Manifests[build], Upload(m) PROVE NameTypes'
  <2>1. m.kernel_name \in Names /\ m.format \in {"elf", "ptx"}
    BY <1>7, HostRuntimeAssumption DEF Upload, Uploadable, InspectKernelBundle
  <2>2. current' = [loaded |-> TRUE, name |-> m.kernel_name, format |-> m.format,
                    owned |-> m.format = "ptx",
                    source |-> IF m.format = "ptx" THEN Files[m.path].source ELSE ""]
    BY <1>7 DEF Upload
  <2>3. current'.name = m.kernel_name /\ current'.format = m.format
    BY <2>2
  <2>4. g_required_ptx' \subseteq g_required_ptx \cup {m.kernel_name}
    BY <1>7 DEF Upload
  <2>5. DOMAIN g_registered_ptx' \subseteq DOMAIN g_registered_ptx \cup {m.kernel_name}
    BY <1>7 DEF Upload, Registered
  <2> QED BY <2>1, <2>3, <2>4, <2>5 DEF NameTypes
<1>8. ASSUME NEW m, UploadFails(m) PROVE NameTypes'
  BY <1>1, <1>8 DEF UploadFails, apiUnchanged, runtimeVars
<1>9. CASE UnloadKernelBundle
  <2>1. /\ g_required_ptx' \subseteq g_required_ptx /\ DOMAIN g_registered_ptx' \subseteq DOMAIN g_registered_ptx
        /\ current'.name = "none" /\ current'.format = "elf"
    BY <1>9 DEF UnloadKernelBundle, NoBundle
  <2> QED BY <2>1 DEF NameTypes
<1>10. ASSUME NEW n, LaunchRefused(n) \/ LaunchPtxBundle(n) \/ LaunchElfBundle(n) PROVE NameTypes'
  BY <1>1, <1>2, <1>10 DEF LaunchRefused, LaunchPtxBundle, LaunchElfBundle, LaunchRejected, apiUnchanged,
     runtimeVars
<1>11. CASE UNCHANGED vars
  BY <1>1, <1>11 DEF vars, apiVars, runtimeVars
<1> QED BY <1>3, <1>4, <1>5, <1>6, <1>7, <1>8, <1>9, <1>10, <1>11 DEF Next

MemoryIInv ==
    /\ LaunchIInv /\ SyncIInv /\ BufferIInv /\ CodeIInv
    /\ LastTypes /\ StagedTypes /\ NameTypes

LEMMA InitMemory == Init => MemoryIInv
<1> SUFFICES ASSUME Init PROVE MemoryIInv
  OBVIOUS
<1>1. LaunchIInv
  BY DEF Init, LoaderInit, ApiInit, LaunchIInv, CallTypes, ExecSettled, ArgumentsFresh, NoCall
<1>2. CodeIInv
  <2>1. /\ ram = [a \in Cells |-> "none"]
        /\ dev = [status |-> "IDLE", start |-> FALSE, run |-> NoPath, wanted |-> "none"]
    BY DEF Init, FpgaInit
  <2>2. RamTypes(ram)
    BY <2>1 DEF RamTypes, Tags
  <2> QED BY <2>1, <2>2 DEF CodeIInv
<1>3. LastTypes
  BY DEF Init, ApiInit, LastTypes
<1>4. StagedTypes
  BY HostApiAssumption DEF Init, ApiInit, StagedTypes
<1>5. NameTypes
  <2>1. g_required_ptx = {} /\ g_registered_ptx = << >> /\ current = NoBundle
    BY DEF Init, ApiInit
  <2>2. DOMAIN g_registered_ptx = {}
    BY <2>1
  <2>3. current.name = "none" /\ current.format = "elf"
    BY <2>1 DEF NoBundle
  <2> QED BY <2>1, <2>2, <2>3 DEF NameTypes
<1> QED BY <1>1, <1>2, <1>3, <1>4, <1>5, InitSync, InitBuffers DEF MemoryIInv

LEMMA NextMemory ==
    ASSUME WAITS, NoWrap, MemoryIInv, [Next]_vars
    PROVE  MemoryIInv'
<1>1. CallTypes /\ build \in Builds
  BY DEF MemoryIInv, LaunchIInv, BufferIInv
<1>2. LaunchIInv' /\ SyncIInv' /\ BufferIInv'
  BY NextLaunchInv, NextSync, NextBuffers DEF MemoryIInv
<1>3. CodeIInv'
  BY NextCode DEF MemoryIInv
<1>4. LastTypes' /\ StagedTypes' /\ NameTypes'
  BY <1>1, NextLast, NextStaged, NextNames DEF MemoryIInv
<1> QED BY <1>2, <1>3, <1>4 DEF MemoryIInv

(***************************************************************************)
(* Device memory, for every aperture, set of images below the heap and     *)
(* sequence of calls of a host that waits for its kernels and asks for no  *)
(* size near the greatest size_t (NoWrap): buffers never meet each other   *)
(* or the code, and while the device runs, its code is the complete image  *)
(* of the kernel that was launched, through copies, frees, re-opens and    *)
(* loads that failed half way (fpga_driver.cpp:154,                        *)
(* fpga_elf_loader.cpp:102).  Without NoWrap a copy may overwrite the code *)
(* that runs.                                                              *)
(***************************************************************************)
THEOREM DeviceMemoryProof ==
    ASSUME WAITS, NoWrap
    PROVE  Spec => []DeviceMemoryInv
<1>1. MemoryIInv => DeviceMemoryInv
  <2> SUFFICES ASSUME MemoryIInv PROVE DeviceMemoryInv
    OBVIOUS
  <2>1. TypeOK
    BY HostApiAssumption DEF MemoryIInv, LaunchIInv, ExecSettled, SyncIInv, DeviceTypes, CodeIInv,
       RamTypes, Tags, LastTypes, StagedTypes, NameTypes, TypeOK
  <2>2. RunningCodeIntact
    BY DEF MemoryIInv, CodeIInv, CodeIntact, RunningCodeIntact
  <2> QED BY <2>1, <2>2, BuffersApart DEF MemoryIInv, DeviceMemoryInv
<1>2. MemoryIInv /\ [Next]_vars => MemoryIInv'
  BY NextMemory
<1> QED BY <1>1, <1>2, InitMemory, PTL DEF Spec
=============================================================================
