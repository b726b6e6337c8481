------------------------------ MODULE HostApi ------------------------------
(***************************************************************************)
(* The host API (software/host_api/host_api.cpp) in its two builds: with   *)
(* FPGA_TARGET a launch programs the device and gpgpuSynchronize() polls   *)
(* it, without it launches finish within the call.  A kernel registered as *)
(* PTX is compiled and handed to the execution backend in both.            *)
(*                                                                         *)
(* A call is one step unless it polls the device: then the device moves    *)
(* between its steps, and call says how far it is.                         *)
(***************************************************************************)
EXTENDS FpgaDriver

CONSTANTS
    Names,          \* kernel names
    Sources,        \* build -> PTX texts the application has; a text stands
                    \* for the entry it compiles to, or for BadSource
    BadSource,      \* a PTX text that does not compile
    Sizes,          \* build -> sizes of buffers and copies
    Builds,         \* subset of {"sim", "fpga"}
    WAITS,          \* TRUE: a host that launches again only after a
                    \* successful synchronize or a reset
    MAX_STAGED      \* bound on staged arguments

\* A size is a size_t.
ASSUME HostApiAssumption ==
    MAX_STAGED \in Nat /\ \A b \in Builds : Sizes[b] \subseteq 0 .. SIZE_VALUES - 1

VARIABLES
    build,
    g_staged_args,          \* number of staged arguments
    g_registered_ptx,       \* name -> source
    g_required_ptx,
    g_execution_backend,    \* is one installed
    call,                   \* the polling call in progress
    last,                   \* the result of the last call if a launch or synchronize
    outstanding,            \* history: START written, not waited for
    staged_since            \* history: arguments set since the last launch

apiVars ==
    <<build, g_staged_args, g_registered_ptx, g_required_ptx, g_execution_backend, call, last,
      outstanding, staged_since>>

NoCall == [op |-> "none"]

ApiInit ==
    /\ build \in Builds
    /\ g_staged_args = 0 /\ g_registered_ptx = << >> /\ g_required_ptx = {}
    /\ g_execution_backend = FALSE
    /\ call = NoCall /\ last = [op |-> "other", ok |-> TRUE, ran |-> "nothing"]
    /\ outstanding = FALSE /\ staged_since = 0

Fpga == build = "fpga"
Idle == call = NoCall

\* A launch or synchronize returns; ran is who executed the kernel.
Returns(op, ok, ran) == call' = NoCall /\ last' = [op |-> op, ok |-> ok, ran |-> ran]

\* Any other call returns.
Done == Returns("other", TRUE, "nothing")
-----------------------------------------------------------------------------
(***************************************************************************)
(* Memory, arguments, PTX registry.                                        *)
(***************************************************************************)
apiUnchanged ==
    UNCHANGED <<build, g_staged_args, g_registered_ptx, g_required_ptx, g_execution_backend,
                outstanding, staged_since>>

GpgpuMalloc(size) ==
    /\ Idle
    /\ IF size = 0 \/ (Fpga /\ ~HasRoom(size)) THEN UNCHANGED <<fpgaVars, loaderVars>>
       ELSE IF Fpga THEN AllocateBuffer(size) /\ UNCHANGED loaderVars
       ELSE /\ AllocateSimulated(size)
            /\ UNCHANGED <<fpgaVars, g_kernel_binary_path, g_launch_configured, g_exec_state>>
    /\ Done
    /\ apiUnchanged

Buffers == IF Fpga THEN driver.buffers ELSE g_device_buffers

GpgpuFree(a) ==
    /\ Idle /\ a \in DOMAIN Buffers
    /\ IF Fpga
         THEN FreeBuffer(a) /\ UNCHANGED loaderVars
         ELSE /\ FreeSimulated(a)
              /\ UNCHANGED <<fpgaVars, g_kernel_binary_path, g_launch_configured, g_exec_state>>
    /\ Done
    /\ apiUnchanged

\* From a block of the host; also when a kernel is running.
GpgpuMemcpyH2D(a, size) ==
    /\ Idle /\ size <= HOST_MEMORY
    /\ IF Fpga /\ CopyAllowed(Buffers, a, size) /\ MemAt(a, size) THEN CopyToDevice(a, size)
       ELSE UNCHANGED fpgaVars
    /\ Done
    /\ UNCHANGED loaderVars /\ apiUnchanged

SetKernelArgument ==
    /\ Idle /\ g_staged_args < MAX_STAGED
    /\ g_staged_args' = g_staged_args + 1
    /\ staged_since' = staged_since + 1
    /\ Done
    /\ UNCHANGED <<build, g_registered_ptx, g_required_ptx, g_execution_backend, outstanding,
                   fpgaVars, loaderVars>>

ClearKernelArguments ==
    /\ Idle
    /\ g_staged_args' = 0 /\ staged_since' = 0
    /\ Done
    /\ UNCHANGED <<build, g_registered_ptx, g_required_ptx, g_execution_backend, outstanding,
                   fpgaVars, loaderVars>>

\* The registry with n added, or without it.
Registered(n, src) ==
    [x \in DOMAIN g_registered_ptx \cup {n} |-> IF x = n THEN src ELSE g_registered_ptx[x]]
Unregistered(n) == [x \in DOMAIN g_registered_ptx \ {n} |-> g_registered_ptx[x]]

GpgpuRegisterPtx(n, src) ==
    /\ Idle
    /\ g_registered_ptx' = Registered(n, src)
    /\ Done
    /\ UNCHANGED <<build, g_staged_args, g_required_ptx, g_execution_backend, outstanding,
                   staged_since, fpgaVars, loaderVars>>

GpgpuUnregisterPtx(n) ==
    /\ Idle
    /\ g_registered_ptx' = Unregistered(n)
    /\ Done
    /\ UNCHANGED <<build, g_staged_args, g_required_ptx, g_execution_backend, outstanding,
                   staged_since, fpgaVars, loaderVars>>

InstallKernelExecutionBackend ==
    /\ Idle /\ ~g_execution_backend
    /\ g_execution_backend' = TRUE
    /\ UNCHANGED <<build, g_staged_args, g_registered_ptx, g_required_ptx, call, last, outstanding,
                   staged_since, fpgaVars, loaderVars>>

\* The driver keeps its buffers, launch and execution state.
ShutdownHostAPI ==
    /\ Idle
    /\ g_staged_args' = 0 /\ g_registered_ptx' = << >> /\ g_required_ptx' = {}
    /\ g_execution_backend' = FALSE
    /\ staged_since' = 0
    /\ Done
    /\ UNCHANGED <<build, outstanding, fpgaVars, loaderVars>>
-----------------------------------------------------------------------------
(***************************************************************************)
(* gpgpuLaunchKernel(): op is the caller's name for the call.  Arguments   *)
(* passed with it are left out: without any the staged ones are used.      *)
(***************************************************************************)
MayLaunch == Idle /\ (WAITS => ~outstanding)

\* A launch that succeeded has used up its arguments.
Consume == g_staged_args' = 0 /\ staged_since' = 0

\* Early returns: nothing has been configured.
LaunchRejected(op) ==
    /\ MayLaunch
    /\ Returns(op, FALSE, "nothing")
    /\ UNCHANGED <<fpgaVars, loaderVars>> /\ apiUnchanged

MissingPtx(n) == n \in g_required_ptx

\* No PTX, simulation build: the state machine of the driver is stepped.
LaunchSimulated(op, n) ==
    /\ MayLaunch /\ n \notin DOMAIN g_registered_ptx /\ ~MissingPtx(n) /\ ~Fpga
    /\ ConfigureLaunch
    /\ g_exec_state' = StartKernel("CONFIGURED")
    /\ Consume
    /\ Returns(op, TRUE, "driver")
    /\ UNCHANGED <<build, g_registered_ptx, g_required_ptx, g_execution_backend, outstanding,
                   g_device_buffers, g_next_dev_addr, g_kernel_binary_path, fpgaVars>>

\* No PTX, FPGA build: launchKernelOnFpga() up to START.
LaunchOnFpga(op, n) ==
    /\ MayLaunch /\ n \notin DOMAIN g_registered_ptx /\ ~MissingPtx(n) /\ Fpga
    /\ ConfigureLaunch
    /\ \E load \in {LoadElf(g_kernel_binary_path)} :
         IF driver.open /\ load.ok
           THEN /\ ram' = load.m
                /\ pc_init' = g_kernel_binary_path
                /\ StartDevice
                /\ outstanding' = TRUE
                /\ call' = [op |-> op, polled |-> FALSE] /\ UNCHANGED last
                /\ g_exec_state' = BeginKernelExecution("CONFIGURED")
           ELSE /\ ram' = IF driver.open THEN load.m ELSE ram
                /\ UNCHANGED <<pc_init, dev, outstanding>>
                /\ Returns(op, FALSE, "nothing")
                /\ g_exec_state' = FinishKernelExecution(BeginKernelExecution("CONFIGURED"), FALSE)
    /\ UNCHANGED <<build, g_staged_args, g_registered_ptx, g_required_ptx, g_execution_backend,
                   staged_since, driver, g_device_buffers, g_next_dev_addr,
                   g_kernel_binary_path>>

\* Fault: the launch is not waited for.
PollNothing ==
    /\ call # NoCall /\ call.op # "sync" /\ ~call.polled
    /\ Consume /\ Returns(call.op, TRUE, "fpga")
    /\ UNCHANGED <<build, g_registered_ptx, g_required_ptx, g_execution_backend, outstanding,
                   fpgaVars, loaderVars>>

\* waitForStatus(RUNNING, 10): a poll that is not lucky, then the clock.
PollRunning ==
    /\ call # NoCall /\ call.op # "sync" /\ ~call.polled
    /\ IF dev.status = "RUNNING"
         THEN Consume /\ Returns(call.op, TRUE, "fpga")
         ELSE /\ call' = [call EXCEPT !.polled = TRUE]
              /\ UNCHANGED <<last, g_staged_args, staged_since>>
    /\ UNCHANGED <<build, g_registered_ptx, g_required_ptx, g_execution_backend, outstanding,
                   fpgaVars, loaderVars>>

PollAgain ==
    /\ call # NoCall /\ call.polled
    /\ call' = [call EXCEPT !.polled = FALSE]
    /\ UNCHANGED <<last, fpgaVars, loaderVars>> /\ apiUnchanged

\* Past the deadline, by which START has been taken: DONE is accepted too.
LaunchDeadline ==
    /\ call # NoCall /\ call.op # "sync" /\ call.polled /\ ~dev.start
    /\ IF dev.status = "DONE"
         THEN /\ Consume /\ Returns(call.op, TRUE, "fpga")
              /\ UNCHANGED g_exec_state
         ELSE /\ UNCHANGED <<g_staged_args, staged_since>> /\ Returns(call.op, FALSE, "nothing")
              /\ g_exec_state' = FinishKernelExecution(g_exec_state, FALSE)
    /\ UNCHANGED <<build, g_registered_ptx, g_required_ptx, g_execution_backend, outstanding,
                   fpgaVars, g_device_buffers, g_next_dev_addr, g_kernel_binary_path,
                   g_launch_configured>>
-----------------------------------------------------------------------------
(***************************************************************************)
(* A kernel registered as PTX.                                             *)
(***************************************************************************)
\* What PtxTranspiler::compile() makes of a source, and what is wanted.
Compiles(n) == g_registered_ptx[n] # BadSource /\ g_registered_ptx[n] = n

\* Fault: a launch that finds no backend is left configured.
NoBackendStateForgotten == "CONFIGURED"

NoBackendState == FinishKernelExecution("CONFIGURED", FALSE)

\* The text does not compile, or to another entry; or there is no backend.
LaunchPtxFails(op, n) ==
    /\ MayLaunch /\ n \in DOMAIN g_registered_ptx
    /\ ~Compiles(n) \/ ~g_execution_backend
    /\ ConfigureLaunch
    /\ g_exec_state' = IF Compiles(n) THEN NoBackendState
                       ELSE FinishKernelExecution("CONFIGURED", FALSE)
    /\ g_staged_args' = 0 /\ staged_since' = 0
    /\ Returns(op, FALSE, "nothing")
    /\ UNCHANGED <<build, g_registered_ptx, g_required_ptx, g_execution_backend, outstanding,
                   g_device_buffers, g_next_dev_addr, g_kernel_binary_path, fpgaVars>>

\* The backend (executeWithSystemC) runs the image to its end, or fails.
LaunchPtx(op, n) ==
    /\ MayLaunch /\ n \in DOMAIN g_registered_ptx
    /\ Compiles(n) /\ g_execution_backend
    /\ ConfigureLaunch
    /\ \E executed \in BOOLEAN :
         /\ g_exec_state' = FinishKernelExecution(BeginKernelExecution("CONFIGURED"), executed)
         /\ Returns(op, executed, IF executed THEN "backend" ELSE "nothing")
    /\ g_staged_args' = 0 /\ staged_since' = 0
    /\ UNCHANGED <<build, g_registered_ptx, g_required_ptx, g_execution_backend, outstanding,
                   g_device_buffers, g_next_dev_addr, g_kernel_binary_path, fpgaVars>>

LaunchMissingPtx(op, n) == n \notin DOMAIN g_registered_ptx /\ MissingPtx(n) /\ LaunchRejected(op)

\* The validation that precedes everything else is LaunchRejected.
GpgpuLaunchKernel(op, n) ==
    \/ LaunchMissingPtx(op, n)
    \/ LaunchSimulated(op, n) \/ LaunchOnFpga(op, n)
    \/ LaunchPtxFails(op, n) \/ LaunchPtx(op, n)
-----------------------------------------------------------------------------
(***************************************************************************)
(* gpgpuSynchronize()                                                      *)
(***************************************************************************)
SynchronizeSimulated ==
    /\ Idle /\ ~Fpga
    /\ Returns("sync", g_exec_state = "COMPLETED", "nothing")
    /\ UNCHANGED <<fpgaVars, loaderVars>> /\ apiUnchanged

SynchronizeFpga ==
    /\ Idle /\ Fpga
    /\ IF driver.open THEN call' = [op |-> "sync", polled |-> FALSE] /\ UNCHANGED last
       ELSE Returns("sync", FALSE, "nothing")
    /\ UNCHANGED <<fpgaVars, loaderVars>> /\ apiUnchanged

\* waitForStatus(DONE, kSyncTimeoutMs)
PollDone ==
    /\ call # NoCall /\ call.op = "sync" /\ ~call.polled
    /\ IF dev.status = "DONE"
         THEN /\ g_exec_state' = FinishKernelExecution(g_exec_state, TRUE)
              /\ outstanding' = FALSE /\ Returns("sync", TRUE, "nothing")
         ELSE /\ call' = [call EXCEPT !.polled = TRUE]
              /\ UNCHANGED <<last, g_exec_state, outstanding>>
    /\ UNCHANGED <<build, g_staged_args, g_registered_ptx, g_required_ptx, g_execution_backend,
                   staged_since, fpgaVars, g_device_buffers, g_next_dev_addr,
                   g_kernel_binary_path, g_launch_configured>>

\* The kernel is slow or has failed.
SyncDeadline ==
    /\ call # NoCall /\ call.op = "sync" /\ call.polled
    /\ g_exec_state' = FinishKernelExecution(g_exec_state, FALSE)
    /\ Returns("sync", FALSE, "nothing")
    /\ UNCHANGED <<fpgaVars, g_device_buffers, g_next_dev_addr, g_kernel_binary_path,
                   g_launch_configured>>
    /\ apiUnchanged
-----------------------------------------------------------------------------
(***************************************************************************)
(* The application's own use of the driver.                                *)
(***************************************************************************)
OpenOrClose ==
    /\ Idle /\ Fpga
    /\ (\E works \in BOOLEAN : OpenDriver(works)) \/ CloseDriver
    /\ Done
    /\ UNCHANGED loaderVars /\ apiUnchanged

Reset ==
    /\ Idle /\ Fpga /\ driver.open
    /\ ResetDevice
    /\ outstanding' = FALSE /\ Done
    /\ UNCHANGED <<build, g_staged_args, g_registered_ptx, g_required_ptx, g_execution_backend,
                   staged_since, loaderVars>>

\* The device moves while the host does anything or nothing.
Device ==
    /\ DeviceTakesStart \/ DeviceEnds
    /\ UNCHANGED <<apiVars, loaderVars>>
=============================================================================
