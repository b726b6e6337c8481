---------------------------- MODULE HostRuntime ----------------------------
(***************************************************************************)
(* The runtime (runtime/src/host_runtime.cpp) with the bundles of the      *)
(* kernel loader, on top of the host API; and an application that uses     *)
(* both of them and the driver in any order.                               *)
(***************************************************************************)
EXTENDS HostApi

CONSTANTS
    Files,      \* path -> [size, blank, source]: the binaries and PTX texts
    Manifests   \* build -> the manifests an application may upload

\* Names are the kernel names in use; "" stands for a missing one.
ASSUME HostRuntimeAssumption ==
    \A b \in Builds : \A m \in Manifests[b] : m.kernel_name \in Names \cup {""}

VARIABLES
    current,    \* the loaded bundle: name, format, is its PTX registered by
                \* the runtime, and as history the source that was
    app_ptx,    \* history: name -> source of what the application has
                \* registered and not unregistered since
    exposed,    \* history: the names of those registered while the runtime
                \* held the name
    touched,    \* history: the application has registered, unregistered or
                \* shut down the name of the bundle since its upload
    shut        \* history: shutdownHostAPI() since the last upload

runtimeVars == <<current, app_ptx, exposed, touched, shut>>
vars == <<loaderVars, fpgaVars, apiVars, runtimeVars>>

NoBundle == [loaded |-> FALSE, name |-> "none", format |-> "elf", owned |-> FALSE, source |-> ""]
\* An empty manifest.
NoManifest == [kernel_name |-> "", path |-> "", format |-> "elf", workgroup |-> 0, entry |-> "",
               size |-> 0]

Init ==
    /\ LoaderInit /\ FpgaInit /\ ApiInit
    /\ current = NoBundle
    /\ app_ptx = << >> /\ exposed = {} /\ touched = FALSE /\ shut = FALSE
-----------------------------------------------------------------------------
(***************************************************************************)
(* Kernel loader: packing writes what inspection reads.                    *)
(***************************************************************************)
\* The entry symbol found in an ELF file is not looked at again.
PackKernelBundle(name, path, wg) ==
    IF path \notin DOMAIN Files THEN NoManifest
    ELSE [kernel_name |-> name, path |-> path, format |-> "elf", workgroup |-> wg,
          entry |-> "", size |-> Files[path].size]

PackPtxKernelBundle(name, path, wg) ==
    IF name = "" \/ path \notin DOMAIN Files \/ wg = 0 THEN NoManifest
    ELSE [kernel_name |-> name, path |-> path, format |-> "ptx", workgroup |-> wg,
          entry |-> name, size |-> Files[path].size]

\* inspectKernelBundleDetails(); size 0 stands for a manifest without one.
InspectKernelBundle(m) ==
    /\ m.kernel_name # "" /\ m.path # ""
    /\ m.format \in {"elf", "ptx"}
    /\ m.path \in DOMAIN Files
    /\ m.workgroup # 0
    /\ m.format = "ptx" => m.entry \in {"", m.kernel_name}
    /\ m.size \in {0, Files[m.path].size}
-----------------------------------------------------------------------------
(***************************************************************************)
(* Bundles.                                                                *)
(***************************************************************************)
\* Fault: a name registered by somebody else is taken over.
OwnerCheckDropped(m) == TRUE

\* A name registered by somebody else is not taken over.
OwnerCheck(m) ==
    m.kernel_name \in DOMAIN g_registered_ptx =>
        current.owned /\ current.name = m.kernel_name

Uploadable(m) ==
    /\ InspectKernelBundle(m)
    /\ m.format = "ptx" => ~Files[m.path].blank /\ OwnerCheck(m)

UploadFails(m) ==
    /\ Idle /\ ~Uploadable(m)
    /\ Done
    /\ UNCHANGED <<loaderVars, fpgaVars, runtimeVars>> /\ apiUnchanged

\* The registration of the bundle that is replaced goes, unless the new one
\* has just renewed it.
Upload(m) ==
    /\ Idle /\ Uploadable(m)
    /\ LET ptx == m.format = "ptx"
           renewed == ptx /\ current.name = m.kernel_name
           gone == IF current.owned /\ ~renewed THEN {current.name} ELSE {}
           registered == IF ptx THEN Registered(m.kernel_name, Files[m.path].source)
                         ELSE g_registered_ptx
       IN  /\ g_registered_ptx' = [n \in DOMAIN registered \ gone |-> registered[n]]
           /\ g_required_ptx' = IF ptx THEN (g_required_ptx \ gone) \cup {m.kernel_name}
                                ELSE (g_required_ptx \ gone) \ {m.kernel_name}
           /\ IF ptx THEN UNCHANGED <<g_kernel_binary_path, g_exec_state>>
              ELSE LoadKernelBinary(m.path)
           /\ current' = [loaded |-> TRUE, name |-> m.kernel_name, format |-> m.format,
                          owned |-> ptx, source |-> IF ptx THEN Files[m.path].source ELSE ""]
    /\ touched' = FALSE /\ shut' = FALSE
    /\ Done
    /\ UNCHANGED <<build, g_staged_args, g_execution_backend, outstanding, staged_since, app_ptx,
                   exposed, fpgaVars, g_device_buffers, g_next_dev_addr, g_launch_configured>>

UnloadKernelBundle ==
    /\ Idle
    /\ LET gone == IF current.owned THEN {current.name} ELSE {}
       IN  /\ g_registered_ptx' = [n \in DOMAIN g_registered_ptx \ gone |-> g_registered_ptx[n]]
           /\ g_required_ptx' = g_required_ptx \ gone
    /\ current' = NoBundle /\ touched' = FALSE
    /\ Done
    /\ UNCHANGED <<build, g_staged_args, g_execution_backend, outstanding, staged_since, app_ptx,
                   exposed, shut, fpgaVars, loaderVars>>
-----------------------------------------------------------------------------
(***************************************************************************)
(* Launch.                                                                 *)
(***************************************************************************)
LaunchRefused(n) ==
    /\ ~current.loaded \/ n # current.name
    /\ LaunchRejected("runtime_launch")
    /\ UNCHANGED runtimeVars

\* A PTX bundle goes through the host API, which refuses an empty grid; one
\* with too much shared memory does not get there.
LaunchPtxBundle(n) ==
    /\ current.loaded /\ n = current.name /\ current.format = "ptx"
    /\ LaunchRejected("runtime_launch") \/ GpgpuLaunchKernel("runtime_launch", n)
    /\ UNCHANGED runtimeVars

\* An ELF bundle only steps the driver, in both builds.
LaunchElfBundle(n) ==
    /\ MayLaunch /\ current.loaded /\ n = current.name /\ current.format = "elf"
    /\ ConfigureLaunch
    /\ g_exec_state' = StartKernel("CONFIGURED")
    /\ Returns("runtime_launch", TRUE, "driver")
    /\ UNCHANGED <<g_device_buffers, g_next_dev_addr, g_kernel_binary_path, fpgaVars, runtimeVars>>
    /\ apiUnchanged
-----------------------------------------------------------------------------
\* The runtime takes name n to be its own.
RuntimeHolds(n) == current.owned /\ current.name = n

AppRegisterPtx(n, src) ==
    /\ GpgpuRegisterPtx(n, src)
    /\ app_ptx' = [x \in DOMAIN app_ptx \cup {n} |-> IF x = n THEN src ELSE app_ptx[x]]
    /\ exposed' = IF RuntimeHolds(n) THEN exposed \cup {n} ELSE exposed \ {n}
    /\ touched' = (touched \/ RuntimeHolds(n))
    /\ UNCHANGED <<current, shut>>

AppUnregisterPtx(n) ==
    /\ GpgpuUnregisterPtx(n)
    /\ app_ptx' = [x \in DOMAIN app_ptx \ {n} |-> app_ptx[x]]
    /\ exposed' = exposed \ {n}
    /\ touched' = (touched \/ RuntimeHolds(n))
    /\ UNCHANGED <<current, shut>>

AppShutdown ==
    /\ ShutdownHostAPI
    /\ app_ptx' = << >> /\ exposed' = {} /\ shut' = TRUE
    /\ touched' = current.owned
    /\ UNCHANGED current

Addresses == {DEV_BASE, HeapStart} \cup DOMAIN Buffers

ApiCall ==
    \/ \E size \in Sizes[build] : GpgpuMalloc(size) \/ \E a \in Addresses : GpgpuMemcpyH2D(a, size)
    \/ \E a \in Addresses : GpgpuFree(a)
    \/ SetKernelArgument \/ ClearKernelArguments
    \/ InstallKernelExecutionBackend
    \/ LaunchRejected("launch")
    \/ \E n \in Names : GpgpuLaunchKernel("launch", n)
    \/ SynchronizeSimulated \/ SynchronizeFpga
    \/ OpenOrClose \/ Reset

Polling == PollRunning \/ PollAgain \/ LaunchDeadline \/ PollDone \/ SyncDeadline

Next ==
    \/ (ApiCall \/ Polling \/ Device) /\ UNCHANGED runtimeVars
    \/ \E n \in Names : \E src \in Sources[build] : AppRegisterPtx(n, src)
    \/ \E n \in Names : AppUnregisterPtx(n)
    \/ AppShutdown
    \/ \E m \in Manifests[build] : Upload(m) \/ UploadFails(m)
    \/ UnloadKernelBundle
    \/ \E n \in Names : LaunchRefused(n) \/ LaunchPtxBundle(n) \/ LaunchElfBundle(n)

Spec == Init /\ [][Next]_vars
-----------------------------------------------------------------------------
TypeOK ==
    /\ g_exec_state \in {"IDLE", "CONFIGURED", "RUNNING", "COMPLETED", "FAILED"}
    /\ g_staged_args \in 0 .. MAX_STAGED /\ staged_since \in 0 .. MAX_STAGED
    /\ g_required_ptx \subseteq Names /\ DOMAIN g_registered_ptx \subseteq Names
    /\ current.name \in Names \cup {"none"} /\ current.format \in {"elf", "ptx"}
    /\ dev.status \in {"IDLE", "RUNNING", "DONE", "ERROR"}
    /\ ram \in [Cells -> {"none", "data", "zero"} \cup DOMAIN Images]
    /\ last.op \in {"other", "launch", "runtime_launch", "sync"} /\ last.ran \in {"nothing", "driver", "fpga", "backend"}

(***************************************************************************)
(* Device buffers that are in use do not overlap, also after others were   *)
(* freed or the aperture ran out (bump allocators, loader.cpp:46 and       *)
(* fpga_driver.cpp:154); on the FPGA they lie between the code and the end *)
(* of the aperture.                                                        *)
(***************************************************************************)
BuffersDisjoint ==
    /\ \A a, b \in DOMAIN Buffers : a < b => a + Buffers[a] <= b
    /\ \A a \in DOMAIN driver.buffers :
          a >= HeapStart /\ a + driver.buffers[a] <= MEM_BASE + MEM_SIZE

(***************************************************************************)
(* While the device runs, its code is the complete image of the kernel     *)
(* that was launched: neither copies to buffers ("kernel code is never     *)
(* overwritten by gpgpuMalloc()", fpga_driver.cpp:24) nor loads that       *)
(* failed half way touch it.  For a host that waits for its kernels.       *)
(***************************************************************************)
RunningCodeIntact ==
    dev.status = "RUNNING" => \A x \in CodeCells(dev.run) : x \in Cells /\ ram[x] = dev.run

(***************************************************************************)
(* gpgpuSynchronize() waits until the hardware is done: when it returns    *)
(* true on the FPGA, the run asked for by the last START has ended         *)
(* ("espera a que el hardware termine", docs/software/stack_overview.md).  *)
(***************************************************************************)
SynchronizeWaits ==
    Idle /\ last.op = "sync" /\ last.ok => dev.wanted \in {"none", "ended"}

(***************************************************************************)
(* A launch settles the driver's state on every path: nothing is left      *)
(* configured, only the device may be left running, and a launch that the  *)
(* driver or the backend executed is reported complete.                    *)
(***************************************************************************)
LaunchSettles ==
    Idle =>
        /\ g_exec_state # "CONFIGURED"
        /\ g_exec_state = "RUNNING" => Fpga
        /\ last.ran \in {"driver", "backend"} => g_exec_state = "COMPLETED"

(***************************************************************************)
(* A bundle in PTX runs as PTX: a launch of it that succeeds was executed  *)
(* by the backend and never as a kernel without PTX, also after the        *)
(* application has unregistered its name (gpgpuRequireRegisteredPtx,       *)
(* host_runtime.cpp:113), until the host API is shut down.  Which source   *)
(* the backend got is the subject of PtxSourcesKept.                       *)
(***************************************************************************)
PtxBundleRunsAsPtx ==
    last.op = "runtime_launch" /\ last.ok /\ current.format = "ptx" /\ ~shut =>
        last.ran = "backend"

(***************************************************************************)
(* No launch reuses arguments a successful launch has consumed: what is    *)
(* staged was staged since.                                                *)
(***************************************************************************)
NoArgumentReuse == g_staged_args <= staged_since

(***************************************************************************)
(* The PTX registry shared by application and runtime keeps the sources of *)
(* both, under names that only one of them uses at a time                  *)
(* (host_runtime.cpp:83-100, 126-128):                                     *)
(*   - a source the application registered while the runtime did not hold  *)
(*     its name stays as it is, whichever bundles come and go, until the   *)
(*     application unregisters it, registers another or shuts down;        *)
(*   - a loaded bundle keeps its own source while the application leaves   *)
(*     its name alone.                                                     *)
(* Under a name both use neither holds: see AppPtxKept.                    *)
(***************************************************************************)
PtxSourcesKept ==
    /\ \A n \in DOMAIN app_ptx \ exposed :
          n \in DOMAIN g_registered_ptx /\ g_registered_ptx[n] = app_ptx[n]
    /\ current.owned /\ ~touched =>
          /\ current.name \in DOMAIN g_registered_ptx
          /\ g_registered_ptx[current.name] = current.source

(***************************************************************************)
(* "PTX kernel already registered by another owner" (host_runtime.cpp:85): *)
(* what the application has registered, and not unregistered, is never     *)
(* taken from it.  False for a name the runtime held at that time: the     *)
(* next unload or upload erases the registration as its own.               *)
(***************************************************************************)
AppPtxKept ==
    \A n \in DOMAIN app_ptx : n \in DOMAIN g_registered_ptx /\ g_registered_ptx[n] = app_ptx[n]

(***************************************************************************)
(* The PTX registry serves its two users (gpgpuRegisterPtx and             *)
(* uploadKernelBundle, host_runtime.cpp:83): bundles in PTX run as PTX,    *)
(* and under names they do not share nobody loses a source.                *)
(***************************************************************************)
PtxRegistryInv == PtxBundleRunsAsPtx /\ PtxSourcesKept

(***************************************************************************)
(* Device memory: live buffers never meet each other or the code that      *)
(* runs, through frees, failed loads and an exhausted aperture             *)
(* (fpga_driver.cpp:154, fpga_elf_loader.cpp:102).                         *)
(***************************************************************************)
DeviceMemoryInv == TypeOK /\ BuffersDisjoint /\ RunningCodeIntact

(***************************************************************************)
(* A launch leaves the driver's state settled on every path through        *)
(* gpgpuLaunchKernel() (host_api.cpp:164), and arguments it has used up    *)
(* are not staged any more.  A launch the FPGA refuses keeps its arguments *)
(* (host_api.cpp:200-203), one the PTX path refuses does not, and one of   *)
(* an ELF bundle takes none.                                               *)
(***************************************************************************)
LaunchInv == LaunchSettles /\ NoArgumentReuse
=============================================================================
