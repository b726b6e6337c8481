---------------------------- MODULE DriverLoader ----------------------------
(***************************************************************************)
(* The driver's kernel and launch state, and the device memory of the      *)
(* simulation build (driver/src/loader.cpp).  Its functions are called by  *)
(* the host API and the runtime; contents of simulated buffers are left    *)
(* out.                                                                    *)
(***************************************************************************)
EXTENDS Integers

CONSTANTS
    SIZE_VALUES,    \* values a size_t or a device address holds: 2^64
    HOST_MEMORY,    \* the largest block of memory the host can have
    ALLOC_ALIGN,    \* alignment of both allocators
    DEV_BASE,       \* first simulated device address
    DEV_LIMIT       \* bound: simulated addresses handed out stay below it

ASSUME DriverLoaderAssumption ==
    /\ SIZE_VALUES \in Nat \ {0} /\ HOST_MEMORY \in Nat
    /\ ALLOC_ALIGN \in Nat \ {0}
    /\ DEV_BASE \in Nat \ {0} /\ DEV_LIMIT \in Nat /\ DEV_BASE <= DEV_LIMIT

VARIABLES
    g_device_buffers,       \* device address -> size
    g_next_dev_addr,
    g_kernel_binary_path,
    g_launch_configured,    \* with g_launch_args, which are left out
    g_exec_state

loaderVars ==
    <<g_device_buffers, g_next_dev_addr, g_kernel_binary_path, g_launch_configured, g_exec_state>>

NoPath == "no path"

LoaderInit ==
    /\ g_device_buffers = << >> /\ g_next_dev_addr = DEV_BASE
    /\ g_kernel_binary_path = NoPath
    /\ g_launch_configured = FALSE /\ g_exec_state = "IDLE"

\* The size set aside, and the bump pointer moved past it, in 64 bits.
Aligned(size) == (((size + ALLOC_ALIGN - 1) % SIZE_VALUES) \div ALLOC_ALIGN) * ALLOC_ALIGN
Bumped(next, size) == (next + Aligned(size)) % SIZE_VALUES

\* Buffer table b with a buffer of the given size added at a.
WithBuffer(b, a, size) == [x \in DOMAIN b \cup {a} |-> IF x = a THEN size ELSE b[x]]

WithoutBuffer(b, a) == [x \in DOMAIN b \ {a} |-> b[x]]

\* The checks of the two copy functions.
CopyAllowed(b, a, size) == a \in DOMAIN b /\ size <= b[a]

\* The bytes behind address a after assign(size, 0), which throws when the
\* host has no such block and leaves what was there.
Assigned(b, a, size) ==
    IF size <= HOST_MEMORY THEN size ELSE IF a \in DOMAIN b THEN b[a] ELSE 0

AllocateSimulated(size) ==
    /\ Bumped(g_next_dev_addr, size) <= DEV_LIMIT
    /\ g_device_buffers' = WithBuffer(g_device_buffers, g_next_dev_addr,
                                      Assigned(g_device_buffers, g_next_dev_addr, size))
    /\ g_next_dev_addr' = Bumped(g_next_dev_addr, size)

FreeSimulated(a) ==
    /\ g_device_buffers' = WithoutBuffer(g_device_buffers, a)
    /\ UNCHANGED g_next_dev_addr

LoadKernelBinary(path) == g_kernel_binary_path' = path /\ g_exec_state' = "IDLE"
-----------------------------------------------------------------------------
(***************************************************************************)
(* Execution state: each function maps the state it finds to the next one. *)
(***************************************************************************)
ConfigureLaunch == g_launch_configured' = TRUE

BeginKernelExecution(s) ==
    IF g_launch_configured' /\ s = "CONFIGURED" THEN "RUNNING" ELSE "FAILED"

FinishKernelExecution(s, success) ==
    IF s \in {"RUNNING", "CONFIGURED"} /\ success THEN "COMPLETED" ELSE "FAILED"

StartKernel(s) == FinishKernelExecution(BeginKernelExecution(s), TRUE)
=============================================================================
