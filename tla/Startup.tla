------------------------------- MODULE Startup -------------------------------
(***************************************************************************)
(* ota_link_start_with_config of ota_link.c, with device_info_init of      *)
(* device_info.c: the steps that may fail one by one, the clean-up behind  *)
(* each, an application that tries again, and resets in between.           *)
(***************************************************************************)
EXTENDS Integers

CONSTANTS
    Ports,           \* UART ports
    Configs,         \* the configurations the application may pass
    NvsFailures,     \* which NVS calls may fail: among OPEN, GET, SET, COMMIT
    MaxAttempts,     \* bound on the calls in one boot
    MaxBoots         \* bound on the boots

\* transport is NULL for the built-in UART, CUSTOM for both callbacks and
\* BROKEN for a table with a NULL in it.
ConfigType ==
    [ transport : {"NULL", "CUSTOM", "BROKEN"}, uart_port : Ports,
      auth_key : {"NONE", "KEY", "TOO_LONG"}, require_authentication : BOOLEAN,
      auto_mark_app_valid : BOOLEAN ]

ASSUME StartupAssumption ==
    /\ Configs \subseteq ConfigType
    /\ NvsFailures \subseteq {"OPEN", "GET", "SET", "COMMIT"}
    /\ MaxAttempts \in Nat /\ MaxBoots \in Nat

VARIABLES
    pc,              \* where the call in progress stands
    config,          \* its argument
    s_config,
    s_task_handle,   \* whether the task exists
    s_auth,          \* what auth_configure left
    s_write,         \* what protocol_set_writer left
    driver,          \* port -> who installed a driver on it
    validating,      \* whether mark_valid_task was created
    s_boot_count,
    nvs,             \* the stored boot_count, 0 when there is none
    served,          \* history: the configuration ota_link_task was created for
    attempts,        \* calls in this boot
    counts,          \* history: boot counts stored in this boot
    counted,         \* history: boot counts stored in all boots
    unread,          \* history: a stored count could not be read
    boots

callVars == <<pc, config>>
linkVars == <<s_config, s_task_handle, s_auth, s_write, validating, served>>
counterVars == <<s_boot_count, nvs, counts, counted, unread>>
vars == <<callVars, linkVars, driver, counterVars, attempts, boots>>

NoConfig ==
    [transport |-> "NULL", uart_port |-> "NONE", auth_key |-> "NONE",
     require_authentication |-> FALSE, auto_mark_app_valid |-> FALSE]
NoAuth == [key |-> "NONE", required |-> FALSE]

\* The application may hold drivers of its own.
Init ==
    /\ pc = "RETURNED" /\ config = NoConfig /\ s_config = NoConfig
    /\ s_task_handle = FALSE /\ served = NoConfig
    /\ s_auth = NoAuth /\ s_write = "NONE" /\ validating = FALSE
    /\ s_boot_count = 0 /\ attempts = 0 /\ counts = 0
    /\ driver \in [Ports -> {"NONE", "APP"}]
    /\ nvs = 0 /\ counted = 0 /\ unread = FALSE /\ boots = 1

-----------------------------------------------------------------------------
KeyUsable(c) == c.auth_key = "KEY"

\* Mutant: a key that is not there, or too long, is not refused.
AnyKeyAccepted(c) == FALSE

KeyRefused(c) == c.require_authentication /\ ~KeyUsable(c)

auth_configure(c) ==
    IF KeyUsable(c) THEN [key |-> c.auth_key, required |-> c.require_authentication]
                    ELSE NoAuth

Return == pc' = "RETURNED" /\ UNCHANGED config

\* Mutant: a second start is not refused.
NeverRunning == FALSE

AlreadyRunning == s_task_handle

\* The call up to device_info_init.
ota_link_start_with_config(c) ==
    /\ pc = "RETURNED" /\ attempts < MaxAttempts
    /\ attempts' = attempts + 1
    /\ config' = c
    /\ \/ /\ AlreadyRunning
          /\ UNCHANGED <<pc, s_config, s_auth>>
       \/ /\ ~AlreadyRunning /\ KeyRefused(c)
          /\ s_config' = c
          /\ UNCHANGED <<pc, s_auth>>
       \/ /\ ~AlreadyRunning /\ ~KeyRefused(c)
          /\ s_config' = c
          /\ s_auth' = auth_configure(c)
          /\ pc' = "COUNT"
    /\ UNCHANGED <<s_task_handle, s_write, validating, served, driver, counterVars, boots>>

-----------------------------------------------------------------------------
\* device_info_init: nvs_flash_init, nvs_open and nvs_get_u32.  A failed read
\* goes on with 0, like an absent count.
CountRead ==
    /\ pc = "COUNT"
    /\ \/ "OPEN" \in NvsFailures /\ pc' = "TRANSPORT" /\ UNCHANGED <<s_boot_count, unread>>
       \/ pc' = "STORE" /\ s_boot_count' = nvs + 1 /\ UNCHANGED unread
       \/ "GET" \in NvsFailures /\ pc' = "STORE" /\ s_boot_count' = 1 /\ unread' = TRUE
    /\ UNCHANGED <<config, linkVars, driver, nvs, counts, counted, attempts, boots>>

\* Mutant: the count is stored as it was read.
StoreUnchanged ==
    /\ nvs' = s_boot_count - 1
    /\ counts' = counts + 1 /\ counted' = counted + 1

\* nvs_set_u32 and nvs_commit both succeed.
Store ==
    /\ nvs' = s_boot_count
    /\ counts' = counts + 1 /\ counted' = counted + 1

\* A failed commit may leave either value.
CountStore ==
    /\ pc = "STORE"
    /\ \/ Store
       \/ "SET" \in NvsFailures /\ UNCHANGED <<nvs, counts, counted>>
       \/ "COMMIT" \in NvsFailures /\ (Store \/ UNCHANGED <<nvs, counts, counted>>)
    /\ pc' = "TRANSPORT"
    /\ UNCHANGED <<config, linkVars, driver, s_boot_count, unread, attempts, boots>>

-----------------------------------------------------------------------------
Port == s_config.uart_port

\* uart_driver_install refuses a port that has a driver.
InstallDriver ==
    /\ pc = "TRANSPORT" /\ s_config.transport = "NULL"
    /\ \/ driver[Port] = "NONE" /\ driver' = [driver EXCEPT ![Port] = "LINK"]
          /\ pc' = "PARAM" /\ UNCHANGED config
       \/ Return /\ UNCHANGED driver
    /\ UNCHANGED <<linkVars, counterVars, attempts, boots>>

uart_driver_delete == driver' = [driver EXCEPT ![Port] = "NONE"]

ConfigureDriver ==
    /\ pc = "PARAM"
    /\ \/ pc' = "PIN" /\ UNCHANGED <<config, driver>>
       \/ uart_driver_delete /\ Return
    /\ UNCHANGED <<linkVars, counterVars, attempts, boots>>

\* uart_set_pin; then the built-in transport and its writer are put in place.
SetPins ==
    /\ pc = "PIN"
    /\ \/ /\ pc' = "TASK" /\ UNCHANGED <<config, driver>>
          /\ s_config' = [s_config EXCEPT !.transport = "UART"]
          /\ s_write' = "UART"
       \/ uart_driver_delete /\ Return /\ UNCHANGED <<s_config, s_write>>
    /\ UNCHANGED <<s_task_handle, s_auth, validating, served, counterVars, attempts, boots>>

CustomTransport ==
    /\ pc = "TRANSPORT" /\ s_config.transport # "NULL"
    /\ \/ s_config.transport = "BROKEN" /\ Return /\ UNCHANGED s_write
       \/ /\ s_config.transport = "CUSTOM"
          /\ s_write' = "CUSTOM"
          /\ pc' = "TASK" /\ UNCHANGED config
    /\ UNCHANGED <<s_config, s_task_handle, s_auth, validating, served, driver, counterVars,
                   attempts, boots>>

\* Mutant: s_config, which SetPins has changed, is asked instead of config.
OwnsDriverNow == s_config.transport = "NULL"

OwnsDriver == config.transport = "NULL"

\* xTaskCreate for ota_link_task and, if it is asked for and the running image
\* needs it, for mark_valid_task.
CreateTasks ==
    /\ pc = "TASK"
    /\ \/ /\ s_task_handle' = TRUE
          /\ served' = config
          /\ validating' \in {validating, s_config.auto_mark_app_valid}
          /\ UNCHANGED driver
       \/ /\ s_task_handle' = FALSE
          /\ IF OwnsDriver THEN uart_driver_delete ELSE UNCHANGED driver
          /\ UNCHANGED <<served, validating>>
    /\ Return
    /\ UNCHANGED <<s_config, s_auth, s_write, counterVars, attempts, boots>>

\* mark_valid_task ends.
MarkValidEnds ==
    /\ validating
    /\ validating' = FALSE
    /\ UNCHANGED <<callVars, s_config, s_task_handle, s_auth, s_write, served, driver,
                   counterVars, attempts, boots>>

\* Power loss or restart, at any point; only NVS survives.
Reset ==
    /\ boots < MaxBoots
    /\ boots' = boots + 1
    /\ pc' = "RETURNED" /\ config' = NoConfig /\ s_config' = NoConfig
    /\ s_task_handle' = FALSE /\ served' = NoConfig
    /\ s_auth' = NoAuth /\ s_write' = "NONE" /\ validating' = FALSE
    /\ s_boot_count' = 0 /\ attempts' = 0 /\ counts' = 0
    /\ driver' \in [Ports -> {"NONE", "APP"}]
    /\ UNCHANGED <<nvs, counted, unread>>

Next ==
    \/ \E c \in Configs : ota_link_start_with_config(c)
    \/ CountRead \/ CountStore
    \/ InstallDriver \/ ConfigureDriver \/ SetPins \/ CustomTransport \/ CreateTasks
    \/ MarkValidEnds \/ Reset

Spec == Init /\ [][Next]_vars

-----------------------------------------------------------------------------
\* A start that failed leaves no driver behind, so that another can succeed,
\* and the port of a running link keeps its driver: between calls there is a
\* driver of the link exactly on the port its task reads.
DriverOfRunningLink ==
    pc = "RETURNED" =>
      \A p \in Ports :
        driver[p] = "LINK" <=>
          s_task_handle /\ served.transport = "NULL" /\ served.uart_port = p

\* Whatever is called later, the running task keeps the transport, the key and
\* the writer of the call that started it.
ServesAsStarted ==
    s_task_handle =>
      /\ s_config = [served EXCEPT !.transport = IF @ = "NULL" THEN "UART" ELSE @]
      /\ s_write = s_config.transport /\ s_write \in {"UART", "CUSTOM"}
      /\ s_auth = auth_configure(served)

\* A link whose application asked for authentication never runs without it.
NeverOpenByMistake ==
    s_task_handle /\ served.require_authentication =>
      s_auth.required /\ s_auth.key = "KEY"

\* As long as the stored count can be read, every count that was stored is in
\* it, whatever fails or is interrupted between reading and storing it.
NoCountLost == ~unread => nvs = counted

\* README.md: "`Boot count` is stored in NVS and increments once per ESP32
\* boot.": a boot is counted once, however often the start is tried.
OncePerBoot == counts <= 1
==============================================================================
