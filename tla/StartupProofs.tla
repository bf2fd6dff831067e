---------------------------- MODULE StartupProofs ----------------------------
(***************************************************************************)
(* Startup's invariants for every set of ports and configurations, any     *)
(* pattern of failures, and any number of attempts and boots.              *)
(***************************************************************************)
EXTENDS Startup, TLAPS

Calling == pc # "RETURNED"
HoldsDriver == pc \in {"PARAM", "PIN"} \/ (pc = "TASK" /\ config.transport = "NULL")
Resolved(c) == [c EXCEPT !.transport = IF @ = "NULL" THEN "UART" ELSE @]

TypeOK ==
    /\ pc \in {"RETURNED", "COUNT", "STORE", "TRANSPORT", "PARAM", "PIN", "TASK"}
    /\ driver \in [Ports -> {"NONE", "APP", "LINK"}]
    /\ s_task_handle \in BOOLEAN
    /\ s_boot_count \in Nat /\ nvs \in Nat /\ counted \in Nat

\* A call past its first checks has found no task and a usable configuration,
\* and has not yet handed it over.
CallInv ==
    Calling =>
      /\ ~s_task_handle
      /\ config \in Configs /\ ~KeyRefused(config)
      /\ s_auth = auth_configure(config)
      /\ pc # "TASK" => s_config = config
      /\ pc = "TASK" =>
           /\ config.transport # "BROKEN"
           /\ s_config = Resolved(config)
           /\ s_write = s_config.transport
      /\ pc \in {"PARAM", "PIN"} => config.transport = "NULL"

\* The link's driver belongs to the running task or to the call in progress.
DriverInv ==
    \A p \in Ports :
      driver[p] = "LINK" <=>
        \/ s_task_handle /\ served.transport = "NULL" /\ served.uart_port = p
        \/ HoldsDriver /\ config.uart_port = p

ServedInv ==
    s_task_handle =>
      /\ served \in Configs /\ ~KeyRefused(served) /\ served.transport # "BROKEN"
      /\ s_config = Resolved(served)
      /\ s_write = s_config.transport
      /\ s_auth = auth_configure(served)

CountInv ==
    ~unread => nvs = counted /\ (pc = "STORE" => s_boot_count = nvs + 1)

Inv == TypeOK /\ CallInv /\ DriverInv /\ ServedInv /\ CountInv

-----------------------------------------------------------------------------
\* Inv holds at the first boot.
LEMMA InvInit == Init => Inv
<1> SUFFICES ASSUME Init
             PROVE  Inv
    OBVIOUS
<1>1. TypeOK /\ CallInv /\ ServedInv /\ CountInv
    BY DEF Init, TypeOK, CallInv, Calling, ServedInv, CountInv
<1>2. DriverInv
  <2>1. \A p \in Ports : driver[p] # "LINK"
      BY DEF Init
  <2> QED
      BY <2>1 DEF Init, DriverInv, HoldsDriver
<1> QED
    BY <1>1, <1>2 DEF Inv

\* Types are kept.
LEMMA TypeStep == Inv /\ Next => TypeOK'
<1> SUFFICES ASSUME Inv, Next
             PROVE  TypeOK'
    OBVIOUS
<1> USE DEF Inv, TypeOK
<1>1. ASSUME NEW c \in Configs, ota_link_start_with_config(c)
      PROVE  TypeOK'
    BY <1>1 DEF ota_link_start_with_config, counterVars
<1>2. CASE CountRead
    BY <1>2 DEF CountRead, linkVars
<1>3. CASE CountStore
    BY <1>3 DEF CountStore, Store, linkVars
<1>4. CASE InstallDriver
    BY <1>4 DEF InstallDriver, Return, linkVars, counterVars
<1>5. CASE ConfigureDriver
    BY <1>5 DEF ConfigureDriver, uart_driver_delete, Return, linkVars, counterVars
<1>6. CASE SetPins
    BY <1>6 DEF SetPins, uart_driver_delete, Return, counterVars
<1>7. CASE CustomTransport
    BY <1>7 DEF CustomTransport, Return, counterVars
<1>8. CASE CreateTasks
    BY <1>8 DEF CreateTasks, uart_driver_delete, Return, counterVars
<1>9. CASE MarkValidEnds
    BY <1>9 DEF MarkValidEnds, callVars, counterVars
<1>10. CASE Reset
    BY <1>10 DEF Reset
<1> QED
    BY <1>1, <1>2, <1>3, <1>4, <1>5, <1>6, <1>7, <1>8, <1>9, <1>10 DEF Next

\* The count is read and stored in one call.
LEMMA CountStep == Inv /\ Next => CountInv'
<1> SUFFICES ASSUME Inv, Next
             PROVE  CountInv'
    OBVIOUS
<1> USE DEF Inv, TypeOK, CountInv
<1>1. ASSUME NEW c \in Configs, ota_link_start_with_config(c)
      PROVE  CountInv'
    BY <1>1 DEF ota_link_start_with_config, counterVars
<1>2. CASE CountRead
    BY <1>2 DEF CountRead
<1>3. CASE CountStore
    BY <1>3 DEF CountStore, Store
<1>4. CASE InstallDriver \/ ConfigureDriver \/ SetPins \/ CustomTransport \/ CreateTasks
    BY <1>4 DEF InstallDriver, ConfigureDriver, SetPins, CustomTransport, CreateTasks, Return,
                counterVars
<1>5. CASE MarkValidEnds
    BY <1>5 DEF MarkValidEnds, callVars, counterVars
<1>6. CASE Reset
    BY <1>6 DEF Reset
<1> QED
    BY <1>1, <1>2, <1>3, <1>4, <1>5, <1>6 DEF Next

\* The call keeps what it checked, and a running task what it was given.
LEMMA ConfigStep == Inv /\ Next => CallInv' /\ ServedInv'
<1> SUFFICES ASSUME Inv, Next
             PROVE  CallInv' /\ ServedInv'
    OBVIOUS
<1> USE DEF Inv, TypeOK, CallInv, ServedInv, Calling
<1>1. ASSUME NEW c \in Configs, ota_link_start_with_config(c)
      PROVE  CallInv' /\ ServedInv'
    BY <1>1 DEF ota_link_start_with_config, AlreadyRunning, KeyRefused, KeyUsable, auth_configure
<1>2. CASE CountRead \/ CountStore
    BY <1>2 DEF CountRead, CountStore, linkVars, KeyRefused, KeyUsable, auth_configure
<1>3. CASE InstallDriver \/ ConfigureDriver
    BY <1>3 DEF InstallDriver, ConfigureDriver, Return, linkVars, KeyRefused, KeyUsable,
                auth_configure
<1>4. CASE SetPins
    BY <1>4, StartupAssumption
       DEF SetPins, Return, Resolved, ConfigType, KeyRefused, KeyUsable, auth_configure
<1>5. CASE CustomTransport
    BY <1>5, StartupAssumption
       DEF CustomTransport, Return, Resolved, ConfigType, KeyRefused, KeyUsable, auth_configure
<1>6. CASE CreateTasks
    BY <1>6 DEF CreateTasks, Return, KeyRefused, KeyUsable, auth_configure, Resolved
<1>7. CASE MarkValidEnds
    BY <1>7 DEF MarkValidEnds, callVars, KeyRefused, KeyUsable, auth_configure
<1>8. CASE Reset
    BY <1>8 DEF Reset
<1> QED
    BY <1>1, <1>2, <1>3, <1>4, <1>5, <1>6, <1>7, <1>8 DEF Next

\* Every way out of the call deletes the driver or hands it over.
LEMMA DriverStep == Inv /\ Next => DriverInv'
<1> SUFFICES ASSUME Inv, Next
             PROVE  DriverInv'
    OBVIOUS
<1> USE DEF Inv, TypeOK, CallInv, Calling, DriverInv, HoldsDriver
<1>1. ASSUME NEW c \in Configs, ota_link_start_with_config(c)
      PROVE  DriverInv'
    BY <1>1 DEF ota_link_start_with_config, AlreadyRunning
<1>2. CASE CountRead \/ CountStore
    BY <1>2 DEF CountRead, CountStore, linkVars
<1>3. CASE InstallDriver
    BY <1>3, StartupAssumption DEF InstallDriver, Return, linkVars, Port, ConfigType
<1>4. CASE ConfigureDriver
    BY <1>4, StartupAssumption
       DEF ConfigureDriver, uart_driver_delete, Return, linkVars, Port, ConfigType
<1>5. CASE SetPins
    BY <1>5, StartupAssumption
       DEF SetPins, uart_driver_delete, Return, Port, ConfigType
<1>6. CASE CustomTransport
    BY <1>6 DEF CustomTransport, Return
<1>7. CASE CreateTasks
  <2>1. s_config.uart_port = config.uart_port
      BY <1>7, StartupAssumption DEF CreateTasks, Resolved, ConfigType
  <2> QED
      BY <1>7, <2>1, StartupAssumption
         DEF CreateTasks, OwnsDriver, uart_driver_delete, Return, Port, ConfigType
<1>8. CASE MarkValidEnds
    BY <1>8 DEF MarkValidEnds, callVars
<1>9. CASE Reset
    BY <1>9 DEF Reset
<1> QED
    BY <1>1, <1>2, <1>3, <1>4, <1>5, <1>6, <1>7, <1>8, <1>9 DEF Next

\* Inv is inductive.
LEMMA InvNext == Inv /\ [Next]_vars => Inv'
<1>1. Inv /\ Next => Inv'
    BY TypeStep, CountStep, ConfigStep, DriverStep DEF Inv
<1>2. Inv /\ UNCHANGED vars => Inv'
    BY DEF Inv, TypeOK, CallInv, Calling, DriverInv, HoldsDriver, ServedInv, CountInv,
           KeyRefused, KeyUsable, auth_configure, Resolved,
           vars, callVars, linkVars, counterVars
<1> QED
    BY <1>1, <1>2

\* The invariant behind the theorems: whose the driver is, and what the call and
\* the running task hold.
LEMMA StartupInvariant == Spec => []Inv
BY InvInit, InvNext, PTL DEF Spec

-----------------------------------------------------------------------------
\* ota_link_start_with_config never leaks the UART driver and never takes it
\* from a running link.
THEOREM DriverNeverLeaks == Spec => []DriverOfRunningLink
<1>1. Inv => DriverOfRunningLink
    BY DEF Inv, DriverInv, HoldsDriver, DriverOfRunningLink
<1> QED
    BY <1>1, StartupInvariant, PTL

\* A running link is never reconfigured by a later start.
THEOREM RunningLinkKeepsConfig == Spec => []ServesAsStarted
<1>1. Inv => ServesAsStarted
    BY StartupAssumption DEF Inv, ServedInv, Resolved, ConfigType, ServesAsStarted
<1> QED
    BY <1>1, StartupInvariant, PTL

\* Authentication that the application asked for is on.
THEOREM AuthenticationIsOn == Spec => []NeverOpenByMistake
<1>1. Inv => NeverOpenByMistake
    BY DEF Inv, ServedInv, KeyRefused, KeyUsable, auth_configure, NeverOpenByMistake
<1> QED
    BY <1>1, StartupInvariant, PTL

\* A readable boot counter holds every count that device_info_init stored.
THEOREM CountsAreKept == Spec => []NoCountLost
<1>1. Inv => NoCountLost
    BY DEF Inv, CountInv, NoCountLost
<1> QED
    BY <1>1, StartupInvariant, PTL
=============================================================================
