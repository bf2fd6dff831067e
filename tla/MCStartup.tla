------------------------------ MODULE MCStartup ------------------------------
(***************************************************************************)
(* Instance of Startup for TLC.                                            *)
(***************************************************************************)
EXTENDS Startup

Config(transport, port, key, require, auto) ==
    [ transport |-> transport, uart_port |-> port, auth_key |-> key,
      require_authentication |-> require, auto_mark_app_valid |-> auto ]

\* Both ports, both transports and the broken one, and every reason to refuse a
\* key.
MCConfigs ==
    { Config("NULL", "UART0", "NONE", FALSE, TRUE),
      Config("NULL", "UART1", "KEY", TRUE, FALSE),
      Config("NULL", "UART0", "NONE", TRUE, FALSE),
      Config("CUSTOM", "UART0", "TOO_LONG", TRUE, FALSE),
      Config("CUSTOM", "UART0", "KEY", FALSE, TRUE),
      Config("BROKEN", "UART0", "KEY", TRUE, FALSE) }
=============================================================================
