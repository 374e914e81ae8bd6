\* Two edits in one form; a protocol with a port of its own choice and one with one port.
CONSTANTS
  Protocols = {"SHADOWSOCKS", "MTPROXY"}
  MaxChanges = 2
SPECIFICATION InboundSpec
INVARIANT NameAlone
CHECK_DEADLOCK FALSE
