------------------------- MODULE MCDeviceConnection -------------------------
(***************************************************************************)
(* Instance of DeviceConnection for TLC: frames built as build_frame of    *)
(* the tests in src/protocol.rs builds them, with those tests' payloads    *)
(* and expectations, between noise.                                        *)
(***************************************************************************)
EXTENDS DeviceConnection, Crc16

Built(protocol_number, payload, serial) ==
  LET body == <<Len(payload) + 5, protocol_number>> \o payload
                \o <<serial \div 256, serial % 256>>
      crc == CrcX25(body)
  IN START_BYTES \o body \o <<crc \div 256, crc % 256>> \o STOP_BYTES

Says(kind, packet, bytes) == [bytes |-> bytes, says |-> [kind |-> kind, packet |-> packet]]
Noise(bytes) == [bytes |-> bytes, says |-> NULL]
Corrupt(item, i) == Noise([item.bytes EXCEPT ![i] = (@ + 1) % 256])

Login == Says("login", <<1, 2, 3, 4, 5, 6, 7, 8, 9, 0, 1, 2, 3, 4, 5>>,
              Built(1, <<1, 35, 69, 103, 137, 1, 35, 69>>, 258))
OtherLogin == Says("login", <<9, 1, 2, 3, 4, 5, 6, 7, 8, 9, 0, 1, 2, 3, 4, 5>>,
              Built(1, <<145, 35, 69, 103, 137, 1, 35, 69, 66, 1>>, 2))
Heartbeat == Says("heartbeat",
              [terminal_info |-> 1, voltage_level |-> 5, gsm_signal_strength |-> 4,
               alarm_language |-> 2], Built(19, <<1, 5, 4, 0, 2>>, 3))
Extended == Says("location",
              [timestamp |-> <<2026, 4, 9, 18, 29, 18>>, satellites |-> 8,
               position |-> <<-11167399, 192213981>>, speed_kph |-> 0, course |-> 0],
              Built(34, <<26, 4, 9, 18, 41, 24, 200, 0, 170, 102, 167, 11, 116, 243, 221, 0,
                          16, 0, 1, 254>>, 7))
Classic == Says("location",
              [timestamp |-> <<2024, 4, 9, 12, 34, 56>>, satellites |-> 8,
               position |-> <<11133784, 19555856>>, speed_kph |-> 60, course |-> 30],
              Built(18, <<36, 4, 9, 18, 52, 86, 200, 0, 169, 227, 88, 1, 42, 102, 16, 60,
                          0, 30>>, 3))

ShortLogin == Noise(Built(1, <<1, 35>>, 9))
Status     == Noise(Built(26, <<0>>, 5))

MCScripts ==
  { <<Login, Heartbeat, OtherLogin, Heartbeat>>,
    <<Heartbeat, Noise(<<1, 13, 10>>), Login, Noise(<<9>>), Extended, Classic>>,
    <<Login, Corrupt(Heartbeat, 13), Status, Heartbeat, ShortLogin, Heartbeat>>,
    <<Login, Corrupt(Heartbeat, 15), Corrupt(Heartbeat, 3), Heartbeat>>,
    <<Noise(<<120, 120, 3>>), Login, Noise(<<120, 120, 20, 1>>), Heartbeat, Heartbeat>>,
    <<Noise(<<120>>), Login, Heartbeat>>,
    <<Login, Noise(<<120, 120, 5, 1>>), Heartbeat, Noise(<<7, 120>>)>> }
=============================================================================
