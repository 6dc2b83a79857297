------------------------------ MODULE MCEngine ------------------------------
(* Engine with programs made of what flash.py and device.py send. *)
EXTENDS Engine


O(op, n) == LET o == [op |-> op, n |-> n, w |-> 0, rd |-> FALSE, reg |-> "none", val |-> 0,
                      sent |-> 0]
            IN  [o EXCEPT !.sent = HostLen(o)]
Wide(n, w, rd) == LET o == [O("wide", n) EXCEPT !.w = w, !.rd = rd]
                  IN  [o EXCEPT !.sent = HostLen(o)]
Reg(r, v) == [O("setReg", 0) EXCEPT !.reg = r, !.val = v]
Cut(o, k) == [o EXCEPT !.sent = k]

On == O("cs", 1)
Off == O("cs", 0)

MCPrograms ==
  { \* NAND: read a page, program one and wait, poll the status, a burst longer than
    \* the transmit FIFO
    <<O("ce", 1), O("cmd", 0), O("addr", 2), O("read", 9), O("ce", 0)>>,
    <<O("cmd", 0), O("addr", 2), O("write", 3), O("cmd", 0), O("wait", 0), O("read", 1)>>,
    <<O("cmd", 0), O("poll", 0), O("read", 2), O("wait", 0)>>,
    <<O("addr", 3), O("read", 2), O("addr", 1), O("write", 2)>>,
    \* SPI: on one, two and four lines, a status poll, both ways at once
    <<On, O("spiWrite", 2), O("spiRead", 7), Off, On, Wide(1, 2, TRUE), Off>>,
    <<O("spiPoll", 1), On, Wide(2, 1, FALSE), O("read4", 3), Off, On, O("spiWrite", 1), Off>>,
    <<On, Wide(1, 0, FALSE), Wide(1, 2, FALSE), O("spiRead", 1), Off, O("spiPoll", 2)>>,
    <<On, O("xfer", 5), Off, O("info", 0), O("pinTest", 0), On, Wide(1, 0, TRUE), Off>>,
    \* the rest
    <<Reg("whr", 5), O("setBaud", 0), O("unknown", 0), O("getPins", 0), O("delay", 2),
      O("setBaud", 0), O("echo", 0)>>,
    <<Reg("div", 2), On, Reg("bad", 0), O("xfer", 0), O("xfer", 1), Off, O("nop", 0)>>,
    \* operations the link cuts off, before and after the bus has been started
    <<On, Cut(O("spiWrite", 3), 4), On, O("spiRead", 1), Off>>,
    <<On, O("read4", 1), Cut(Wide(3, 2, FALSE), 3), On, Wide(2, 1, FALSE), Off, O("echo", 0)>>,
    <<O("ce", 1), Cut(O("write", 3), 4), O("echo", 0), O("cmd", 0), Cut(O("write", 2), 3),
      O("wait", 0)>>,
    <<On, Cut(O("xfer", 4), 6), O("setBaud", 0), Cut(O("addr", 2), 2), O("info", 0)>> }

MCRegisters ==
  { [setup |-> 2, wp |-> 3, wh |-> 2, rp |-> 3, reh |-> 2, whr |-> 6, adl |-> 8, wb |-> 16,
     div |-> 1, late |-> FALSE],
    [setup |-> 0, wp |-> 1, wh |-> 1, rp |-> 1, reh |-> 0, whr |-> 14, adl |-> 20, wb |-> 16,
     div |-> 0, late |-> TRUE] }
==============================================================================
